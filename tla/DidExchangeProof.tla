-------------------------- MODULE DidExchangeProof --------------------------
(***************************************************************************)
(* Theorems about DidExchange for any agents, invitations, messages and    *)
(* queries, and any number of accepts: types, panics and stuck handlers    *)
(* first, then what agents connected once may rely on, whatever the other  *)
(* pairs do meanwhile.                                                     *)
(***************************************************************************)
EXTENDS DidExchange, TLAPS

-----------------------------------------------------------------------------
(* The inductive invariant of the first part. *)

Early == {"public", "private", "did", "send"}

Exchanging == {"accept", "respond", "confirm"}

\* b's request to a is still to be taken: from here on it may cost a key pair.
Asking(b, a) ==
    \/ \E t \in tasks : t.me = b /\ t.peer = a /\ t.kind = "accept" /\ t.at \in Early
    \/ \E m \in wire : m.from = b /\ m.to = a /\ m.kind = "accept"

\* One Accept of a pair at a time, and so one request; and no more key pairs
\* than accepts of either side.
CountInv ==
    /\ \A t, u \in tasks :
         t.kind = "accept" /\ u.kind = "accept" /\ t.me = u.me /\ t.peer = u.peer => t = u
    /\ \A m \in wire : m.kind = "accept" =>
         \E t \in tasks : /\ t.me = m.from /\ t.peer = m.to /\ t.kind = "accept"
                          /\ t.at = "sending"
    /\ \A m, n \in wire :
         m.kind = "accept" /\ n.kind = "accept" /\ m.from = n.from /\ m.to = n.to => m = n
    /\ \A a, b \in Agents :
         /\ keys[a][b] <= accepts[a][b] + accepts[b][a]
         /\ Asking(b, a) => keys[a][b] + 1 <= accepts[a][b] + accepts[b][a]

\* The exchange e was begun, by an Accept of e.by.
Begins(e) == e.n > 0 /\ e.n <= accepts[e.by][e.to]

\* What a running call or handler has read and stored at each of its steps.
TaskOK(t) ==
    /\ t.kind \in {"accept", "respond"} =>
         /\ keys[t.me][t.peer] > 0
         /\ t.at # "public" => t.pub > 0
         /\ t.at \notin {"public", "private", "did"} => docs[t.me][t.peer] > 0
    /\ t.kind \in {"respond", "confirm"} => t.key > 0
    /\ t.kind \in Exchanging => Begins(t.exch)
    /\ t.kind = "accept" => t.exch.by = t.me /\ t.exch.to = t.peer
    /\ t.kind = "respond" => t.exch.by = t.peer /\ t.exch.to = t.me
    /\ t.kind = "confirm" => t.exch.by = t.me /\ (t.at # "find" => t.exch.to = t.peer)
    /\ t.at = "did" => t.kind \in {"accept", "respond"}
    /\ t.at = "send" => t.kind \in {"accept", "respond", "send"}
    /\ t.at \in {"find", "load", "signal"} => t.kind = "confirm"
    /\ t.at \in {"sync", "wait"} => t.kind = "accept"
    /\ t.at = "signal" =>
         t.chan > 0 /\ t.chan <= accepts[t.me][t.peer] /\ syncCons[t.me][t.peer] > 0

MessageOK(m) ==
    m.kind \in {"accept", "respond"} =>
        /\ m.doc > 0
        /\ Begins(m.exch)
        /\ m.kind = "accept" => m.exch.by = m.from /\ m.exch.to = m.to
        /\ m.kind = "respond" => m.exch.by = m.to /\ m.exch.to = m.from

\* A peer is stored for an exchange between the two, and without services only
\* by an agent that accepts.
PeerOK(a, b) ==
    LET p == peers[a][b] IN
    /\ (p.exch.by = a /\ p.exch.to = b) \/ (p.exch.by = b /\ p.exch.to = a)
    /\ p.exch.n > 0 /\ p.key = 0 => \E c \in Agents : accepts[a][c] > 0

StateInv ==
    /\ \A t \in tasks : TaskOK(t)
    /\ \A m \in wire : MessageOK(m)
    /\ \A a, b \in Agents : PeerOK(a, b)

\* What may still lead to a response being handled.
Carries(t) ==
    t.kind = "confirm" \/ (t.kind \in {"accept", "respond"} /\ t.at \in Early)
Conveys(m) == m.kind \in {"accept", "respond"}

\* An exchange is in one place: in its request, in the response, or with the
\* call or handler that sends the one or has taken the other.
OncePlaced ==
    /\ \A t, u \in tasks : Carries(t) /\ Carries(u) /\ t.exch = u.exch => t = u
    /\ \A m, n \in wire : Conveys(m) /\ Conveys(n) /\ m.exch = n.exch => m = n
    /\ \A t \in tasks, m \in wire : ~(Carries(t) /\ Conveys(m) /\ t.exch = m.exch)

Reading(a, b) ==
    \E w \in tasks : /\ w.me = a /\ w.peer = b /\ w.kind = "accept" /\ w.at = "wait"
                     /\ w.exch.n = 1

Over(e) ==
    /\ \A t \in tasks : ~(Carries(t) /\ t.exch = e)
    /\ \A m \in wire : ~(Conveys(m) /\ m.exch = e)

\* The channel of the only SyncAccept is being read until the exchange is over.
ChannelInv ==
    \A a, b \in Agents : syncCons[a][b] > 0 =>
        /\ syncCons[a][b] <= accepts[a][b]
        /\ accepts[a][b] = 1 => Reading(a, b) \/ Over([by |-> a, to |-> b, n |-> 1])

DidInv ==
    TypeOK /\ CountInv /\ StateInv /\ OncePlaced /\ ChannelInv /\ OnlyAccepterPanics

-----------------------------------------------------------------------------
(* Facts about states. *)

LEMMA Bounds == MaxAccepts \in Nat /\ MaxSends \in Nat /\ Keys \subseteq Nat /\ 0 \in Keys
BY ConstantsAssumption DEF Keys

LEMMA InitDid == Init => DidInv
<1> SUFFICES ASSUME Init PROVE DidInv
  OBVIOUS
<1>1. TypeOK
  <2>1. keys \in Pairs(Keys) /\ docs \in Pairs(Keys)
    BY Bounds DEF Init, All, Pairs
  <2>2. peers \in Pairs(Peer)
    <3>1. \A a, b \in Agents :
             [exch |-> [by |-> a, to |-> b, n |-> 0], key |-> 0] \in Peer
      BY Bounds DEF Peer, Exch
    <3> QED BY <3>1 DEF Init, Pairs
  <2>3. /\ syncCons \in Pairs(0..MaxAccepts) /\ accepts \in Pairs(0..MaxAccepts)
        /\ sends \in Pairs(0..MaxSends)
    BY Bounds DEF Init, All, Pairs
  <2>4. polls \in Pairs({"off", "polling", "served", "orphan", "stuck"})
    BY DEF Init, All, Pairs
  <2> QED BY <2>1, <2>2, <2>3, <2>4 DEF Init, TypeOK
<1>2. \A a, b \in Agents : keys[a][b] = 0 /\ accepts[a][b] = 0 /\ syncCons[a][b] = 0
  BY DEF Init, All
<1>3. \A a, b \in Agents : /\ peers[a][b].exch.by = a /\ peers[a][b].exch.to = b
                           /\ peers[a][b].exch.n = 0
  BY DEF Init
<1>4. tasks = {} /\ wire = {} /\ \A a \in Agents : up[a]
  BY DEF Init
<1>5. CountInv
  BY <1>2, <1>4 DEF CountInv, Asking
<1>6. StateInv
  BY <1>3, <1>4 DEF StateInv, PeerOK
<1>7. OncePlaced /\ ChannelInv /\ OnlyAccepterPanics
  BY <1>2, <1>4 DEF OncePlaced, ChannelInv, OnlyAccepterPanics
<1> QED BY <1>1, <1>5, <1>6, <1>7 DEF DidInv

\* The handler that writes to the channel of the only SyncAccept finds it read.
LEMMA InvOnlyRepeatsWedge == DidInv => OnlyRepeatsWedge
<1> SUFFICES ASSUME DidInv, NEW t \in tasks, t.at = "signal", Readers(t) = {},
                    ~(accepts[t.me][t.peer] > 1)
             PROVE  FALSE
  BY DEF OnlyRepeatsWedge
<1>1. t \in Task /\ TaskOK(t)
  BY DEF DidInv, TypeOK, StateInv
<1>2. PICK a \in Agents, b \in Agents : a = t.me /\ b = t.peer
  BY <1>1 DEF Task
<1>3. /\ t.kind = "confirm" /\ t.exch.by = a /\ t.exch.to = b
      /\ t.exch.n > 0 /\ t.exch.n <= accepts[a][b]
      /\ t.chan > 0 /\ t.chan <= accepts[a][b] /\ syncCons[a][b] > 0
  BY <1>1, <1>2 DEF TaskOK, Begins, Exchanging
<1>4. t.chan \in Nat /\ t.exch \in Exch /\ t.exch.n \in Nat /\ accepts[a][b] \in Nat
  BY <1>1, Bounds DEF Task, Exch, DidInv, TypeOK, Pairs
<1>5. accepts[a][b] = 1 /\ t.chan = 1 /\ t.exch.n = 1
  BY <1>2, <1>3, <1>4
<1>6. t.exch = [by |-> a, to |-> b, n |-> 1]
  BY <1>3, <1>4, <1>5 DEF Exch
<1>7. Reading(a, b)
  BY <1>3, <1>5, <1>6 DEF DidInv, ChannelInv, Over, Carries
<1> QED BY <1>2, <1>5, <1>7 DEF Reading, Readers

-----------------------------------------------------------------------------
(* What steps keep. *)

\* Nothing that a call or handler relies on is taken back.
Grows ==
    \A a, b \in Agents :
        /\ keys[a][b] > 0 => keys'[a][b] > 0
        /\ docs[a][b] > 0 => docs'[a][b] > 0
        /\ syncCons[a][b] > 0 => syncCons'[a][b] > 0
        /\ accepts'[a][b] >= accepts[a][b]

LEMMA Counts ==
    ASSUME TypeOK
    PROVE  \A a, b \in Agents : accepts[a][b] \in Nat /\ keys[a][b] \in Nat
                                /\ syncCons[a][b] \in Nat /\ docs[a][b] \in Nat
<1>1. \A a, b \in Agents : keys[a][b] \in Nat /\ docs[a][b] \in Nat
  BY Bounds DEF TypeOK, Pairs
<1>2. \A a, b \in Agents : accepts[a][b] \in Nat /\ syncCons[a][b] \in Nat
  BY Bounds DEF TypeOK, Pairs
<1> QED BY <1>1, <1>2

LEMMA BeginsGrows ==
    ASSUME TypeOK, TypeOK', Grows, NEW e \in Exch, Begins(e)
    PROVE  Begins(e)'
<1>1. PICK a \in Agents, b \in Agents : a = e.by /\ b = e.to /\ e.n \in Nat
  BY Bounds DEF Exch
<1>2. accepts[a][b] \in Nat /\ accepts'[a][b] \in Nat /\ accepts'[a][b] >= accepts[a][b]
  BY Counts, Bounds DEF TypeOK, Pairs, Grows
<1> QED BY <1>1, <1>2 DEF Begins

LEMMA TaskGrows ==
    ASSUME TypeOK, TypeOK', Grows, NEW t \in Task, TaskOK(t)
    PROVE  TaskOK(t)'
<1>1. PICK a \in Agents, b \in Agents : a = t.me /\ b = t.peer
  BY DEF Task
<1>2. t.exch \in Exch /\ t.chan \in Nat
  BY Bounds DEF Task
<1>3. Begins(t.exch) => Begins(t.exch)'
  BY <1>2, BeginsGrows
<1>4. /\ keys[a][b] > 0 => keys'[a][b] > 0
      /\ docs[a][b] > 0 => docs'[a][b] > 0
      /\ syncCons[a][b] > 0 => syncCons'[a][b] > 0
  BY DEF Grows
<1>5. t.chan <= accepts[a][b] => t.chan <= accepts'[a][b]
  <2>1. accepts[a][b] \in Nat /\ accepts'[a][b] \in Nat /\ accepts'[a][b] >= accepts[a][b]
    BY Counts, Bounds DEF TypeOK, Pairs, Grows
  <2> QED BY <1>2, <2>1
<1> QED BY <1>1, <1>3, <1>4, <1>5 DEF TaskOK

LEMMA MessageGrows ==
    ASSUME TypeOK, TypeOK', Grows, NEW m \in Message, MessageOK(m)
    PROVE  MessageOK(m)'
<1>1. m.exch \in Exch
  BY DEF Message
<1>2. Begins(m.exch) => Begins(m.exch)'
  BY <1>1, BeginsGrows
<1> QED BY <1>2 DEF MessageOK

LEMMA PeerGrows ==
    ASSUME TypeOK, TypeOK', Grows, NEW a \in Agents, NEW b \in Agents, PeerOK(a, b),
           peers'[a][b] = peers[a][b]
    PROVE  PeerOK(a, b)'
<1>1. \A c \in Agents : accepts[a][c] > 0 => accepts'[a][c] > 0
  <2>1. \A c \in Agents : accepts[a][c] \in Nat /\ accepts'[a][c] \in Nat
                          /\ accepts'[a][c] >= accepts[a][c]
    BY Counts, Bounds DEF TypeOK, Pairs, Grows
  <2> QED BY <2>1
<1> QED BY <1>1 DEF PeerOK

\* t goes on as u, or ends.
Moves(t, u) ==
    /\ \A v \in tasks' : v \in tasks \ {t} \/ v = u
    /\ \A v \in tasks \ {t} : v \in tasks'
    /\ u.me = t.me /\ u.kind = t.kind /\ u.exch = t.exch
    /\ t.kind = "accept" => u.peer = t.peer
    /\ t.kind # "confirm" /\ u.at \in Early => t.at \in Early
    /\ t.at # "wait"
    /\ t.at = "sending" => Acked(t)

LEMMA MoveKept ==
    ASSUME DidInv, NEW t \in tasks, NEW u, Moves(t, u), UNCHANGED <<wire, accepts, keys>>
    PROVE  /\ CountInv' /\ OncePlaced'
           /\ \A a, b \in Agents : Reading(a, b) => Reading(a, b)'
           /\ \A e : Over(e) => Over(e)'
<1>1. /\ \A v \in tasks' : v \in tasks \ {t} \/ v = u
      /\ \A v \in tasks \ {t} : v \in tasks'
      /\ u.me = t.me /\ u.kind = t.kind /\ u.exch = t.exch
      /\ t.kind = "accept" => u.peer = t.peer
      /\ t.kind # "confirm" /\ u.at \in Early => t.at \in Early
      /\ t.at # "wait"
  BY DEF Moves
<1>2. \A v, w \in tasks' :
         v.kind = "accept" /\ w.kind = "accept" /\ v.me = w.me /\ v.peer = w.peer => v = w
  BY <1>1 DEF DidInv, CountInv
<1>3. ASSUME NEW m \in wire, m.kind = "accept"
      PROVE  \E v \in tasks' : /\ v.me = m.from /\ v.peer = m.to /\ v.kind = "accept"
                               /\ v.at = "sending"
  <2>1. PICK v \in tasks : /\ v.me = m.from /\ v.peer = m.to /\ v.kind = "accept"
                           /\ v.at = "sending"
    BY <1>3 DEF DidInv, CountInv
  <2>2. v # t
    BY <1>3, <2>1 DEF Moves, Acked
  <2> QED BY <1>1, <2>1, <2>2
<1>4. ASSUME NEW a \in Agents, NEW b \in Agents, Asking(b, a)' PROVE Asking(b, a)
  BY <1>1, <1>4 DEF Asking
<1>5. CountInv'
  BY <1>2, <1>3, <1>4 DEF DidInv, CountInv
<1>6. Carries(u) => Carries(t)
  BY <1>1 DEF Carries
<1>7. OncePlaced'
  <2>1. \A v, w \in tasks' : Carries(v) /\ Carries(w) /\ v.exch = w.exch => v = w
    BY <1>1, <1>6 DEF DidInv, OncePlaced
  <2>2. \A v \in tasks', m \in wire : ~(Carries(v) /\ Conveys(m) /\ v.exch = m.exch)
    BY <1>1, <1>6 DEF DidInv, OncePlaced
  <2> QED BY <2>1, <2>2 DEF DidInv, OncePlaced
<1>8. \A a, b \in Agents : Reading(a, b) => Reading(a, b)'
  BY <1>1 DEF Reading
<1>9. \A e : Over(e) => Over(e)'
  BY <1>1, <1>6 DEF Over
<1> QED BY <1>5, <1>7, <1>8, <1>9

\* A step that moves one call or handler and sends, takes and accepts nothing.
LEMMA MoveStep ==
    ASSUME DidInv, NEW t \in tasks, NEW u \in Task, Moves(t, u),
           u \in tasks' => TaskOK(u)',
           UNCHANGED <<wire, accepts, keys, syncCons, sends, polls, up>>,
           docs' \in Pairs(Keys), peers' \in Pairs(Peer), unread' \subseteq Agents \X Agents,
           \A a, b \in Agents : docs[a][b] > 0 => docs'[a][b] > 0,
           \A a, b \in Agents : peers'[a][b] = peers[a][b] \/ PeerOK(a, b)'
    PROVE  DidInv'
<1>1. CountInv' /\ OncePlaced'
  BY MoveKept
<1>2. TypeOK'
  BY DEF DidInv, TypeOK, Moves
<1>3. Grows
  BY Counts DEF Grows, DidInv
<1>4. StateInv'
  <2>1. \A v \in tasks' : TaskOK(v)'
    <3>1. \A v \in tasks \ {t} : TaskOK(v)'
      BY <1>2, <1>3, TaskGrows DEF DidInv, StateInv, TypeOK
    <3> QED BY <3>1 DEF Moves
  <2>2. \A m \in wire' : MessageOK(m)'
    BY <1>2, <1>3, MessageGrows DEF DidInv, StateInv, TypeOK
  <2>3. \A a, b \in Agents : PeerOK(a, b)'
    BY <1>2, <1>3, PeerGrows DEF DidInv, StateInv
  <2> QED BY <2>1, <2>2, <2>3 DEF StateInv
<1>5. ChannelInv'
  <2> SUFFICES ASSUME NEW a \in Agents, NEW b \in Agents, syncCons'[a][b] > 0
               PROVE  /\ syncCons'[a][b] <= accepts'[a][b]
                      /\ accepts'[a][b] = 1 =>
                           Reading(a, b)' \/ Over([by |-> a, to |-> b, n |-> 1])'
    BY DEF ChannelInv
  <2>1. /\ syncCons[a][b] <= accepts[a][b]
        /\ accepts[a][b] = 1 => Reading(a, b) \/ Over([by |-> a, to |-> b, n |-> 1])
    BY DEF DidInv, ChannelInv
  <2> QED BY <2>1, MoveKept
<1>6. OnlyAccepterPanics'
  BY DEF DidInv, OnlyAccepterPanics
<1> QED BY <1>1, <1>2, <1>4, <1>5, <1>6 DEF DidInv

-----------------------------------------------------------------------------
(* The steps that move one call or handler. *)

LEMMA InvTask ==
    ASSUME DidInv, NEW t \in tasks
    PROVE  /\ t \in Task /\ TaskOK(t)
           /\ keys[t.me][t.peer] \in Keys /\ docs[t.me][t.peer] \in Keys
           /\ syncCons[t.me][t.peer] \in 0..MaxAccepts
           /\ accepts[t.me][t.peer] \in 0..MaxAccepts
           /\ PeerOK(t.me, t.peer)
<1>1. t \in Task /\ TaskOK(t)
  BY DEF DidInv, TypeOK, StateInv
<1>2. t.me \in Agents /\ t.peer \in Agents
  BY <1>1 DEF Task
<1>3. keys[t.me][t.peer] \in Keys /\ docs[t.me][t.peer] \in Keys
  BY <1>2 DEF DidInv, TypeOK, Pairs
<1>4. syncCons[t.me][t.peer] \in 0..MaxAccepts /\ accepts[t.me][t.peer] \in 0..MaxAccepts
  BY <1>2 DEF DidInv, TypeOK, Pairs
<1> QED BY <1>1, <1>2, <1>3, <1>4 DEF DidInv, StateInv

\* A call or handler that ends.
LEMMA MovesDone ==
    ASSUME NEW t \in tasks, Done(t), t.at # "wait", t.at = "sending" => Acked(t)
    PROVE  Moves(t, t) /\ t \notin tasks'
BY DEF Done, Moves

LEMMA MovesGoto ==
    ASSUME NEW t \in tasks, NEW u, Goto(t, u),
           u.me = t.me, u.kind = t.kind, u.exch = t.exch,
           t.kind = "accept" => u.peer = t.peer,
           t.kind # "confirm" /\ u.at \in Early => t.at \in Early,
           t.at # "wait", t.at = "sending" => Acked(t)
    PROVE  Moves(t, u)
BY DEF Goto, Moves

LEMMA StepReadPublic ==
    ASSUME DidInv, NEW t \in tasks, ReadPublic(t), UNCHANGED <<accepts, sends, polls, up>>
    PROVE  DidInv'
<1>1. t \in Task /\ TaskOK(t) /\ keys[t.me][t.peer] \in Keys
  BY InvTask
<1>2. PICK u : u = [t EXCEPT !.pub = keys[t.me][t.peer], !.at = "private"]
  OBVIOUS
<1>3. /\ u \in Task /\ u.at = "private" /\ u.pub = keys[t.me][t.peer]
      /\ u.me = t.me /\ u.peer = t.peer /\ u.kind = t.kind /\ u.exch = t.exch
      /\ u.key = t.key /\ u.chan = t.chan
  BY <1>1, <1>2 DEF Task
<1>4. t.at = "public" /\ Goto(t, u) /\ UNCHANGED <<stores, wire, unread>>
  BY <1>2 DEF ReadPublic
<1>5. Moves(t, u)
  BY <1>3, <1>4, MovesGoto DEF Early
<1>6. TaskOK(u)'
  BY <1>1, <1>3, <1>4 DEF TaskOK, Begins, stores
<1> QED BY <1>3, <1>4, <1>5, <1>6, MoveStep DEF DidInv, TypeOK, stores

LEMMA StepReadPrivate ==
    ASSUME DidInv, NEW t \in tasks, ReadPrivate(t), UNCHANGED <<accepts, sends, polls, up>>
    PROVE  DidInv'
<1> DEFINE at == CASE t.kind \in {"accept", "respond"} -> "did"
                   [] t.kind = "send" -> "send"
                   [] OTHER -> "open"
<1>1. t \in Task /\ TaskOK(t) /\ keys[t.me][t.peer] \in Keys
  BY InvTask
<1>2. /\ at \in {"did", "send", "open"}
      /\ at = "did" => t.kind \in {"accept", "respond"}
      /\ t.kind \in {"accept", "respond"} => at = "did"
      /\ at = "send" => t.kind = "send"
  OBVIOUS
<1>3. PICK u : u = [t EXCEPT !.prv = keys[t.me][t.peer], !.at = at]
  OBVIOUS
<1>4. t.at = "private" /\ Goto(t, u) /\ UNCHANGED <<stores, wire, unread>>
  BY <1>3 DEF ReadPrivate
<1> HIDE DEF at
<1>5. /\ u \in Task /\ u.at = at /\ u.pub = t.pub
      /\ u.me = t.me /\ u.peer = t.peer /\ u.kind = t.kind /\ u.exch = t.exch
      /\ u.key = t.key /\ u.chan = t.chan
  BY <1>1, <1>2, <1>3 DEF Task
<1>6. Moves(t, u)
  BY <1>4, <1>5, MovesGoto DEF Early
<1>7. TaskOK(u)'
  BY <1>1, <1>2, <1>4, <1>5 DEF TaskOK, Begins, stores
<1> QED BY <1>4, <1>5, <1>6, <1>7, MoveStep DEF DidInv, TypeOK, stores

LEMMA StepAddDid ==
    ASSUME DidInv, NEW t \in tasks, AddDid(t), UNCHANGED <<accepts, sends, polls, up>>
    PROVE  DidInv'
<1> DEFINE u == [t EXCEPT !.at = "send"]
<1>1. t \in Task /\ TaskOK(t)
  BY InvTask
<1>2. /\ u \in Task /\ u.at = "send" /\ u.pub = t.pub
      /\ u.me = t.me /\ u.peer = t.peer /\ u.kind = t.kind /\ u.exch = t.exch
      /\ u.key = t.key /\ u.chan = t.chan
  BY <1>1 DEF Task
<1>3. /\ t.at = "did" /\ Goto(t, u) /\ docs' = [docs EXCEPT ![t.me][t.peer] = t.pub]
      /\ UNCHANGED <<keys, peers, syncCons, wire, unread>>
  BY DEF AddDid
<1> HIDE DEF u
<1>4. Moves(t, u)
  BY <1>2, <1>3, MovesGoto DEF Early
<1>5. t.me \in Agents /\ t.peer \in Agents /\ t.pub \in Keys /\ t.pub > 0
  BY <1>1, <1>3 DEF Task, TaskOK
<1>6. docs' \in Pairs(Keys) /\ docs'[t.me][t.peer] = t.pub
  BY <1>3, <1>5 DEF DidInv, TypeOK, Pairs
<1>7. \A a, b \in Agents : docs'[a][b] = docs[a][b] \/ docs'[a][b] = t.pub
  BY <1>3, <1>5 DEF DidInv, TypeOK, Pairs
<1>8. \A a, b \in Agents : docs[a][b] > 0 => docs'[a][b] > 0
  BY <1>5, <1>7
<1>9. TaskOK(u)'
  BY <1>1, <1>2, <1>3, <1>5, <1>6 DEF TaskOK, Begins
<1> QED BY <1>2, <1>3, <1>4, <1>6, <1>8, <1>9, MoveStep DEF DidInv, TypeOK

\* Of the steps that store a peer.
LEMMA PeerStored ==
    ASSUME DidInv, NEW t \in tasks, NEW key \in Keys,
           peers' = [peers EXCEPT ![t.me][t.peer] = [exch |-> t.exch, key |-> key]],
           UNCHANGED accepts,
           (t.exch.by = t.me /\ t.exch.to = t.peer)
             \/ (t.exch.by = t.peer /\ t.exch.to = t.me),
           key = 0 => accepts[t.me][t.peer] > 0
    PROVE  /\ peers' \in Pairs(Peer)
           /\ \A a, b \in Agents : peers'[a][b] = peers[a][b] \/ PeerOK(a, b)'
<1>1. t \in Task /\ t.me \in Agents /\ t.peer \in Agents /\ t.exch \in Exch
  BY InvTask DEF Task
<1>2. [exch |-> t.exch, key |-> key] \in Peer
  BY <1>1 DEF Peer
<1>3. peers \in Pairs(Peer)
  BY DEF DidInv, TypeOK
<1>4. /\ peers' \in Pairs(Peer)
      /\ peers'[t.me][t.peer] = [exch |-> t.exch, key |-> key]
      /\ \A a, b \in Agents : peers'[a][b] = peers[a][b] \/ (a = t.me /\ b = t.peer)
  BY <1>1, <1>2, <1>3 DEF Pairs
<1>5. PeerOK(t.me, t.peer)'
  BY <1>1, <1>4 DEF PeerOK
<1> QED BY <1>4, <1>5

LEMMA StepStoreInviter ==
    ASSUME DidInv, NEW t \in tasks, StoreInviter(t), UNCHANGED <<accepts, sends, polls, up>>
    PROVE  DidInv'
<1>1. /\ t \in Task /\ TaskOK(t) /\ accepts[t.me][t.peer] \in Nat
  BY InvTask, Bounds
<1>2. /\ t.kind = "accept" /\ Acked(t) /\ t.at = "sending"
      /\ peers' = [peers EXCEPT ![t.me][t.peer] = [exch |-> t.exch, key |-> 0]]
      /\ UNCHANGED <<keys, docs, syncCons, wire, unread>>
  BY DEF StoreInviter, Acked
<1>3. t.exch.by = t.me /\ t.exch.to = t.peer /\ t.exch \in Exch
      /\ t.exch.n > 0 /\ t.exch.n <= accepts[t.me][t.peer]
  BY <1>1, <1>2 DEF TaskOK, Exchanging, Begins, Task
<1>4. accepts[t.me][t.peer] > 0
  BY <1>1, <1>3, Bounds DEF Exch
<1>5. /\ peers' \in Pairs(Peer)
      /\ \A a, b \in Agents : peers'[a][b] = peers[a][b] \/ PeerOK(a, b)'
  BY <1>2, <1>3, <1>4, Bounds, PeerStored
<1>6. CASE t.sync
  <2> DEFINE u == [t EXCEPT !.at = "sync"]
  <2>1. /\ u \in Task /\ u.at = "sync" /\ u.pub = t.pub
        /\ u.me = t.me /\ u.peer = t.peer /\ u.kind = t.kind /\ u.exch = t.exch
        /\ u.key = t.key /\ u.chan = t.chan
    BY <1>1 DEF Task
  <2>2. Goto(t, u)
    BY <1>6 DEF StoreInviter
  <2> HIDE DEF u
  <2>3. Moves(t, u)
    BY <1>2, <2>1, <2>2, MovesGoto DEF Early
  <2>4. TaskOK(u)'
    BY <1>1, <1>2, <2>1 DEF TaskOK, Begins
  <2> QED BY <1>2, <1>5, <2>1, <2>3, <2>4, MoveStep DEF DidInv, TypeOK
<1>7. CASE ~t.sync
  <2>1. Moves(t, t) /\ t \notin tasks'
    BY <1>2, <1>7, MovesDone DEF StoreInviter
  <2> QED BY <1>1, <1>2, <1>5, <2>1, MoveStep DEF DidInv, TypeOK
<1> QED BY <1>6, <1>7

LEMMA StepFinishSend ==
    ASSUME DidInv, NEW t \in tasks, FinishSend(t), UNCHANGED <<accepts, sends, polls, up>>
    PROVE  DidInv'
<1>1. t \in Task
  BY InvTask
<1>2. Acked(t) /\ t.at = "sending" /\ Done(t) /\ UNCHANGED <<stores, wire, unread>>
  BY DEF FinishSend, Acked
<1>3. Moves(t, t) /\ t \notin tasks'
  BY <1>2, MovesDone
<1> QED BY <1>1, <1>2, <1>3, MoveStep DEF DidInv, TypeOK, stores

LEMMA StepStoreAccepter ==
    ASSUME DidInv, NEW t \in tasks, StoreAccepter(t), UNCHANGED <<accepts, sends, polls, up>>
    PROVE  DidInv'
<1>1. t \in Task /\ TaskOK(t)
  BY InvTask
<1>2. /\ t.kind = "respond" /\ Acked(t) /\ t.at = "sending"
      /\ peers' = [peers EXCEPT ![t.me][t.peer] = [exch |-> t.exch, key |-> t.key]]
      /\ Done(t) /\ UNCHANGED <<keys, docs, syncCons, wire, unread>>
  BY DEF StoreAccepter, Acked
<1>3. t.exch.by = t.peer /\ t.exch.to = t.me /\ t.key \in Keys /\ t.key # 0
  BY <1>1, <1>2, Bounds DEF TaskOK, Task
<1>4. /\ peers' \in Pairs(Peer)
      /\ \A a, b \in Agents : peers'[a][b] = peers[a][b] \/ PeerOK(a, b)'
  BY <1>2, <1>3, PeerStored
<1>5. Moves(t, t) /\ t \notin tasks'
  BY <1>2, MovesDone
<1> QED BY <1>1, <1>2, <1>4, <1>5, MoveStep DEF DidInv, TypeOK

LEMMA StepFindPeer ==
    ASSUME DidInv, NEW t \in tasks, FindPeer(t), UNCHANGED <<accepts, sends, polls, up>>
    PROVE  DidInv'
<1>1. t \in Task /\ TaskOK(t)
  BY InvTask
<1>2. t.at = "find" /\ t.kind = "confirm" /\ UNCHANGED <<stores, wire, unread>>
  BY <1>1 DEF FindPeer, TaskOK
<1>3. CASE Done(t)
  <2>1. Moves(t, t) /\ t \notin tasks'
    BY <1>2, <1>3, MovesDone
  <2> QED BY <1>1, <1>2, <2>1, MoveStep DEF DidInv, TypeOK, stores
<1>4. CASE \E b \in PeersByExch(t.me, t.exch) :
               Goto(t, [t EXCEPT !.peer = b, !.at = "public"])
  <2>1. PICK b \in Agents : /\ peers[t.me][b].exch = t.exch
                            /\ Goto(t, [t EXCEPT !.peer = b, !.at = "public"])
    BY <1>4 DEF PeersByExch
  <2>2. PeerOK(t.me, b)
    BY <1>1 DEF DidInv, StateInv, Task
  <2>3. t.exch.by = t.me /\ t.exch.to = b
    BY <1>1, <1>2, <2>1, <2>2 DEF PeerOK, TaskOK
  <2> DEFINE u == [t EXCEPT !.peer = b, !.at = "public"]
  <2>4. /\ u \in Task /\ u.at = "public" /\ u.pub = t.pub
        /\ u.me = t.me /\ u.peer = b /\ u.kind = t.kind /\ u.exch = t.exch
        /\ u.key = t.key /\ u.chan = t.chan
    BY <1>1 DEF Task
  <2>5. Goto(t, u)
    BY <2>1
  <2> HIDE DEF u
  <2>6. Moves(t, u)
    BY <1>2, <2>4, <2>5, MovesGoto DEF Early
  <2>7. TaskOK(u)'
    BY <1>1, <1>2, <2>3, <2>4 DEF TaskOK, Begins
  <2> QED BY <1>2, <2>4, <2>6, <2>7, MoveStep DEF DidInv, TypeOK, stores
<1> QED BY <1>3, <1>4 DEF FindPeer

LEMMA StepStoreServices ==
    ASSUME DidInv, NEW t \in tasks, StoreServices(t), UNCHANGED <<accepts, sends, polls, up>>
    PROVE  DidInv'
<1>1. t \in Task /\ TaskOK(t)
  BY InvTask
<1>2. t.kind = "confirm" /\ t.at = "open" /\ UNCHANGED <<keys, docs, syncCons, wire, unread>>
  BY DEF StoreServices
<1>3. CASE Opens(t)
  <2>1. peers' = [peers EXCEPT ![t.me][t.peer] = [exch |-> t.exch, key |-> t.key]]
    BY <1>3 DEF StoreServices
  <2>2. t.exch.by = t.me /\ t.exch.to = t.peer /\ t.key \in Keys /\ t.key # 0
    BY <1>1, <1>2, Bounds DEF TaskOK, Task
  <2>3. /\ peers' \in Pairs(Peer)
        /\ \A a, b \in Agents : peers'[a][b] = peers[a][b] \/ PeerOK(a, b)'
    BY <2>1, <2>2, PeerStored
  <2> DEFINE u == [t EXCEPT !.at = "load"]
  <2>4. /\ u \in Task /\ u.at = "load" /\ u.pub = t.pub
        /\ u.me = t.me /\ u.peer = t.peer /\ u.kind = t.kind /\ u.exch = t.exch
        /\ u.key = t.key /\ u.chan = t.chan
    BY <1>1 DEF Task
  <2>5. Goto(t, u)
    BY <1>3 DEF StoreServices
  <2> HIDE DEF u
  <2>6. Moves(t, u)
    BY <1>2, <2>4, <2>5, MovesGoto DEF Early
  <2>7. TaskOK(u)'
    BY <1>1, <1>2, <2>2, <2>4 DEF TaskOK, Begins
  <2> QED BY <1>2, <2>3, <2>4, <2>6, <2>7, MoveStep DEF DidInv, TypeOK
<1>4. CASE ~Opens(t)
  <2>1. Moves(t, t) /\ t \notin tasks' /\ UNCHANGED peers
    BY <1>2, <1>4, MovesDone DEF StoreServices
  <2> QED BY <1>1, <1>2, <2>1, MoveStep DEF DidInv, TypeOK
<1> QED BY <1>3, <1>4

LEMMA StepLoadChannel ==
    ASSUME DidInv, NEW t \in tasks, LoadChannel(t), UNCHANGED <<accepts, sends, polls, up>>
    PROVE  DidInv'
<1>1. /\ t \in Task /\ TaskOK(t)
      /\ syncCons[t.me][t.peer] \in 0..MaxAccepts
  BY InvTask
<1>2. t.at = "load" /\ UNCHANGED <<stores, wire, unread>>
  BY DEF LoadChannel
<1>3. CASE syncCons[t.me][t.peer] = 0
  <2>1. Moves(t, t) /\ t \notin tasks'
    BY <1>2, <1>3, MovesDone DEF LoadChannel
  <2> QED BY <1>1, <1>2, <2>1, MoveStep DEF DidInv, TypeOK, stores
<1>4. CASE syncCons[t.me][t.peer] # 0
  <2>1. PICK u : u = [t EXCEPT !.at = "signal", !.chan = syncCons[t.me][t.peer]]
    OBVIOUS
  <2>2. /\ u \in Task /\ u.at = "signal" /\ u.chan = syncCons[t.me][t.peer]
        /\ u.me = t.me /\ u.peer = t.peer /\ u.kind = t.kind /\ u.exch = t.exch
        /\ u.key = t.key /\ u.pub = t.pub
    BY <1>1, <2>1 DEF Task
  <2>3. Goto(t, u)
    BY <1>4, <2>1 DEF LoadChannel
  <2>4. Moves(t, u)
    BY <1>2, <2>2, <2>3, MovesGoto DEF Early
  <2>5. syncCons[t.me][t.peer] > 0 /\ syncCons[t.me][t.peer] <= accepts[t.me][t.peer]
    <3>1. syncCons[t.me][t.peer] > 0
      BY <1>1, <1>4, Bounds
    <3> QED BY <1>1, <3>1 DEF DidInv, ChannelInv, Task
  <2>6. TaskOK(u)'
    BY <1>1, <1>2, <2>2, <2>5 DEF TaskOK, Begins, stores
  <2> QED BY <1>2, <2>2, <2>4, <2>6, MoveStep DEF DidInv, TypeOK, stores
<1> QED BY <1>3, <1>4

LEMMA StepOpenMessage ==
    ASSUME DidInv, NEW t \in tasks, OpenMessage(t), UNCHANGED <<accepts, sends, polls, up>>
    PROVE  DidInv'
<1>1. t \in Task
  BY InvTask
<1>2. /\ t.at = "open" /\ Done(t) /\ UNCHANGED <<stores, wire>>
      /\ unread' = IF Opens(t) THEN unread ELSE unread \cup {<<t.peer, t.me>>}
  BY DEF OpenMessage
<1>3. Moves(t, t) /\ t \notin tasks'
  BY <1>2, MovesDone
<1>4. unread' \subseteq Agents \X Agents
  BY <1>1, <1>2 DEF DidInv, TypeOK, Task
<1> QED BY <1>1, <1>2, <1>3, <1>4, MoveStep DEF DidInv, TypeOK, stores

-----------------------------------------------------------------------------
(* The steps that send, take and signal. *)

\* What a step that begins and ends no exchange leaves of the counters and the
\* peers keeps of StateInv.
LEMMA StateStep ==
    ASSUME DidInv, TypeOK', Grows,
           \A v \in tasks' : v \in tasks \/ TaskOK(v)',
           \A m \in wire' : m \in wire \/ MessageOK(m)',
           peers' = peers
    PROVE  StateInv'
<1>1. \A v \in tasks' : TaskOK(v)'
  <2>1. \A v \in tasks : TaskOK(v)'
    BY TaskGrows DEF DidInv, StateInv, TypeOK
  <2> QED BY <2>1
<1>2. \A m \in wire' : MessageOK(m)'
  <2>1. \A m \in wire : MessageOK(m)'
    BY MessageGrows DEF DidInv, StateInv, TypeOK
  <2> QED BY <2>1
<1>3. \A a, b \in Agents : PeerOK(a, b)'
  BY PeerGrows DEF DidInv, StateInv
<1> QED BY <1>1, <1>2, <1>3 DEF StateInv

LEMMA StepStoreChannel ==
    ASSUME DidInv, NEW t \in tasks, StoreChannel(t), UNCHANGED <<accepts, sends, polls, up>>
    PROVE  DidInv'
<1> DEFINE u == [t EXCEPT !.at = "wait"]
<1>1. t \in Task /\ TaskOK(t) /\ accepts[t.me][t.peer] \in Nat
  BY InvTask, Bounds
<1>2. /\ u \in Task /\ u.at = "wait" /\ u.pub = t.pub
      /\ u.me = t.me /\ u.peer = t.peer /\ u.kind = t.kind /\ u.exch = t.exch
      /\ u.key = t.key /\ u.chan = t.chan
  BY <1>1 DEF Task
<1>3. /\ t.at = "sync" /\ t.kind = "accept" /\ Goto(t, u)
      /\ syncCons' = [syncCons EXCEPT ![t.me][t.peer] = t.exch.n]
      /\ UNCHANGED <<keys, docs, peers, wire, unread>>
  BY <1>1 DEF StoreChannel, TaskOK
<1>4. /\ t.me \in Agents /\ t.peer \in Agents /\ t.exch \in Exch
      /\ t.exch.by = t.me /\ t.exch.to = t.peer
      /\ t.exch.n > 0 /\ t.exch.n <= accepts[t.me][t.peer] /\ t.exch.n \in 0..MaxAccepts
  BY <1>1, <1>3 DEF TaskOK, Exchanging, Begins, Task, Exch
<1> HIDE DEF u
<1>5. Moves(t, u)
  BY <1>2, <1>3, MovesGoto DEF Early
<1>6. /\ CountInv' /\ OncePlaced'
      /\ \A a, b \in Agents : Reading(a, b) => Reading(a, b)'
      /\ \A e : Over(e) => Over(e)'
  BY <1>3, <1>5, MoveKept
<1>7. /\ syncCons' \in Pairs(0..MaxAccepts)
      /\ syncCons'[t.me][t.peer] = t.exch.n
      /\ \A a, b \in Agents : syncCons'[a][b] = syncCons[a][b] \/ (a = t.me /\ b = t.peer)
  BY <1>3, <1>4 DEF DidInv, TypeOK, Pairs
<1>8. TypeOK'
  BY <1>2, <1>3, <1>7 DEF DidInv, TypeOK, Goto
<1>9. \A a, b \in Agents : syncCons[a][b] > 0 => syncCons'[a][b] > 0
  BY <1>4, <1>7
<1>10. Grows
  BY <1>3, <1>9, Counts DEF Grows, DidInv
<1>11. TaskOK(u)'
  BY <1>1, <1>2, <1>3 DEF TaskOK, Begins
<1>12. StateInv'
  BY <1>3, <1>8, <1>10, <1>11, StateStep DEF Goto
<1>13. ChannelInv'
  <2> SUFFICES ASSUME NEW a \in Agents, NEW b \in Agents, syncCons'[a][b] > 0
               PROVE  /\ syncCons'[a][b] <= accepts'[a][b]
                      /\ accepts'[a][b] = 1 =>
                           Reading(a, b)' \/ Over([by |-> a, to |-> b, n |-> 1])'
    BY DEF ChannelInv
  <2>1. CASE a = t.me /\ b = t.peer
    <3>1. accepts[a][b] = 1 => t.exch.n = 1
      BY <1>4, <2>1, Bounds
    <3>2. accepts[a][b] = 1 => Reading(a, b)'
      BY <1>2, <1>3, <2>1, <3>1 DEF Reading, Goto
    <3> QED BY <1>4, <1>7, <2>1, <3>2
  <2>2. CASE ~(a = t.me /\ b = t.peer)
    <3>1. syncCons'[a][b] = syncCons[a][b]
      BY <1>7, <2>2
    <3>2. /\ syncCons[a][b] <= accepts[a][b]
          /\ accepts[a][b] = 1 => Reading(a, b) \/ Over([by |-> a, to |-> b, n |-> 1])
      BY <3>1 DEF DidInv, ChannelInv
    <3> QED BY <1>6, <3>1, <3>2
  <2> QED BY <2>1, <2>2
<1>14. OnlyAccepterPanics'
  BY DEF DidInv, OnlyAccepterPanics
<1> QED BY <1>6, <1>8, <1>12, <1>13, <1>14 DEF DidInv

\* Nobody stops reading, and no exchange that is over comes back.
LEMMA ChannelKept ==
    ASSUME DidInv, UNCHANGED <<syncCons, accepts>>,
           \A a, b \in Agents : Reading(a, b) => Reading(a, b)',
           \A e : Over(e) => Over(e)'
    PROVE  ChannelInv'
<1> SUFFICES ASSUME NEW a \in Agents, NEW b \in Agents, syncCons'[a][b] > 0
             PROVE  /\ syncCons'[a][b] <= accepts'[a][b]
                    /\ accepts'[a][b] = 1 =>
                         Reading(a, b)' \/ Over([by |-> a, to |-> b, n |-> 1])'
  BY DEF ChannelInv
<1>1. /\ syncCons[a][b] <= accepts[a][b]
      /\ accepts[a][b] = 1 => Reading(a, b) \/ Over([by |-> a, to |-> b, n |-> 1])
  BY DEF DidInv, ChannelInv
<1> QED BY <1>1

\* The request or response takes over the exchange from the call or handler.
LEMMA StepSendOut ==
    ASSUME DidInv, NEW t \in tasks, SendOut(t), UNCHANGED <<accepts, sends, polls, up>>
    PROVE  DidInv'
<1>1. /\ t \in Task /\ TaskOK(t) /\ docs[t.me][t.peer] \in Keys
  BY InvTask
<1>2. /\ t.at = "send" /\ t.kind \in {"accept", "respond", "send"}
      /\ wire' = wire \cup {Packed(t)} /\ UNCHANGED <<stores, unread>>
  BY <1>1 DEF SendOut, TaskOK
<1>3. PICK u : u = [t EXCEPT !.at = "sending"]
  OBVIOUS
<1>4. /\ u \in Task /\ u.at = "sending" /\ u.pub = t.pub
      /\ u.me = t.me /\ u.peer = t.peer /\ u.kind = t.kind /\ u.exch = t.exch
      /\ u.key = t.key /\ u.chan = t.chan
  BY <1>1, <1>3 DEF Task
<1>5. tasks' = (tasks \ {t}) \cup {u}
  BY <1>3 DEF SendOut, Goto
<1>6. PICK m : m = Packed(t)
  OBVIOUS
<1>7. /\ m.from = t.me /\ m.to = t.peer /\ m.kind = t.kind /\ m.exch = t.exch
      /\ m.doc = Document(t) /\ wire' = wire \cup {m}
  BY <1>2, <1>6 DEF Packed
<1>8. m \in Message
  <2>1. Document(t) \in Keys
    BY <1>1, Bounds DEF Document
  <2>2. (t.pub = t.prv) \in BOOLEAN
    OBVIOUS
  <2> QED BY <1>1, <1>6, <2>1, <2>2 DEF Packed, Message, Task
<1>9. TypeOK'
  BY <1>2, <1>4, <1>5, <1>7, <1>8 DEF DidInv, TypeOK, stores
<1>10. Grows
  BY <1>2, Counts DEF Grows, DidInv, stores
<1>11. StateInv'
  <2>1. TaskOK(u)'
    BY <1>1, <1>2, <1>4 DEF TaskOK, Begins, stores
  <2>2. MessageOK(m)'
    BY <1>1, <1>2, <1>7 DEF MessageOK, TaskOK, Begins, Exchanging, Document, stores
  <2> QED BY <1>2, <1>5, <1>7, <1>9, <1>10, <2>1, <2>2, StateStep DEF stores
<1>12. CountInv'
  <2>1. \A v, w \in tasks' :
           v.kind = "accept" /\ w.kind = "accept" /\ v.me = w.me /\ v.peer = w.peer => v = w
    BY <1>4, <1>5 DEF DidInv, CountInv
  <2>2. ASSUME NEW n \in wire', n.kind = "accept"
        PROVE  \E v \in tasks' : /\ v.me = n.from /\ v.peer = n.to /\ v.kind = "accept"
                                 /\ v.at = "sending"
    <3>1. CASE n = m
      BY <1>4, <1>5, <1>7, <2>2, <3>1
    <3>2. CASE n \in wire
      BY <1>2, <1>5, <2>2, <3>2 DEF DidInv, CountInv
    <3> QED BY <1>7, <3>1, <3>2
  <2>3. \A n \in wire : n.kind = "accept" /\ m.kind = "accept" =>
           ~(n.from = m.from /\ n.to = m.to)
    BY <1>2, <1>7 DEF DidInv, CountInv
  <2>4. \A n, o \in wire' :
           n.kind = "accept" /\ o.kind = "accept" /\ n.from = o.from /\ n.to = o.to => n = o
    BY <1>7, <2>3 DEF DidInv, CountInv
  <2>5. ASSUME NEW a \in Agents, NEW b \in Agents, Asking(b, a)' PROVE Asking(b, a)
    BY <1>2, <1>4, <1>5, <1>7, <2>5 DEF Asking, Early
  <2>6. UNCHANGED <<keys, accepts>>
    BY <1>2 DEF stores
  <2>7. \A a, b \in Agents :
           /\ keys'[a][b] <= accepts'[a][b] + accepts'[b][a]
           /\ Asking(b, a)' => keys'[a][b] + 1 <= accepts'[a][b] + accepts'[b][a]
    BY <2>5, <2>6 DEF DidInv, CountInv
  <2> QED BY <2>1, <2>2, <2>4, <2>7 DEF CountInv
<1>13. ~Carries(u) /\ (Conveys(m) => Carries(t))
  BY <1>2, <1>4, <1>7 DEF Carries, Conveys, Early
<1>14. OncePlaced'
  <2>1. \A v, w \in tasks' : Carries(v) /\ Carries(w) /\ v.exch = w.exch => v = w
    BY <1>5, <1>13 DEF DidInv, OncePlaced
  <2>2. \A n, o \in wire' : Conveys(n) /\ Conveys(o) /\ n.exch = o.exch => n = o
    BY <1>7, <1>13 DEF DidInv, OncePlaced
  <2>3. \A v \in tasks', n \in wire' : ~(Carries(v) /\ Conveys(n) /\ v.exch = n.exch)
    BY <1>5, <1>7, <1>13 DEF DidInv, OncePlaced
  <2> QED BY <2>1, <2>2, <2>3 DEF OncePlaced
<1>15. ChannelInv'
  <2>1. \A a, b \in Agents : Reading(a, b) => Reading(a, b)'
    BY <1>2, <1>5 DEF Reading
  <2>2. \A e : Over(e) => Over(e)'
    BY <1>5, <1>7, <1>13 DEF Over
  <2> QED BY <1>2, <2>1, <2>2, ChannelKept DEF stores
<1>16. OnlyAccepterPanics'
  BY DEF DidInv, OnlyAccepterPanics
<1> QED BY <1>9, <1>11, <1>12, <1>14, <1>15, <1>16 DEF DidInv

\* When a reader gets its signal, the exchange of the only Accept ends with the
\* handler that wrote it.
LEMMA StepSignal ==
    ASSUME DidInv, NEW t \in tasks, Signal(t), UNCHANGED <<accepts, sends, polls, up>>
    PROVE  DidInv'
<1>1. t \in Task /\ TaskOK(t)
  BY InvTask
<1>2. PICK w \in Readers(t) : tasks' = tasks \ {t, w}
  BY DEF Signal
<1>3. /\ w \in tasks /\ w.me = t.me /\ w.peer = t.peer /\ w.at = "wait"
      /\ t.at = "signal" /\ t.kind = "confirm" /\ UNCHANGED <<stores, wire, unread>>
  BY <1>1, <1>2 DEF Readers, Signal, TaskOK
<1>4. TypeOK'
  BY <1>2, <1>3 DEF DidInv, TypeOK, stores
<1>5. Grows
  BY <1>3, Counts DEF Grows, DidInv, stores
<1>6. StateInv'
  BY <1>2, <1>3, <1>4, <1>5, StateStep DEF stores
<1>7. CountInv'
  <2>1. ASSUME NEW n \in wire', n.kind = "accept"
        PROVE  \E v \in tasks' : /\ v.me = n.from /\ v.peer = n.to /\ v.kind = "accept"
                                 /\ v.at = "sending"
    BY <1>2, <1>3, <2>1 DEF DidInv, CountInv
  <2>2. ASSUME NEW a \in Agents, NEW b \in Agents, Asking(b, a)' PROVE Asking(b, a)
    BY <1>2, <1>3, <2>2 DEF Asking
  <2>3. \A a, b \in Agents :
           /\ keys'[a][b] <= accepts'[a][b] + accepts'[b][a]
           /\ Asking(b, a)' => keys'[a][b] + 1 <= accepts'[a][b] + accepts'[b][a]
    BY <1>3, <2>2 DEF DidInv, CountInv, stores
  <2> QED BY <1>2, <1>3, <2>1, <2>3 DEF DidInv, CountInv
<1>8. OncePlaced'
  BY <1>2, <1>3 DEF DidInv, OncePlaced
<1>9. ChannelInv'
  <2> SUFFICES ASSUME NEW a \in Agents, NEW b \in Agents, syncCons'[a][b] > 0
               PROVE  /\ syncCons'[a][b] <= accepts'[a][b]
                      /\ accepts'[a][b] = 1 =>
                           Reading(a, b)' \/ Over([by |-> a, to |-> b, n |-> 1])'
    BY DEF ChannelInv
  <2>1. /\ syncCons[a][b] <= accepts[a][b]
        /\ accepts[a][b] = 1 => Reading(a, b) \/ Over([by |-> a, to |-> b, n |-> 1])
    BY <1>3 DEF DidInv, ChannelInv, stores
  <2>2. \A e : Over(e) => Over(e)'
    BY <1>2, <1>3 DEF Over
  <2>3. ASSUME accepts[a][b] = 1, a = t.me, b = t.peer
        PROVE  Over([by |-> a, to |-> b, n |-> 1])'
    <3>1. t.exch \in Exch /\ t.exch.by = a /\ t.exch.to = b /\ t.exch.n = 1
      BY <1>1, <1>3, <2>3, Bounds DEF TaskOK, Exchanging, Begins, Task, Exch
    <3>2. t.exch = [by |-> a, to |-> b, n |-> 1]
      BY <3>1 DEF Exch
    <3>3. Carries(t)
      BY <1>3 DEF Carries
    <3> QED BY <1>2, <1>3, <3>2, <3>3 DEF Over, DidInv, OncePlaced
  <2>4. ASSUME Reading(a, b), ~(a = t.me /\ b = t.peer)
        PROVE  Reading(a, b)'
    BY <1>2, <1>3, <2>4 DEF Reading
  <2> QED BY <1>3, <2>1, <2>2, <2>3, <2>4 DEF stores
<1>10. OnlyAccepterPanics'
  BY DEF DidInv, OnlyAccepterPanics
<1> QED BY <1>4, <1>6, <1>7, <1>8, <1>9, <1>10 DEF DidInv

\* A message is taken, and a handler begins or not: it goes on with the
\* exchange of the message if it goes on with one.
LEMMA MessageTaken ==
    ASSUME DidInv, NEW m \in wire, wire' = wire \ {m}, UNCHANGED <<syncCons, accepts>>,
           \A t \in tasks : t \in tasks',
           \A t \in tasks' : t \in tasks \/
               (t.kind \in Handlers /\ (Carries(t) => Conveys(m) /\ t.exch = m.exch)),
           \A t, u \in tasks' : t \in tasks \/ u \in tasks \/ t = u
    PROVE  /\ OncePlaced' /\ ChannelInv'
           /\ \A t, u \in tasks' :
                t.kind = "accept" /\ u.kind = "accept" /\ t.me = u.me /\ t.peer = u.peer => t = u
           /\ \A n \in wire' : n.kind = "accept" =>
                \E t \in tasks' : /\ t.me = n.from /\ t.peer = n.to /\ t.kind = "accept"
                                  /\ t.at = "sending"
           /\ \A a, b \in Agents : Asking(b, a)' => Asking(b, a)
<1>1. \A t \in tasks' : t.kind = "accept" => t \in tasks
  BY DEF Handlers
<1>2. OncePlaced'
  <2>1. \A t, u \in tasks' : Carries(t) /\ Carries(u) /\ t.exch = u.exch => t = u
    BY DEF DidInv, OncePlaced
  <2>2. \A n, o \in wire' : Conveys(n) /\ Conveys(o) /\ n.exch = o.exch => n = o
    BY DEF DidInv, OncePlaced
  <2>3. \A t \in tasks', n \in wire' : ~(Carries(t) /\ Conveys(n) /\ t.exch = n.exch)
    BY DEF DidInv, OncePlaced
  <2> QED BY <2>1, <2>2, <2>3 DEF OncePlaced
<1>3. ChannelInv'
  <2>1. \A a, b \in Agents : Reading(a, b) => Reading(a, b)'
    BY DEF Reading
  <2>2. \A e : Over(e) => Over(e)'
    BY DEF Over
  <2> QED BY <2>1, <2>2, ChannelKept
<1>4. \A t, u \in tasks' :
         t.kind = "accept" /\ u.kind = "accept" /\ t.me = u.me /\ t.peer = u.peer => t = u
  BY <1>1 DEF DidInv, CountInv
<1>5. \A n \in wire' : n.kind = "accept" =>
         \E t \in tasks' : /\ t.me = n.from /\ t.peer = n.to /\ t.kind = "accept"
                           /\ t.at = "sending"
  BY DEF DidInv, CountInv
<1>6. \A a, b \in Agents : Asking(b, a)' => Asking(b, a)
  BY <1>1 DEF Asking
<1> QED BY <1>2, <1>3, <1>4, <1>5, <1>6

LEMMA InvMessage ==
    ASSUME DidInv, NEW m \in wire
    PROVE  /\ m \in Message /\ MessageOK(m) /\ m.from \in Agents /\ m.to \in Agents
           /\ m.exch \in Exch /\ m.doc \in Keys /\ m.kid \in Keys /\ m.ok \in BOOLEAN
BY DEF DidInv, TypeOK, StateInv, Message

\* The one request of a pair is gone, and with it the key pair it could cost.
LEMMA StepTakeRequest ==
    ASSUME DidInv, NEW m \in wire, TakeRequest(m), UNCHANGED <<accepts, sends, polls, up>>
    PROVE  DidInv'
<1>1. /\ m \in Message /\ MessageOK(m) /\ m.from \in Agents /\ m.to \in Agents
      /\ m.exch \in Exch /\ m.doc \in Keys
  BY InvMessage
<1>2. /\ m.kind = "accept" /\ wire' = wire \ {m}
      /\ UNCHANGED <<docs, peers, syncCons, unread>>
  BY DEF TakeRequest, Take
<1>3. PICK r : r = [Begun(m.to, m.from, "respond", "public")
                      EXCEPT !.exch = m.exch, !.key = m.doc]
  OBVIOUS
<1>4. /\ r \in Task /\ r.me = m.to /\ r.peer = m.from /\ r.kind = "respond"
      /\ r.at = "public" /\ r.exch = m.exch /\ r.key = m.doc
  <2>1. PICK n : n = Begun(m.to, m.from, "respond", "public")
    OBVIOUS
  <2>2. /\ n \in Task /\ n.me = m.to /\ n.peer = m.from
        /\ n.kind = "respond" /\ n.at = "public"
    BY <1>1, <2>1, Bounds DEF Begun, Task, Exch, Calls, Handlers
  <2> QED BY <1>1, <1>3, <2>1, <2>2 DEF Task
<1>5. CASE ~m.ok
  <2>1. UNCHANGED <<keys, tasks>>
    BY <1>5 DEF TakeRequest
  <2>2. TypeOK'
    BY <1>2, <2>1 DEF DidInv, TypeOK
  <2>3. Grows
    BY <1>2, <2>1, Counts DEF Grows, DidInv
  <2>4. StateInv'
    BY <1>2, <2>1, <2>2, <2>3, StateStep
  <2>5. /\ OncePlaced' /\ ChannelInv'
        /\ \A t, u \in tasks' :
             t.kind = "accept" /\ u.kind = "accept" /\ t.me = u.me /\ t.peer = u.peer => t = u
        /\ \A n \in wire' : n.kind = "accept" =>
             \E t \in tasks' : /\ t.me = n.from /\ t.peer = n.to /\ t.kind = "accept"
                               /\ t.at = "sending"
        /\ \A a, b \in Agents : Asking(b, a)' => Asking(b, a)
    BY <1>2, <2>1, MessageTaken
  <2>6. \A a, b \in Agents :
           /\ keys'[a][b] <= accepts'[a][b] + accepts'[b][a]
           /\ Asking(b, a)' => keys'[a][b] + 1 <= accepts'[a][b] + accepts'[b][a]
    BY <2>1, <2>5 DEF DidInv, CountInv
  <2>7. CountInv'
    BY <1>2, <2>5, <2>6 DEF DidInv, CountInv
  <2>8. OnlyAccepterPanics'
    BY DEF DidInv, OnlyAccepterPanics
  <2> QED BY <2>2, <2>4, <2>5, <2>7, <2>8 DEF DidInv
<1>6. CASE m.ok
  <2>1. /\ keys' = [keys EXCEPT ![m.to][m.from] = @ + 1]
        /\ tasks' = tasks \cup {r}
    BY <1>3, <1>6 DEF TakeRequest, GenerateKeys
  <2>2. Asking(m.from, m.to)
    BY <1>2 DEF Asking
  <2>3. /\ keys[m.to][m.from] \in Nat
        /\ accepts[m.to][m.from] \in 0..MaxAccepts /\ accepts[m.from][m.to] \in 0..MaxAccepts
        /\ keys[m.to][m.from] + 1 <= accepts[m.to][m.from] + accepts[m.from][m.to]
    <3>1. accepts[m.to][m.from] \in 0..MaxAccepts /\ accepts[m.from][m.to] \in 0..MaxAccepts
      BY <1>1 DEF DidInv, TypeOK, Pairs
    <3> QED BY <1>1, <2>2, <3>1, Counts DEF DidInv, CountInv
  <2>4. keys[m.to][m.from] + 1 \in Keys
    BY <2>3, Bounds DEF Keys
  <2>5. /\ keys' \in Pairs(Keys) /\ keys'[m.to][m.from] = keys[m.to][m.from] + 1
        /\ \A a, b \in Agents : keys'[a][b] = keys[a][b] \/ (a = m.to /\ b = m.from)
    BY <1>1, <2>1, <2>4 DEF DidInv, TypeOK, Pairs
  <2>6. TypeOK'
    BY <1>2, <1>4, <2>1, <2>5 DEF DidInv, TypeOK
  <2>7. Grows
    <3>1. \A a, b \in Agents : keys[a][b] > 0 => keys'[a][b] > 0
      BY <2>3, <2>5
    <3> QED BY <1>2, <3>1, Counts DEF Grows, DidInv
  <2>8. TaskOK(r)'
    <3>1. Begins(r.exch)' /\ r.key > 0 /\ r.exch.by = r.peer /\ r.exch.to = r.me
      BY <1>1, <1>2, <1>4 DEF MessageOK, Begins
    <3>2. keys'[r.me][r.peer] > 0
      BY <1>4, <2>3, <2>5
    <3> QED BY <1>4, <3>1, <3>2 DEF TaskOK
  <2>9. StateInv'
    BY <1>2, <2>1, <2>6, <2>7, <2>8, StateStep
  <2>10. Conveys(m) /\ r.kind \in Handlers
    BY <1>2, <1>4 DEF Conveys, Handlers
  <2>11. /\ OncePlaced' /\ ChannelInv'
         /\ \A t, u \in tasks' :
              t.kind = "accept" /\ u.kind = "accept" /\ t.me = u.me /\ t.peer = u.peer => t = u
         /\ \A n \in wire' : n.kind = "accept" =>
              \E t \in tasks' : /\ t.me = n.from /\ t.peer = n.to /\ t.kind = "accept"
                                /\ t.at = "sending"
         /\ \A a, b \in Agents : Asking(b, a)' => Asking(b, a)
    BY <1>2, <1>4, <2>1, <2>10, MessageTaken
  <2>12. ~Asking(m.from, m.to)'
    <3>1. PICK v \in tasks : /\ v.me = m.from /\ v.peer = m.to /\ v.kind = "accept"
                             /\ v.at = "sending"
      BY <1>2 DEF DidInv, CountInv
    <3>2. ~\E t \in tasks' : t.me = m.from /\ t.peer = m.to /\ t.kind = "accept" /\ t.at \in Early
      BY <1>4, <2>1, <3>1 DEF DidInv, CountInv, Early
    <3>3. ~\E n \in wire' : n.from = m.from /\ n.to = m.to /\ n.kind = "accept"
      BY <1>2 DEF DidInv, CountInv
    <3> QED BY <3>2, <3>3 DEF Asking
  <2>13. ASSUME NEW a \in Agents, NEW b \in Agents
         PROVE  /\ keys'[a][b] <= accepts'[a][b] + accepts'[b][a]
                /\ Asking(b, a)' => keys'[a][b] + 1 <= accepts'[a][b] + accepts'[b][a]
    <3>1. CASE a = m.to /\ b = m.from
      BY <2>3, <2>5, <2>12, <3>1
    <3>2. CASE ~(a = m.to /\ b = m.from)
      BY <2>5, <2>11, <3>2 DEF DidInv, CountInv
    <3> QED BY <3>1, <3>2
  <2>14. CountInv'
    BY <1>2, <2>11, <2>13 DEF DidInv, CountInv
  <2>15. OnlyAccepterPanics'
    BY DEF DidInv, OnlyAccepterPanics
  <2> QED BY <2>6, <2>9, <2>11, <2>14, <2>15 DEF DidInv
<1> QED BY <1>5, <1>6

\* A message that costs no key pair.
LEMMA OtherTaken ==
    ASSUME DidInv, NEW m \in wire, wire' = wire \ {m},
           NEW r \in Task, r.kind \in Handlers, Carries(r) => Conveys(m) /\ r.exch = m.exch,
           TaskOK(r)', tasks' = tasks \/ tasks' = tasks \cup {r},
           UNCHANGED <<stores, accepts, sends, polls, up>>, unread' \subseteq Agents \X Agents
    PROVE  DidInv'
<1>1. UNCHANGED <<keys, docs, peers, syncCons>>
  BY DEF stores
<1>2. TypeOK'
  BY <1>1 DEF DidInv, TypeOK
<1>3. Grows
  BY <1>1, Counts DEF Grows, DidInv
<1>4. StateInv'
  BY <1>1, <1>2, <1>3, StateStep
<1>5. /\ OncePlaced' /\ ChannelInv'
      /\ \A t, u \in tasks' :
           t.kind = "accept" /\ u.kind = "accept" /\ t.me = u.me /\ t.peer = u.peer => t = u
      /\ \A n \in wire' : n.kind = "accept" =>
           \E t \in tasks' : /\ t.me = n.from /\ t.peer = n.to /\ t.kind = "accept"
                             /\ t.at = "sending"
      /\ \A a, b \in Agents : Asking(b, a)' => Asking(b, a)
  BY <1>1, MessageTaken
<1>6. \A a, b \in Agents :
         /\ keys'[a][b] <= accepts'[a][b] + accepts'[b][a]
         /\ Asking(b, a)' => keys'[a][b] + 1 <= accepts'[a][b] + accepts'[b][a]
  BY <1>1, <1>5 DEF DidInv, CountInv
<1>7. CountInv'
  BY <1>5, <1>6 DEF DidInv, CountInv
<1>8. OnlyAccepterPanics'
  BY DEF DidInv, OnlyAccepterPanics
<1> QED BY <1>2, <1>4, <1>5, <1>7, <1>8 DEF DidInv

LEMMA StepTakeResponse ==
    ASSUME DidInv, NEW m \in wire, TakeResponse(m), UNCHANGED <<accepts, sends, polls, up>>
    PROVE  DidInv'
<1>1. /\ m \in Message /\ MessageOK(m) /\ m.from \in Agents /\ m.to \in Agents
      /\ m.exch \in Exch /\ m.doc \in Keys /\ m.kid \in Keys /\ m.ok \in BOOLEAN
  BY InvMessage
<1>2. m.kind = "respond" /\ wire' = wire \ {m} /\ UNCHANGED <<stores, unread>>
  BY DEF TakeResponse, Take
<1>3. PICK r : r = [Begun(m.to, m.from, "confirm", "find") EXCEPT
                   !.exch = m.exch, !.key = m.doc, !.kid = m.kid, !.ok = m.ok]
  OBVIOUS
<1>4. /\ r \in Task /\ r.me = m.to /\ r.peer = m.from /\ r.kind = "confirm"
      /\ r.at = "find" /\ r.exch = m.exch /\ r.key = m.doc
  <2>1. PICK n : n = Begun(m.to, m.from, "confirm", "find")
    OBVIOUS
  <2>2. /\ n \in Task /\ n.me = m.to /\ n.peer = m.from
        /\ n.kind = "confirm" /\ n.at = "find"
    BY <1>1, <2>1, Bounds DEF Begun, Task, Exch, Calls, Handlers
  <2> QED BY <1>1, <1>3, <2>1, <2>2 DEF Task
<1>5. TaskOK(r)'
  <2>1. Begins(r.exch)' /\ r.key > 0 /\ r.exch.by = r.me
    BY <1>1, <1>2, <1>4 DEF MessageOK, Begins
  <2> QED BY <1>4, <2>1 DEF TaskOK
<1>6. Conveys(m) /\ r.kind \in Handlers /\ tasks' = tasks \cup {r}
  BY <1>2, <1>3, <1>4 DEF Conveys, Handlers, TakeResponse
<1> QED BY <1>2, <1>4, <1>5, <1>6, OtherTaken DEF DidInv, TypeOK

LEMMA StepTakeMessage ==
    ASSUME DidInv, NEW m \in wire, TakeMessage(m), UNCHANGED <<accepts, sends, polls, up>>
    PROVE  DidInv'
<1>1. /\ m.from \in Agents /\ m.to \in Agents /\ m.kid \in Keys /\ m.ok \in BOOLEAN
  BY InvMessage
<1>2. /\ m.kind = "send" /\ wire' = wire \ {m} /\ UNCHANGED stores
      /\ unread' = unread \/ unread' = unread \cup {<<m.from, m.to>>}
  BY DEF TakeMessage, Take
<1>3. PICK r : r = [Begun(m.to, m.from, "read", "public") EXCEPT !.kid = m.kid, !.ok = m.ok]
  OBVIOUS
<1>4. /\ r \in Task /\ r.kind = "read" /\ r.at = "public"
  <2>1. PICK n : n = Begun(m.to, m.from, "read", "public")
    OBVIOUS
  <2>2. /\ n \in Task /\ n.me = m.to /\ n.peer = m.from
        /\ n.kind = "read" /\ n.at = "public"
    BY <1>1, <2>1, Bounds DEF Begun, Task, Exch, Calls, Handlers
  <2> QED BY <1>1, <1>3, <2>1, <2>2 DEF Task
<1>5. TaskOK(r)' /\ ~Carries(r) /\ r.kind \in Handlers
  BY <1>4 DEF TaskOK, Carries, Handlers, Exchanging
<1>6. tasks' = tasks \/ tasks' = tasks \cup {r}
  BY <1>3 DEF TakeMessage
<1>7. unread' \subseteq Agents \X Agents
  BY <1>1, <1>2 DEF DidInv, TypeOK
<1> QED BY <1>2, <1>4, <1>5, <1>6, <1>7, OtherTaken

-----------------------------------------------------------------------------
(* What users and SyncService do. *)

\* A request in the making has a new exchange; it may cost one key pair, as the
\* Accept itself has.
LEMMA StepStartAccept ==
    ASSUME DidInv, NEW a \in Agents, NEW b \in Agents, NEW sync \in BOOLEAN,
           StartAccept(a, b, sync)
    PROVE  DidInv'
<1>1. /\ accepts[a][b] < MaxAccepts /\ ~Running(a, b, "accept")
      /\ accepts' = [accepts EXCEPT ![a][b] = @ + 1]
      /\ keys' = [keys EXCEPT ![a][b] = @ + 1]
      /\ UNCHANGED <<docs, peers, syncCons, wire, sends, polls, up, unread>>
  BY DEF StartAccept, GenerateKeys
<1>2. /\ accepts[a][b] \in 0..MaxAccepts /\ accepts[b][a] \in 0..MaxAccepts
      /\ keys[a][b] \in Nat /\ MaxAccepts \in Nat
      /\ keys[a][b] <= accepts[a][b] + accepts[b][a]
  <2>1. accepts[a][b] \in 0..MaxAccepts /\ accepts[b][a] \in 0..MaxAccepts
    BY DEF DidInv, TypeOK, Pairs
  <2> QED BY <2>1, Bounds, Counts DEF DidInv, CountInv
<1>3. accepts[a][b] + 1 \in 0..MaxAccepts /\ keys[a][b] + 1 \in Keys
  BY <1>1, <1>2 DEF Keys
<1>4. /\ accepts' \in Pairs(0..MaxAccepts) /\ accepts'[a][b] = accepts[a][b] + 1
      /\ \A c, d \in Agents : accepts'[c][d] = accepts[c][d] \/ (c = a /\ d = b)
  BY <1>1, <1>3 DEF DidInv, TypeOK, Pairs
<1>5. /\ keys' \in Pairs(Keys) /\ keys'[a][b] = keys[a][b] + 1
      /\ \A c, d \in Agents : keys'[c][d] = keys[c][d] \/ (c = a /\ d = b)
  BY <1>1, <1>3 DEF DidInv, TypeOK, Pairs
<1>6. PICK t : t = [Begun(a, b, "accept", "public") EXCEPT
                      !.exch.n = accepts'[a][b], !.sync = sync]
  OBVIOUS
<1>7. /\ t \in Task /\ t.me = a /\ t.peer = b /\ t.kind = "accept" /\ t.at = "public"
      /\ t.exch = [by |-> a, to |-> b, n |-> accepts[a][b] + 1]
  <2>1. PICK n : n = Begun(a, b, "accept", "public")
    OBVIOUS
  <2>2. /\ n \in Task /\ n.me = a /\ n.peer = b /\ n.kind = "accept" /\ n.at = "public"
        /\ n.exch = [by |-> a, to |-> b, n |-> 0]
    BY <2>1, Bounds DEF Begun, Task, Exch, Calls, Handlers
  <2>3. t = [n EXCEPT !.exch.n = accepts[a][b] + 1, !.sync = sync]
    BY <1>4, <1>6, <2>1
  <2>4. [n.exch EXCEPT !.n = accepts[a][b] + 1] = [by |-> a, to |-> b, n |-> accepts[a][b] + 1]
    BY <2>2
  <2>5. [by |-> a, to |-> b, n |-> accepts[a][b] + 1] \in Exch
    BY <1>3 DEF Exch
  <2> QED BY <2>2, <2>3, <2>4, <2>5 DEF Task
<1>8. tasks' = tasks \cup {t}
  BY <1>6 DEF StartAccept
<1>9. TypeOK'
  BY <1>1, <1>4, <1>5, <1>7, <1>8 DEF DidInv, TypeOK
<1>10. Grows
  <2>1. \A c, d \in Agents : accepts'[c][d] >= accepts[c][d]
    <3> SUFFICES ASSUME NEW c \in Agents, NEW d \in Agents PROVE accepts'[c][d] >= accepts[c][d]
      OBVIOUS
    <3>1. accepts[c][d] \in Nat
      BY Counts DEF DidInv
    <3>2. accepts'[c][d] = accepts[c][d] \/ accepts'[c][d] = accepts[c][d] + 1
      BY <1>4
    <3> QED BY <3>1, <3>2
  <2>2. \A c, d \in Agents : keys[c][d] > 0 => keys'[c][d] > 0
    BY <1>2, <1>5
  <2> QED BY <1>1, <2>1, <2>2 DEF Grows
<1>11. StateInv'
  <2>1. Begins(t.exch)'
    BY <1>2, <1>4, <1>7 DEF Begins
  <2>2. TaskOK(t)'
    BY <1>2, <1>5, <1>7, <2>1 DEF TaskOK
  <2> QED BY <1>1, <1>8, <1>9, <1>10, <2>2, StateStep
<1>12. CountInv'
  <2>1. \A v, w \in tasks' :
           v.kind = "accept" /\ w.kind = "accept" /\ v.me = w.me /\ v.peer = w.peer => v = w
    BY <1>1, <1>7, <1>8 DEF DidInv, CountInv, Running
  <2>2. \A m \in wire' : m.kind = "accept" =>
           \E v \in tasks' : /\ v.me = m.from /\ v.peer = m.to /\ v.kind = "accept"
                             /\ v.at = "sending"
    BY <1>1, <1>8 DEF DidInv, CountInv
  <2>3. ASSUME NEW c \in Agents, NEW d \in Agents
        PROVE  /\ keys'[c][d] <= accepts'[c][d] + accepts'[d][c]
               /\ Asking(d, c)' => keys'[c][d] + 1 <= accepts'[c][d] + accepts'[d][c]
    <3>1. /\ keys[c][d] \in Nat /\ accepts[c][d] \in Nat /\ accepts[d][c] \in Nat
          /\ keys[c][d] <= accepts[c][d] + accepts[d][c]
          /\ Asking(d, c) => keys[c][d] + 1 <= accepts[c][d] + accepts[d][c]
      BY Counts DEF DidInv, CountInv
    <3>2. Asking(d, c)' => Asking(d, c) \/ (d = a /\ c = b)
      BY <1>1, <1>7, <1>8 DEF Asking
    <3>3. CASE c = a /\ d = b /\ a = b
      <4>1. keys'[c][d] = keys[c][d] + 1 /\ accepts'[c][d] = accepts[c][d] + 1
            /\ accepts'[d][c] = accepts[d][c] + 1
        BY <1>4, <1>5, <3>3
      <4> QED BY <3>1, <4>1
    <3>4. CASE c = a /\ d = b /\ a # b
      <4>1. keys'[c][d] = keys[c][d] + 1 /\ accepts'[c][d] = accepts[c][d] + 1
            /\ accepts'[d][c] = accepts[d][c]
        BY <1>4, <1>5, <3>4
      <4> QED BY <3>1, <3>2, <3>4, <4>1
    <3>5. CASE c = b /\ d = a /\ a # b
      <4>1. keys'[c][d] = keys[c][d] /\ accepts'[d][c] = accepts[d][c] + 1
            /\ accepts'[c][d] = accepts[c][d]
        BY <1>4, <1>5, <3>5
      <4> QED BY <3>1, <4>1
    <3>6. CASE ~(c = a /\ d = b) /\ ~(c = b /\ d = a)
      <4>1. keys'[c][d] = keys[c][d] /\ accepts'[d][c] = accepts[d][c]
            /\ accepts'[c][d] = accepts[c][d]
        BY <1>4, <1>5, <3>6
      <4> QED BY <3>1, <3>2, <3>6, <4>1
    <3> QED BY <3>3, <3>4, <3>5, <3>6
  <2> QED BY <1>1, <2>1, <2>2, <2>3 DEF DidInv, CountInv
<1>13. \A e : e.by = a /\ e.to = b /\ Begins(e) => e # t.exch
  BY <1>2, <1>7 DEF Begins
<1>14. /\ \A v \in tasks : Carries(v) => v.exch # t.exch
       /\ \A m \in wire : Conveys(m) => m.exch # t.exch
  <2>1. \A v \in tasks : Carries(v) => Begins(v.exch)
    BY DEF DidInv, StateInv, TaskOK, Carries, Exchanging
  <2>2. \A m \in wire : Conveys(m) => Begins(m.exch)
    BY DEF DidInv, StateInv, MessageOK, Conveys
  <2> QED BY <1>7, <1>13, <2>1, <2>2
<1>15. OncePlaced'
  <2>1. \A v, w \in tasks' : Carries(v) /\ Carries(w) /\ v.exch = w.exch => v = w
    BY <1>8, <1>14 DEF DidInv, OncePlaced
  <2>2. \A v \in tasks', m \in wire' : ~(Carries(v) /\ Conveys(m) /\ v.exch = m.exch)
    BY <1>1, <1>8, <1>14 DEF DidInv, OncePlaced
  <2> QED BY <1>1, <2>1, <2>2 DEF DidInv, OncePlaced
<1>16. ChannelInv'
  <2> SUFFICES ASSUME NEW c \in Agents, NEW d \in Agents, syncCons'[c][d] > 0
               PROVE  /\ syncCons'[c][d] <= accepts'[c][d]
                      /\ accepts'[c][d] = 1 =>
                           Reading(c, d)' \/ Over([by |-> c, to |-> d, n |-> 1])'
    BY DEF ChannelInv
  <2>1. /\ syncCons[c][d] > 0 /\ syncCons[c][d] <= accepts[c][d]
        /\ accepts[c][d] = 1 => Reading(c, d) \/ Over([by |-> c, to |-> d, n |-> 1])
    BY <1>1 DEF DidInv, ChannelInv
  <2>2. syncCons[c][d] \in Nat /\ accepts[c][d] \in Nat
    BY Counts DEF DidInv
  <2>3. CASE c = a /\ d = b
    BY <1>1, <1>4, <2>1, <2>2, <2>3
  <2>4. CASE ~(c = a /\ d = b)
    <3>1. accepts'[c][d] = accepts[c][d] /\ syncCons'[c][d] = syncCons[c][d]
      BY <1>1, <1>4, <2>4
    <3>2. Reading(c, d) => Reading(c, d)'
      BY <1>8 DEF Reading
    <3>3. t.exch # [by |-> c, to |-> d, n |-> 1]
      BY <1>7, <2>4
    <3>4. Over([by |-> c, to |-> d, n |-> 1]) => Over([by |-> c, to |-> d, n |-> 1])'
      BY <1>1, <1>8, <3>3 DEF Over
    <3> QED BY <2>1, <3>1, <3>2, <3>4
  <2> QED BY <2>3, <2>4
<1>17. OnlyAccepterPanics'
  <2>1. \A c, d \in Agents : accepts[c][d] > 0 => accepts'[c][d] > 0
    BY <1>2, <1>4
  <2> QED BY <1>1, <2>1 DEF DidInv, OnlyAccepterPanics
<1> QED BY <1>9, <1>11, <1>12, <1>15, <1>16, <1>17 DEF DidInv

LEMMA StepStartSend ==
    ASSUME DidInv, NEW a \in Agents, NEW b \in Agents, StartSend(a, b)
    PROVE  DidInv'
<1>1. /\ sends[a][b] < MaxSends /\ sends' = [sends EXCEPT ![a][b] = @ + 1]
      /\ UNCHANGED <<keys, docs, peers, syncCons, wire, accepts, polls, up, unread>>
  BY DEF StartSend, stores
<1>2. sends' \in Pairs(0..MaxSends)
  <2>1. sends[a][b] \in 0..MaxSends
    BY DEF DidInv, TypeOK, Pairs
  <2>2. sends[a][b] + 1 \in 0..MaxSends
    BY <1>1, <2>1, Bounds
  <2> QED BY <1>1, <2>2 DEF DidInv, TypeOK, Pairs
<1>3. PICK t : t = [Begun(a, b, "send", "public") EXCEPT !.key = peers[a][b].key]
  OBVIOUS
<1>4. t \in Task /\ t.kind = "send" /\ t.at = "public"
  <2>1. PICK n : n = Begun(a, b, "send", "public")
    OBVIOUS
  <2>2. n \in Task /\ n.kind = "send" /\ n.at = "public"
    BY <2>1, Bounds DEF Begun, Task, Exch, Calls, Handlers
  <2>3. peers[a][b].key \in Keys
    BY DEF DidInv, TypeOK, Pairs, Peer
  <2> QED BY <1>3, <2>1, <2>2, <2>3 DEF Task
<1>5. tasks' = tasks \cup {t}
  BY <1>3 DEF StartSend
<1>6. TypeOK'
  BY <1>1, <1>2, <1>4, <1>5 DEF DidInv, TypeOK
<1>7. Grows
  BY <1>1, Counts DEF Grows, DidInv
<1>8. TaskOK(t)' /\ ~Carries(t)
  BY <1>4 DEF TaskOK, Carries, Exchanging
<1>9. StateInv'
  BY <1>1, <1>5, <1>6, <1>7, <1>8, StateStep
<1>10. CountInv'
  <2>1. \A v, w \in tasks' :
           v.kind = "accept" /\ w.kind = "accept" /\ v.me = w.me /\ v.peer = w.peer => v = w
    BY <1>4, <1>5 DEF DidInv, CountInv
  <2>2. \A m \in wire' : m.kind = "accept" =>
           \E v \in tasks' : /\ v.me = m.from /\ v.peer = m.to /\ v.kind = "accept"
                             /\ v.at = "sending"
    BY <1>1, <1>5 DEF DidInv, CountInv
  <2>3. ASSUME NEW c \in Agents, NEW d \in Agents, Asking(d, c)' PROVE Asking(d, c)
    BY <1>1, <1>4, <1>5, <2>3 DEF Asking
  <2>4. \A c, d \in Agents :
           /\ keys'[c][d] <= accepts'[c][d] + accepts'[d][c]
           /\ Asking(d, c)' => keys'[c][d] + 1 <= accepts'[c][d] + accepts'[d][c]
    BY <1>1, <2>3 DEF DidInv, CountInv
  <2> QED BY <1>1, <2>1, <2>2, <2>4 DEF DidInv, CountInv
<1>11. OncePlaced'
  BY <1>1, <1>5, <1>8 DEF DidInv, OncePlaced
<1>12. ChannelInv'
  <2>1. \A c, d \in Agents : Reading(c, d) => Reading(c, d)'
    BY <1>5 DEF Reading
  <2>2. \A e : Over(e) => Over(e)'
    BY <1>1, <1>5, <1>8 DEF Over
  <2> QED BY <1>1, <2>1, <2>2, ChannelKept
<1>13. OnlyAccepterPanics'
  BY <1>1 DEF DidInv, OnlyAccepterPanics
<1> QED BY <1>6, <1>9, <1>10, <1>11, <1>12, <1>13 DEF DidInv

\* What the goroutine of SyncService does, or nothing.
LEMMA StillStep ==
    ASSUME DidInv, UNCHANGED <<stores, tasks, wire, accepts, sends, unread>>,
           polls' \in Pairs({"off", "polling", "served", "orphan", "stuck"}),
           up' \in [Agents -> BOOLEAN], OnlyAccepterPanics'
    PROVE  DidInv'
<1>1. UNCHANGED <<keys, docs, peers, syncCons, tasks, wire, accepts, sends, unread>>
  BY DEF stores
<1>2. TypeOK'
  BY <1>1 DEF DidInv, TypeOK
<1>3. Grows
  BY <1>1, Counts DEF Grows, DidInv
<1>4. StateInv'
  BY <1>1, <1>2, <1>3, StateStep
<1>5. CountInv'
  BY <1>1 DEF DidInv, CountInv, Asking
<1>6. OncePlaced'
  BY <1>1 DEF DidInv, OncePlaced
<1>7. ChannelInv'
  BY <1>1, ChannelKept DEF Reading, Over
<1> QED BY <1>2, <1>4, <1>5, <1>6, <1>7 DEF DidInv

LEMMA StepQuery ==
    ASSUME DidInv, NEW a \in Agents, NEW b \in Agents,
           StartQuery(a, b) \/ Ask(a, b) \/ TimeOut(a, b)
    PROVE  DidInv'
<1>1. polls[a][b] \in {"off", "polling", "served", "orphan", "stuck"}
  BY DEF DidInv, TypeOK, Pairs
<1>2. \A x \in {"off", "polling", "served", "orphan", "stuck"} :
        [polls EXCEPT ![a][b] = x] \in Pairs({"off", "polling", "served", "orphan", "stuck"})
  BY DEF DidInv, TypeOK, Pairs
<1>3. CASE StartQuery(a, b) \/ TimeOut(a, b)
  <2>1. /\ UNCHANGED <<stores, tasks, wire, accepts, sends, up, unread>>
        /\ \E x \in {"polling", "orphan"} : polls' = [polls EXCEPT ![a][b] = x]
    BY <1>3 DEF StartQuery, TimeOut
  <2>2. OnlyAccepterPanics'
    BY <2>1 DEF DidInv, OnlyAccepterPanics
  <2> QED BY <1>2, <2>1, <2>2, StillStep DEF DidInv, TypeOK
<1>4. CASE Ask(a, b)
  <2>1. /\ UNCHANGED <<stores, tasks, wire, accepts, sends, unread>>
        /\ peers[a][b].exch.n > 0
    BY <1>4 DEF Ask
  <2>2. CASE peers[a][b].key = 0
    <3>1. up' = [up EXCEPT ![a] = FALSE] /\ UNCHANGED polls
      BY <1>4, <2>2 DEF Ask
    <3>2. \E c \in Agents : accepts[a][c] > 0
      BY <2>1, <2>2 DEF DidInv, StateInv, PeerOK
    <3>3. up' \in [Agents -> BOOLEAN] /\ \A c \in Agents : c # a => up'[c] = up[c]
      BY <3>1 DEF DidInv, TypeOK
    <3>4. OnlyAccepterPanics'
      BY <2>1, <3>2, <3>3 DEF DidInv, OnlyAccepterPanics
    <3> QED BY <2>1, <3>1, <3>3, <3>4, StillStep DEF DidInv, TypeOK
  <2>3. CASE peers[a][b].key # 0
    <3>1. /\ UNCHANGED up
          /\ \E x \in {"served", "stuck"} : polls' = [polls EXCEPT ![a][b] = x]
      BY <1>4, <2>3 DEF Ask
    <3>2. OnlyAccepterPanics'
      BY <2>1, <3>1 DEF DidInv, OnlyAccepterPanics
    <3> QED BY <1>2, <2>1, <3>1, <3>2, StillStep DEF DidInv, TypeOK
  <2> QED BY <2>2, <2>3
<1> QED BY <1>3, <1>4

-----------------------------------------------------------------------------
(* The theorems. *)

LEMMA NextDid == DidInv /\ [Next]_vars => DidInv'
<1> SUFFICES ASSUME DidInv, [Next]_vars PROVE DidInv'
  OBVIOUS
<1>1. ASSUME NEW a \in Agents, NEW b \in Agents, Command(a, b) \/ Ask(a, b) \/ TimeOut(a, b)
      PROVE  DidInv'
  BY <1>1, StepStartAccept, StepStartSend, StepQuery DEF Command
<1>2. ASSUME NEW t \in tasks, Step(t) PROVE DidInv'
  <2>1. UNCHANGED <<accepts, sends, polls, up>>
    BY <1>2 DEF Step
  <2>2. CASE ReadPublic(t) \/ ReadPrivate(t) \/ AddDid(t) \/ SendOut(t)
    BY <2>1, <2>2, StepReadPublic, StepReadPrivate, StepAddDid, StepSendOut
  <2>3. CASE StoreInviter(t) \/ StoreChannel(t) \/ FinishSend(t) \/ StoreAccepter(t)
    BY <2>1, <2>3, StepStoreInviter, StepStoreChannel, StepFinishSend, StepStoreAccepter
  <2>4. CASE FindPeer(t) \/ StoreServices(t) \/ LoadChannel(t) \/ Signal(t) \/ OpenMessage(t)
    BY <2>1, <2>4, StepFindPeer, StepStoreServices, StepLoadChannel, StepSignal, StepOpenMessage
  <2> QED BY <1>2, <2>2, <2>3, <2>4 DEF Step
<1>3. ASSUME NEW m \in wire, Receive(m) PROVE DidInv'
  BY <1>3, StepTakeRequest, StepTakeResponse, StepTakeMessage DEF Receive
<1>4. CASE UNCHANGED vars
  <2>1. UNCHANGED <<stores, tasks, wire, accepts, sends, polls, up, unread>>
    BY <1>4 DEF vars
  <2>2. OnlyAccepterPanics'
    BY <2>1 DEF DidInv, OnlyAccepterPanics
  <2> QED BY <2>1, <2>2, StillStep DEF DidInv, TypeOK
<1> QED BY <1>1, <1>2, <1>3, <1>4 DEF Next

LEMMA DidInvAlways == Spec => []DidInv
BY InitDid, NextDid, PTL DEF Spec

\* The state has its type in every behaviour: an agent never makes more key
\* pairs for a peer than the two have made Accept calls, since a request costs
\* one pair however often and late the loop takes messages.
THEOREM TypeCorrect == Spec => []TypeOK
<1>1. DidInv => TypeOK
  BY DEF DidInv
<1> QED BY <1>1, DidInvAlways, PTL

\* Service panics only in an agent that has accepted an invitation: processConnReq
\* stores a peer with its services, and processConnRes one that was stored.
THEOREM OnlyAccepterPanicsAlways == Spec => []OnlyAccepterPanics
<1>1. DidInv => OnlyAccepterPanics
  BY DEF DidInv
<1> QED BY <1>1, DidInvAlways, PTL

\* The handler of a response finds nobody to read its channel only if the same
\* invitation was accepted more than once: one Accept leads to one request,
\* one response and one write to its channel.
THEOREM OnlyRepeatsWedgeAlways == Spec => []OnlyRepeatsWedge
BY InvOnlyRepeatsWedge, DidInvAlways, PTL

-----------------------------------------------------------------------------
(* Keys: each one that is read, stored or sent is one its owner has made.  *)

\* The keys of a running call or handler; with a single Accept between the two
\* there is one key pair, so that what is packed with it opens.
TaskKeys(t) ==
    /\ t.pub <= keys[t.me][t.peer] /\ t.prv <= keys[t.me][t.peer]
    /\ keys[t.me][t.peer] > 0
    /\ t.at \notin {"find", "public"} => t.pub > 0
    /\ t.at \notin {"find", "public", "private"} => t.prv > 0
    /\ t.kind \in {"confirm", "read"} =>
         /\ t.kid > 0 /\ t.kid <= keys[t.me][t.peer]
         /\ Once(t.me, t.peer) => t.ok
    /\ t.key <= keys[t.peer][t.me]
    /\ t.kind \in {"respond", "confirm", "send"} => t.key > 0
    /\ t.kind = "confirm" => t.exch.to = t.peer

MessageKeys(m) ==
    /\ m.doc <= keys[m.from][m.to]
    /\ m.kid <= keys[m.to][m.from]
    /\ m.kind \in {"respond", "send"} => m.kid > 0
    /\ keys[m.from][m.to] > 0
    /\ Once(m.from, m.to) => m.ok

PeerKeys(a, b) ==
    /\ peers[a][b].key <= keys[b][a]
    /\ peers[a][b].key > 0 => keys[a][b] > 0
    /\ peers[a][b].exch.n > 0 => Begins(peers[a][b].exch)

KeyInv ==
    /\ \A t \in tasks : TaskKeys(t)
    /\ \A m \in wire : MessageKeys(m)
    /\ \A a, b \in Agents : PeerKeys(a, b)
    /\ \A a, b \in Agents : docs[a][b] <= keys[a][b]
    /\ \A a, b \in Agents : accepts[a][b] > 0 => keys[a][b] > 0

LEMMA OnceOneKey ==
    ASSUME DidInv, NEW a \in Agents, NEW b \in Agents, Once(a, b)
    PROVE  /\ Once(b, a) /\ keys[a][b] <= 1 /\ keys[b][a] <= 1
           /\ keys[a][b] \in Nat /\ keys[b][a] \in Nat
           /\ accepts[a][b] \in Nat /\ accepts[b][a] \in Nat
<1>1. /\ keys[a][b] \in Nat /\ keys[b][a] \in Nat
      /\ accepts[a][b] \in Nat /\ accepts[b][a] \in Nat
  BY Counts DEF DidInv
<1>2. /\ keys[a][b] <= accepts[a][b] + accepts[b][a]
      /\ keys[b][a] <= accepts[b][a] + accepts[a][b]
  BY DEF DidInv, CountInv
<1> QED BY <1>1, <1>2 DEF Once

LEMMA InitKeys == Init => KeyInv
<1> SUFFICES ASSUME Init PROVE KeyInv
  OBVIOUS
<1>1. tasks = {} /\ wire = {}
  BY DEF Init
<1>2. \A a, b \in Agents : keys[a][b] = 0 /\ accepts[a][b] = 0 /\ docs[a][b] = 0
  BY DEF Init, All
<1>3. \A a, b \in Agents : peers[a][b].key = 0 /\ peers[a][b].exch.n = 0
  BY DEF Init
<1> QED BY <1>1, <1>2, <1>3 DEF KeyInv, PeerKeys

\* No key pair and no Accept is taken back.
More ==
    \A a, b \in Agents : keys'[a][b] >= keys[a][b] /\ accepts'[a][b] >= accepts[a][b]

LEMMA OnceBefore ==
    ASSUME TypeOK, TypeOK', More, NEW a \in Agents, NEW b \in Agents, Once(a, b)'
    PROVE  Once(a, b)
<1>1. /\ accepts[a][b] \in Nat /\ accepts[b][a] \in Nat
      /\ accepts'[a][b] >= accepts[a][b] /\ accepts'[b][a] >= accepts[b][a]
  BY Counts DEF More
<1>2. accepts'[a][b] \in Nat /\ accepts'[b][a] \in Nat
  BY Bounds DEF TypeOK, Pairs
<1> QED BY <1>1, <1>2 DEF Once

LEMMA TaskKeysKept ==
    ASSUME TypeOK, TypeOK', More, NEW t \in Task, TaskKeys(t)
    PROVE  TaskKeys(t)'
<1>1. PICK a \in Agents, b \in Agents : a = t.me /\ b = t.peer
  BY DEF Task
<1>2. t.pub \in Nat /\ t.prv \in Nat /\ t.kid \in Nat /\ t.key \in Nat
  BY Bounds DEF Task
<1>3. /\ keys[a][b] \in Nat /\ keys[b][a] \in Nat
      /\ keys'[a][b] >= keys[a][b] /\ keys'[b][a] >= keys[b][a]
  BY Counts DEF More
<1>4. keys'[a][b] \in Nat /\ keys'[b][a] \in Nat
  BY Bounds DEF TypeOK, Pairs
<1>5. Once(a, b)' => Once(a, b)
  BY OnceBefore
<1> QED BY <1>1, <1>2, <1>3, <1>4, <1>5 DEF TaskKeys

LEMMA MessageKeysKept ==
    ASSUME TypeOK, TypeOK', More, NEW m \in Message, MessageKeys(m)
    PROVE  MessageKeys(m)'
<1>1. PICK a \in Agents, b \in Agents : a = m.from /\ b = m.to
  BY DEF Message
<1>2. m.doc \in Nat /\ m.kid \in Nat
  BY Bounds DEF Message
<1>3. /\ keys[a][b] \in Nat /\ keys[b][a] \in Nat
      /\ keys'[a][b] >= keys[a][b] /\ keys'[b][a] >= keys[b][a]
  BY Counts DEF More
<1>4. keys'[a][b] \in Nat /\ keys'[b][a] \in Nat
  BY Bounds DEF TypeOK, Pairs
<1>5. Once(a, b)' => Once(a, b)
  BY OnceBefore
<1> QED BY <1>1, <1>2, <1>3, <1>4, <1>5 DEF MessageKeys

LEMMA PeerKeysKept ==
    ASSUME TypeOK, TypeOK', More, NEW a \in Agents, NEW b \in Agents, PeerKeys(a, b),
           peers'[a][b] = peers[a][b]
    PROVE  PeerKeys(a, b)'
<1>1. peers[a][b].key \in Nat /\ peers[a][b].exch \in Exch
  BY Bounds DEF TypeOK, Pairs, Peer
<1>2. /\ keys[a][b] \in Nat /\ keys[b][a] \in Nat
      /\ keys'[a][b] >= keys[a][b] /\ keys'[b][a] >= keys[b][a]
  BY Counts DEF More
<1>3. keys'[a][b] \in Nat /\ keys'[b][a] \in Nat
  BY Bounds DEF TypeOK, Pairs
<1>4. Begins(peers[a][b].exch) => Begins(peers[a][b].exch)'
  <2>1. PICK e \in Exch : e = peers[a][b].exch
    BY <1>1
  <2>2. PICK c \in Agents, d \in Agents : c = e.by /\ d = e.to /\ e.n \in Nat
    BY Bounds DEF Exch
  <2>3. accepts[c][d] \in Nat /\ accepts'[c][d] \in Nat /\ accepts'[c][d] >= accepts[c][d]
    BY Counts, Bounds DEF TypeOK, Pairs, More
  <2>4. Begins(e) => Begins(e)'
    BY <2>2, <2>3 DEF Begins
  <2> QED BY <2>1, <2>4 DEF Begins
<1> QED BY <1>1, <1>2, <1>3, <1>4 DEF PeerKeys

LEMMA KeyStep ==
    ASSUME TypeOK, TypeOK', KeyInv, More,
           \A t \in tasks' : t \in tasks \/ TaskKeys(t)',
           \A m \in wire' : m \in wire \/ MessageKeys(m)',
           \A a, b \in Agents : peers'[a][b] = peers[a][b] \/ PeerKeys(a, b)',
           \A a, b \in Agents : docs'[a][b] = docs[a][b] \/ docs'[a][b] <= keys'[a][b],
           \A a, b \in Agents : accepts'[a][b] = accepts[a][b] \/ keys'[a][b] > 0
    PROVE  KeyInv'
<1>1. \A t \in tasks' : TaskKeys(t)'
  BY TaskKeysKept DEF KeyInv, TypeOK
<1>2. \A m \in wire' : MessageKeys(m)'
  BY MessageKeysKept DEF KeyInv, TypeOK
<1>3. \A a, b \in Agents : PeerKeys(a, b)'
  BY PeerKeysKept DEF KeyInv
<1>4. ASSUME NEW a \in Agents, NEW b \in Agents
      PROVE  docs'[a][b] <= keys'[a][b] /\ (accepts'[a][b] > 0 => keys'[a][b] > 0)
  <2>1. /\ keys[a][b] \in Nat /\ docs[a][b] \in Nat /\ accepts[a][b] \in Nat
        /\ keys'[a][b] >= keys[a][b]
    BY Counts DEF More
  <2>2. keys'[a][b] \in Nat /\ docs'[a][b] \in Nat
    BY Bounds DEF TypeOK, Pairs
  <2> QED BY <2>1, <2>2 DEF KeyInv
<1> QED BY <1>1, <1>2, <1>3, <1>4 DEF KeyInv

\* A step that makes no key pair and sends nothing: t goes on as u, or ends.
LEMMA KeyMove ==
    ASSUME TypeOK, TypeOK', KeyInv, NEW u,
           \A v \in tasks' : v \in tasks \/ v = u,
           u \in tasks' => TaskKeys(u)',
           UNCHANGED <<keys, accepts>>, wire' \subseteq wire,
           \A a, b \in Agents : peers'[a][b] = peers[a][b] \/ PeerKeys(a, b)',
           \A a, b \in Agents : docs'[a][b] = docs[a][b] \/ docs'[a][b] <= keys'[a][b]
    PROVE  KeyInv'
<1>1. More
  BY Counts DEF More
<1>2. \A v \in tasks' : v \in tasks \/ TaskKeys(v)'
  OBVIOUS
<1> QED BY <1>1, <1>2, KeyStep

LEMMA KeyTask ==
    ASSUME DidInv, KeyInv, NEW t \in tasks
    PROVE  /\ t \in Task /\ TaskOK(t) /\ TaskKeys(t)
           /\ t.me \in Agents /\ t.peer \in Agents
           /\ t.pub \in Nat /\ t.prv \in Nat /\ t.key \in Nat /\ t.kid \in Nat
           /\ keys[t.me][t.peer] \in Nat /\ keys[t.peer][t.me] \in Nat
           /\ keys[t.me][t.peer] > 0
<1>1. t \in Task /\ TaskOK(t) /\ TaskKeys(t)
  BY InvTask DEF KeyInv
<1>2. t.me \in Agents /\ t.peer \in Agents
  BY <1>1 DEF Task
<1>3. t.pub \in Nat /\ t.prv \in Nat /\ t.key \in Nat /\ t.kid \in Nat
  BY <1>1, Bounds DEF Task
<1>4. keys[t.me][t.peer] \in Nat /\ keys[t.peer][t.me] \in Nat
  BY <1>2, Counts DEF DidInv
<1> QED BY <1>1, <1>2, <1>3, <1>4 DEF TaskKeys

\* The peer that a call or handler stores.
LEMMA StoredKeys ==
    ASSUME TypeOK, TypeOK', NEW a \in Agents, NEW b \in Agents, NEW e, NEW k \in Nat,
           peers' = [peers EXCEPT ![a][b] = [exch |-> e, key |-> k]],
           UNCHANGED <<keys, accepts>>, Begins(e), k <= keys[b][a], keys[a][b] > 0
    PROVE  \A c, d \in Agents : peers'[c][d] = peers[c][d] \/ PeerKeys(c, d)'
<1>1. /\ peers'[a][b] = [exch |-> e, key |-> k]
      /\ \A c, d \in Agents : peers'[c][d] = peers[c][d] \/ (c = a /\ d = b)
  BY DEF TypeOK, Pairs
<1>2. PeerKeys(a, b)'
  BY <1>1 DEF PeerKeys, Begins
<1> QED BY <1>1, <1>2

LEMMA KeysRead ==
    ASSUME DidInv, KeyInv, TypeOK', NEW t \in tasks, ReadPublic(t) \/ ReadPrivate(t),
           UNCHANGED <<accepts, sends, polls, up>>
    PROVE  KeyInv'
<1>1. /\ t \in Task /\ TaskOK(t) /\ TaskKeys(t)
      /\ t.pub \in Nat /\ t.prv \in Nat /\ keys[t.me][t.peer] \in Nat
      /\ keys[t.me][t.peer] > 0 /\ keys[t.me][t.peer] <= keys[t.me][t.peer]
  BY KeyTask
<1>2. UNCHANGED <<keys, docs, peers, wire, accepts>>
  BY DEF ReadPublic, ReadPrivate, stores
<1>3. CASE ReadPublic(t)
  <2>1. PICK u : u = [t EXCEPT !.pub = keys[t.me][t.peer], !.at = "private"]
    OBVIOUS
  <2>2. /\ u.me = t.me /\ u.peer = t.peer /\ u.kind = t.kind /\ u.exch = t.exch
        /\ u.at = "private" /\ u.pub = keys[t.me][t.peer] /\ u.prv = t.prv
        /\ u.key = t.key /\ u.kid = t.kid /\ u.ok = t.ok
    BY <1>1, <2>1 DEF Task
  <2>3. TaskKeys(u)'
    BY <1>1, <1>2, <2>2 DEF TaskKeys, Once
  <2>4. \A v \in tasks' : v \in tasks \/ v = u
    BY <1>3, <2>1 DEF ReadPublic, Goto
  <2> QED BY <1>2, <2>3, <2>4, KeyMove DEF DidInv
<1>4. CASE ReadPrivate(t)
  <2>1. PICK at : at = CASE t.kind \in {"accept", "respond"} -> "did"
                         [] t.kind = "send" -> "send"
                         [] OTHER -> "open"
    OBVIOUS
  <2>2. at \notin {"find", "public", "private"}
    BY <2>1
  <2>3. PICK u : u = [t EXCEPT !.prv = keys[t.me][t.peer], !.at = at]
    OBVIOUS
  <2>4. /\ u.me = t.me /\ u.peer = t.peer /\ u.kind = t.kind /\ u.exch = t.exch
        /\ u.at = at /\ u.prv = keys[t.me][t.peer] /\ u.pub = t.pub
        /\ u.key = t.key /\ u.kid = t.kid /\ u.ok = t.ok
    BY <1>1, <2>3 DEF Task
  <2>5. t.at = "private"
    BY <1>4 DEF ReadPrivate
  <2>6. TaskKeys(u)'
    BY <1>1, <1>2, <2>2, <2>4, <2>5 DEF TaskKeys, Once
  <2>7. \A v \in tasks' : v \in tasks \/ v = u
    BY <1>4, <2>1, <2>3 DEF ReadPrivate, Goto
  <2> QED BY <1>2, <2>6, <2>7, KeyMove DEF DidInv
<1> QED BY <1>3, <1>4

\* The other steps that only go on, at a place where no key is read.
LEMMA KeysKept ==
    ASSUME DidInv, KeyInv, TypeOK', NEW t \in tasks, NEW at,
           at \notin {"find", "public"}, t.at \notin {"find", "public", "private"},
           Goto(t, [t EXCEPT !.at = at]) \/ Done(t),
           UNCHANGED <<keys, wire, accepts>>,
           \A a, b \in Agents : peers'[a][b] = peers[a][b] \/ PeerKeys(a, b)',
           \A a, b \in Agents : docs'[a][b] = docs[a][b] \/ docs'[a][b] <= keys'[a][b]
    PROVE  KeyInv'
<1>1. t \in Task /\ TaskKeys(t)
  BY KeyTask
<1>2. PICK u : u = [t EXCEPT !.at = at]
  OBVIOUS
<1>3. /\ u.me = t.me /\ u.peer = t.peer /\ u.kind = t.kind /\ u.exch = t.exch
      /\ u.at = at /\ u.pub = t.pub /\ u.prv = t.prv
      /\ u.key = t.key /\ u.kid = t.kid /\ u.ok = t.ok
  BY <1>1, <1>2 DEF Task
<1>4. TaskKeys(u)'
  BY <1>1, <1>3 DEF TaskKeys, Once
<1>5. \A v \in tasks' : v \in tasks \/ v = u
  BY <1>2 DEF Goto, Done
<1> QED BY <1>4, <1>5, KeyMove DEF DidInv

LEMMA KeysAddDid ==
    ASSUME DidInv, KeyInv, TypeOK', NEW t \in tasks, AddDid(t),
           UNCHANGED <<accepts, sends, polls, up>>
    PROVE  KeyInv'
<1>1. t \in Task /\ TaskKeys(t) /\ t.me \in Agents /\ t.peer \in Agents
  BY KeyTask
<1>2. /\ t.at = "did" /\ Goto(t, [t EXCEPT !.at = "send"])
      /\ docs' = [docs EXCEPT ![t.me][t.peer] = t.pub]
      /\ UNCHANGED <<keys, peers, wire, accepts>>
  BY DEF AddDid
<1>3. \A a, b \in Agents : docs'[a][b] = docs[a][b] \/ docs'[a][b] <= keys'[a][b]
  BY <1>1, <1>2 DEF TaskKeys, DidInv, TypeOK, Pairs
<1> QED BY <1>2, <1>3, KeysKept

LEMMA KeysStore ==
    ASSUME DidInv, KeyInv, TypeOK', NEW t \in tasks,
           StoreInviter(t) \/ StoreAccepter(t) \/ StoreServices(t),
           UNCHANGED <<accepts, sends, polls, up>>
    PROVE  KeyInv'
<1>1. /\ t \in Task /\ TaskOK(t) /\ TaskKeys(t) /\ t.me \in Agents /\ t.peer \in Agents
      /\ keys[t.me][t.peer] > 0 /\ keys[t.peer][t.me] \in Nat /\ t.key \in Nat
  BY KeyTask
<1>2. t.at \in {"sending", "open"} /\ t.kind \in Exchanging
  BY DEF StoreInviter, StoreAccepter, StoreServices, Acked, Exchanging
<1>3. Begins(t.exch)
  BY <1>1, <1>2 DEF TaskOK
<1>4. /\ UNCHANGED <<keys, docs, wire, accepts>>
      /\ \E at \in {"sync", "load"} : Goto(t, [t EXCEPT !.at = at]) \/ Done(t)
  BY DEF StoreInviter, StoreAccepter, StoreServices
<1>5. \E k \in Nat : /\ k <= keys[t.peer][t.me]
                     /\ peers' = [peers EXCEPT ![t.me][t.peer] = [exch |-> t.exch, key |-> k]]
                          \/ peers' = peers
  <2>1. CASE StoreInviter(t)
    <3>1. peers' = [peers EXCEPT ![t.me][t.peer] = [exch |-> t.exch, key |-> 0]]
      BY <2>1 DEF StoreInviter
    <3>2. 0 \in Nat /\ 0 <= keys[t.peer][t.me]
      BY <1>1
    <3> QED BY <3>1, <3>2
  <2>2. CASE StoreAccepter(t) \/ StoreServices(t)
    <3>1. t.key <= keys[t.peer][t.me]
      BY <1>1, <2>2 DEF TaskKeys, StoreAccepter, StoreServices
    <3> QED BY <1>1, <2>2, <3>1 DEF StoreAccepter, StoreServices
  <2> QED BY <2>1, <2>2
<1>6. \A a, b \in Agents : peers'[a][b] = peers[a][b] \/ PeerKeys(a, b)'
  BY <1>1, <1>3, <1>4, <1>5, StoredKeys DEF DidInv
<1> QED BY <1>2, <1>4, <1>6, KeysKept

LEMMA KeysFindPeer ==
    ASSUME DidInv, KeyInv, TypeOK', NEW t \in tasks, FindPeer(t),
           UNCHANGED <<accepts, sends, polls, up>>
    PROVE  KeyInv'
<1>1. t \in Task /\ TaskOK(t) /\ TaskKeys(t)
  BY KeyTask
<1>2. t.at = "find" /\ t.kind = "confirm" /\ UNCHANGED <<keys, docs, peers, wire, accepts>>
  BY <1>1 DEF FindPeer, TaskOK, stores
<1>3. CASE Done(t)
  BY <1>2, <1>3, KeyMove DEF DidInv, Done
<1>4. CASE \E b \in PeersByExch(t.me, t.exch) :
               Goto(t, [t EXCEPT !.peer = b, !.at = "public"])
  <2>1. PICK b \in Agents : /\ peers[t.me][b].exch = t.exch
                            /\ Goto(t, [t EXCEPT !.peer = b, !.at = "public"])
    BY <1>4 DEF PeersByExch
  <2>2. PeerOK(t.me, b)
    BY <1>1 DEF DidInv, StateInv, Task
  <2>3. t.exch.to = b /\ b = t.peer
    BY <1>1, <1>2, <2>1, <2>2 DEF PeerOK, TaskOK, TaskKeys
  <2>4. PICK u : u = [t EXCEPT !.peer = b, !.at = "public"]
    OBVIOUS
  <2>5. /\ u.me = t.me /\ u.peer = t.peer /\ u.kind = t.kind /\ u.exch = t.exch
        /\ u.at = "public" /\ u.pub = t.pub /\ u.prv = t.prv
        /\ u.key = t.key /\ u.kid = t.kid /\ u.ok = t.ok
    BY <1>1, <2>3, <2>4 DEF Task
  <2>6. TaskKeys(u)'
    BY <1>1, <1>2, <2>5 DEF TaskKeys, Once
  <2>7. \A v \in tasks' : v \in tasks \/ v = u
    BY <2>1, <2>4 DEF Goto
  <2> QED BY <1>2, <2>6, <2>7, KeyMove DEF DidInv
<1> QED BY <1>3, <1>4 DEF FindPeer

LEMMA KeysLoad ==
    ASSUME DidInv, KeyInv, TypeOK', NEW t \in tasks, LoadChannel(t) \/ Signal(t),
           UNCHANGED <<accepts, sends, polls, up>>
    PROVE  KeyInv'
<1>1. t \in Task /\ TaskKeys(t)
  BY KeyTask
<1>2. UNCHANGED <<keys, docs, peers, wire, accepts>>
  BY DEF LoadChannel, Signal, stores
<1>3. CASE tasks' \subseteq tasks
  <2>1. More
    BY <1>2, Counts DEF More, DidInv
  <2> QED BY <1>2, <1>3, <2>1, KeyStep DEF DidInv
<1>4. CASE t.at = "load" /\ Goto(t, [t EXCEPT !.at = "signal", !.chan = syncCons[t.me][t.peer]])
  <2>1. PICK u : u = [t EXCEPT !.at = "signal", !.chan = syncCons[t.me][t.peer]]
    OBVIOUS
  <2>2. /\ u.me = t.me /\ u.peer = t.peer /\ u.kind = t.kind /\ u.exch = t.exch
        /\ u.at = "signal" /\ u.pub = t.pub /\ u.prv = t.prv
        /\ u.key = t.key /\ u.kid = t.kid /\ u.ok = t.ok
    BY <1>1, <2>1 DEF Task
  <2>3. TaskKeys(u)'
    BY <1>1, <1>2, <1>4, <2>2 DEF TaskKeys, Once
  <2>4. \A v \in tasks' : v \in tasks \/ v = u
    BY <1>4, <2>1 DEF Goto
  <2> QED BY <1>2, <2>3, <2>4, KeyMove DEF DidInv
<1> QED BY <1>3, <1>4 DEF LoadChannel, Signal, Done

\* A packed message opens if the two were connected once.
LEMMA KeysSendOut ==
    ASSUME DidInv, KeyInv, TypeOK', NEW t \in tasks, SendOut(t),
           UNCHANGED <<accepts, sends, polls, up>>
    PROVE  KeyInv'
<1>1. /\ t \in Task /\ TaskOK(t) /\ TaskKeys(t) /\ t.me \in Agents /\ t.peer \in Agents
      /\ t.pub \in Nat /\ t.prv \in Nat /\ t.key \in Nat
      /\ keys[t.me][t.peer] \in Nat /\ keys[t.peer][t.me] \in Nat
      /\ keys[t.me][t.peer] > 0
  BY KeyTask
<1>2. /\ t.at = "send" /\ t.kind \in {"accept", "respond", "send"}
      /\ wire' = wire \cup {Packed(t)} /\ Goto(t, [t EXCEPT !.at = "sending"])
      /\ UNCHANGED <<keys, docs, peers, accepts>>
  BY <1>1 DEF SendOut, TaskOK, stores
<1>3. PICK u : u = [t EXCEPT !.at = "sending"]
  OBVIOUS
<1>4. /\ u.me = t.me /\ u.peer = t.peer /\ u.kind = t.kind /\ u.exch = t.exch
      /\ u.at = "sending" /\ u.pub = t.pub /\ u.prv = t.prv
      /\ u.key = t.key /\ u.kid = t.kid /\ u.ok = t.ok
  BY <1>1, <1>3 DEF Task
<1>5. TaskKeys(u)'
  BY <1>1, <1>2, <1>4 DEF TaskKeys, Once
<1>6. PICK m : m = Packed(t)
  OBVIOUS
<1>7. /\ m.from = t.me /\ m.to = t.peer /\ m.kind = t.kind
      /\ m.doc = Document(t) /\ m.kid = t.key /\ m.ok = (t.pub = t.prv)
  BY <1>6 DEF Packed
<1>8. MessageKeys(m)
  <2>1. m.doc <= keys[m.from][m.to]
    <3>1. docs[t.me][t.peer] <= keys[t.me][t.peer]
      BY <1>1 DEF KeyInv
    <3> QED BY <1>1, <1>7, <3>1 DEF Document
  <2>2. m.kid <= keys[m.to][m.from] /\ (m.kind \in {"respond", "send"} => m.kid > 0)
    BY <1>1, <1>2, <1>7 DEF TaskKeys
  <2>3. Once(m.from, m.to) => m.ok
    <3> SUFFICES ASSUME Once(t.me, t.peer) PROVE t.pub = t.prv
      BY <1>7
    <3>1. keys[t.me][t.peer] <= 1
      BY <1>1, OnceOneKey
    <3>2. t.pub > 0 /\ t.prv > 0 /\ t.pub <= keys[t.me][t.peer] /\ t.prv <= keys[t.me][t.peer]
      BY <1>1, <1>2 DEF TaskKeys
    <3> QED BY <1>1, <3>1, <3>2
  <2> QED BY <1>1, <1>7, <2>1, <2>2, <2>3 DEF MessageKeys
<1>9. MessageKeys(m)'
  BY <1>2, <1>8 DEF MessageKeys, Once
<1>10. More
  BY <1>2, Counts DEF More, DidInv
<1>11. /\ \A v \in tasks' : v \in tasks \/ TaskKeys(v)'
       /\ \A n \in wire' : n \in wire \/ MessageKeys(n)'
  BY <1>2, <1>3, <1>5, <1>6, <1>9 DEF Goto
<1> QED BY <1>2, <1>10, <1>11, KeyStep DEF DidInv

LEMMA KeyMessage ==
    ASSUME DidInv, KeyInv, NEW m \in wire
    PROVE  /\ m \in Message /\ MessageOK(m) /\ MessageKeys(m)
           /\ m.from \in Agents /\ m.to \in Agents
           /\ m.doc \in Nat /\ m.kid \in Nat
           /\ keys[m.from][m.to] \in Nat /\ keys[m.to][m.from] \in Nat
<1>1. m \in Message /\ MessageOK(m) /\ MessageKeys(m)
  BY InvMessage DEF KeyInv
<1>2. m.from \in Agents /\ m.to \in Agents /\ m.doc \in Nat /\ m.kid \in Nat
  BY InvMessage, Bounds
<1> QED BY <1>1, <1>2, Counts DEF DidInv

LEMMA KeysTakeRequest ==
    ASSUME DidInv, KeyInv, TypeOK', NEW m \in wire, TakeRequest(m),
           UNCHANGED <<accepts, sends, polls, up>>
    PROVE  KeyInv'
<1>1. /\ MessageOK(m) /\ MessageKeys(m) /\ m.from \in Agents /\ m.to \in Agents
      /\ m.doc \in Nat /\ keys[m.from][m.to] \in Nat /\ keys[m.to][m.from] \in Nat
  BY KeyMessage
<1>2. /\ m.kind = "accept" /\ wire' = wire \ {m}
      /\ UNCHANGED <<docs, peers, accepts>>
  BY DEF TakeRequest, Take
<1>3. CASE ~m.ok
  <2>1. UNCHANGED <<keys, tasks>>
    BY <1>3 DEF TakeRequest
  <2>2. More
    BY <1>2, <2>1, Counts DEF More, DidInv
  <2> QED BY <1>2, <2>1, <2>2, KeyStep DEF DidInv
<1>4. CASE m.ok
  <2>1. PICK r : r = [Begun(m.to, m.from, "respond", "public")
                        EXCEPT !.exch = m.exch, !.key = m.doc]
    OBVIOUS
  <2>2. /\ r.me = m.to /\ r.peer = m.from /\ r.kind = "respond" /\ r.at = "public"
        /\ r.key = m.doc /\ r.pub = 0 /\ r.prv = 0
    BY <2>1 DEF Begun
  <2>3. tasks' = tasks \cup {r} /\ keys' = [keys EXCEPT ![m.to][m.from] = @ + 1]
    BY <1>4, <2>1 DEF TakeRequest, GenerateKeys
  <2>4. /\ keys'[m.to][m.from] = keys[m.to][m.from] + 1
        /\ \A a, b \in Agents : keys'[a][b] = keys[a][b] \/ (a = m.to /\ b = m.from)
    BY <1>1, <2>3 DEF DidInv, TypeOK, Pairs
  <2>5. More
    <3> SUFFICES ASSUME NEW a \in Agents, NEW b \in Agents
                 PROVE  keys'[a][b] >= keys[a][b] /\ accepts'[a][b] >= accepts[a][b]
      BY DEF More
    <3>1. keys[a][b] \in Nat /\ accepts[a][b] \in Nat
      BY Counts DEF DidInv
    <3> QED BY <1>2, <2>4, <3>1
  <2>6. TaskKeys(r)'
    <3>1. m.doc > 0 /\ m.doc <= keys[m.from][m.to]
      BY <1>1, <1>2 DEF MessageOK, MessageKeys
    <3>2. keys'[m.from][m.to] >= keys[m.from][m.to] /\ keys'[m.from][m.to] \in Nat
      BY <1>1, <2>5, Bounds DEF More, TypeOK, Pairs
    <3> QED BY <1>1, <2>2, <2>4, <3>1, <3>2 DEF TaskKeys
  <2> QED BY <1>2, <2>3, <2>5, <2>6, KeyStep DEF DidInv
<1> QED BY <1>3, <1>4

LEMMA KeysTakeResponse ==
    ASSUME DidInv, KeyInv, TypeOK', NEW m \in wire, TakeResponse(m),
           UNCHANGED <<accepts, sends, polls, up>>
    PROVE  KeyInv'
<1>1. /\ MessageOK(m) /\ MessageKeys(m) /\ m.from \in Agents /\ m.to \in Agents
      /\ m.kid \in Nat /\ keys[m.to][m.from] \in Nat
  BY KeyMessage
<1>2. /\ m.kind = "respond" /\ wire' = wire \ {m}
      /\ UNCHANGED <<keys, docs, peers, accepts>>
  BY DEF TakeResponse, Take, stores
<1>3. PICK r : r = [Begun(m.to, m.from, "confirm", "find") EXCEPT
                   !.exch = m.exch, !.key = m.doc, !.kid = m.kid, !.ok = m.ok]
  OBVIOUS
<1>4. /\ r.me = m.to /\ r.peer = m.from /\ r.kind = "confirm" /\ r.at = "find"
      /\ r.exch = m.exch /\ r.key = m.doc /\ r.kid = m.kid /\ r.ok = m.ok
      /\ r.pub = 0 /\ r.prv = 0
  BY <1>3 DEF Begun
<1>5. TaskKeys(r)
  <2>1. /\ m.doc > 0 /\ m.exch.to = m.from
        /\ m.doc <= keys[m.from][m.to] /\ m.kid > 0 /\ m.kid <= keys[m.to][m.from]
    BY <1>1, <1>2 DEF MessageOK, MessageKeys
  <2>2. Once(m.to, m.from) => m.ok
    BY <1>1, OnceOneKey DEF MessageKeys
  <2>3. keys[m.to][m.from] > 0
    BY <1>1, <2>1
  <2> QED BY <1>1, <1>4, <2>1, <2>2, <2>3 DEF TaskKeys
<1>6. TaskKeys(r)'
  BY <1>2, <1>5 DEF TaskKeys, Once
<1>7. tasks' = tasks \cup {r}
  BY <1>3 DEF TakeResponse
<1> QED BY <1>2, <1>6, <1>7, KeyMove DEF DidInv

LEMMA KeysTakeMessage ==
    ASSUME DidInv, KeyInv, TypeOK', NEW m \in wire, TakeMessage(m),
           UNCHANGED <<accepts, sends, polls, up>>
    PROVE  KeyInv'
<1>1. /\ MessageKeys(m) /\ m.from \in Agents /\ m.to \in Agents
      /\ m.kid \in Nat /\ keys[m.to][m.from] \in Nat /\ keys[m.from][m.to] \in Nat
  BY KeyMessage
<1>2. /\ m.kind = "send" /\ wire' = wire \ {m}
      /\ UNCHANGED <<keys, docs, peers, accepts>>
  BY DEF TakeMessage, Take, stores
<1>3. PICK r : r = [Begun(m.to, m.from, "read", "public") EXCEPT !.kid = m.kid, !.ok = m.ok]
  OBVIOUS
<1>4. /\ r.me = m.to /\ r.peer = m.from /\ r.kind = "read" /\ r.at = "public"
      /\ r.key = 0 /\ r.kid = m.kid /\ r.ok = m.ok
      /\ r.pub = 0 /\ r.prv = 0
  BY <1>3 DEF Begun
<1>5. TaskKeys(r)
  <2>1. m.kid > 0 /\ m.kid <= keys[m.to][m.from]
    BY <1>1, <1>2 DEF MessageKeys
  <2>2. Once(m.to, m.from) => m.ok
    BY <1>1, OnceOneKey DEF MessageKeys
  <2>3. keys[m.to][m.from] > 0
    BY <1>1, <2>1
  <2> QED BY <1>1, <1>4, <2>1, <2>2, <2>3 DEF TaskKeys
<1>6. TaskKeys(r)'
  BY <1>2, <1>5 DEF TaskKeys, Once
<1>7. \A v \in tasks' : v \in tasks \/ v = r
  BY <1>3 DEF TakeMessage
<1> QED BY <1>2, <1>6, <1>7, KeyMove DEF DidInv

LEMMA KeysStartAccept ==
    ASSUME DidInv, KeyInv, TypeOK', NEW a \in Agents, NEW b \in Agents, NEW sync \in BOOLEAN,
           StartAccept(a, b, sync)
    PROVE  KeyInv'
<1>1. /\ accepts' = [accepts EXCEPT ![a][b] = @ + 1]
      /\ keys' = [keys EXCEPT ![a][b] = @ + 1]
      /\ UNCHANGED <<docs, peers, wire>>
  BY DEF StartAccept, GenerateKeys
<1>2. /\ accepts'[a][b] = accepts[a][b] + 1 /\ keys'[a][b] = keys[a][b] + 1
      /\ \A c, d \in Agents : keys'[c][d] = keys[c][d] \/ (c = a /\ d = b)
      /\ \A c, d \in Agents : accepts'[c][d] = accepts[c][d] \/ (c = a /\ d = b)
  BY <1>1 DEF DidInv, TypeOK, Pairs
<1>3. \A c, d \in Agents : keys[c][d] \in Nat /\ accepts[c][d] \in Nat
  BY Counts DEF DidInv
<1>4. More
  <2> SUFFICES ASSUME NEW c \in Agents, NEW d \in Agents
               PROVE  keys'[c][d] >= keys[c][d] /\ accepts'[c][d] >= accepts[c][d]
    BY DEF More
  <2> QED BY <1>2, <1>3
<1>5. \A c, d \in Agents : accepts'[c][d] = accepts[c][d] \/ keys'[c][d] > 0
  BY <1>2, <1>3
<1>6. PICK t : t = [Begun(a, b, "accept", "public") EXCEPT
                      !.exch.n = accepts'[a][b], !.sync = sync]
  OBVIOUS
<1>7. /\ t.me = a /\ t.peer = b /\ t.kind = "accept" /\ t.at = "public"
      /\ t.pub = 0 /\ t.prv = 0 /\ t.key = 0
  BY <1>6 DEF Begun
<1>8. TaskKeys(t)'
  <2>1. keys'[b][a] \in Nat /\ keys'[a][b] \in Nat
    BY Bounds DEF TypeOK, Pairs
  <2> QED BY <1>2, <1>3, <1>7, <2>1 DEF TaskKeys
<1>9. tasks' = tasks \cup {t}
  BY <1>6 DEF StartAccept
<1> QED BY <1>1, <1>4, <1>5, <1>8, <1>9, KeyStep DEF DidInv

LEMMA KeysStartSend ==
    ASSUME DidInv, KeyInv, TypeOK', NEW a \in Agents, NEW b \in Agents, StartSend(a, b)
    PROVE  KeyInv'
<1>1. UNCHANGED <<keys, docs, peers, wire, accepts>> /\ peers[a][b].key > 0
  BY DEF StartSend, stores
<1>2. PICK t : t = [Begun(a, b, "send", "public") EXCEPT !.key = peers[a][b].key]
  OBVIOUS
<1>3. /\ t.me = a /\ t.peer = b /\ t.kind = "send" /\ t.at = "public"
      /\ t.pub = 0 /\ t.prv = 0 /\ t.key = peers[a][b].key
  BY <1>2 DEF Begun
<1>4. keys[a][b] \in Nat /\ keys[a][b] > 0 /\ peers[a][b].key <= keys[b][a]
  BY <1>1, Counts DEF DidInv, KeyInv, PeerKeys
<1>5. TaskKeys(t)'
  BY <1>1, <1>3, <1>4 DEF TaskKeys
<1>6. tasks' = tasks \cup {t}
  BY <1>2 DEF StartSend
<1> QED BY <1>1, <1>5, <1>6, KeyMove DEF DidInv

LEMMA NextKeys == DidInv /\ KeyInv /\ [Next]_vars => KeyInv'
<1> SUFFICES ASSUME DidInv, KeyInv, [Next]_vars PROVE KeyInv'
  OBVIOUS
<1>1. TypeOK'
  BY NextDid DEF DidInv
<1>2. ASSUME UNCHANGED <<stores, tasks, wire, accepts>> PROVE KeyInv'
  <2>1. UNCHANGED <<keys, docs, peers, tasks, wire, accepts>>
    BY <1>2 DEF stores
  <2>2. More
    BY <2>1, Counts DEF More, DidInv
  <2> QED BY <1>1, <2>1, <2>2, KeyStep DEF DidInv
<1>3. ASSUME NEW a \in Agents, NEW b \in Agents, Command(a, b) \/ Ask(a, b) \/ TimeOut(a, b)
      PROVE  KeyInv'
  <2>1. CASE StartQuery(a, b) \/ Ask(a, b) \/ TimeOut(a, b)
    BY <1>2, <2>1 DEF StartQuery, Ask, TimeOut
  <2> QED BY <1>1, <1>3, <2>1, KeysStartAccept, KeysStartSend DEF Command
<1>4. ASSUME NEW t \in tasks, Step(t) PROVE KeyInv'
  <2>1. UNCHANGED <<accepts, sends, polls, up>>
    BY <1>4 DEF Step
  <2>2. CASE ReadPublic(t) \/ ReadPrivate(t) \/ AddDid(t) \/ SendOut(t)
    BY <1>1, <2>1, <2>2, KeysRead, KeysAddDid, KeysSendOut
  <2>3. CASE StoreInviter(t) \/ StoreAccepter(t) \/ StoreServices(t)
    BY <1>1, <2>1, <2>3, KeysStore
  <2>4. CASE FindPeer(t) \/ LoadChannel(t) \/ Signal(t)
    BY <1>1, <2>1, <2>4, KeysFindPeer, KeysLoad
  <2>5. CASE StoreChannel(t) \/ FinishSend(t) \/ OpenMessage(t)
    <3>1. /\ t.at \in {"sync", "sending", "open"} /\ UNCHANGED <<keys, docs, peers, wire>>
          /\ Goto(t, [t EXCEPT !.at = "wait"]) \/ Done(t)
      BY <2>5 DEF StoreChannel, FinishSend, OpenMessage, Acked, stores
    <3> QED BY <1>1, <2>1, <3>1, KeysKept
  <2> QED BY <1>4, <2>2, <2>3, <2>4, <2>5 DEF Step
<1>5. ASSUME NEW m \in wire, Receive(m) PROVE KeyInv'
  BY <1>1, <1>5, KeysTakeRequest, KeysTakeResponse, KeysTakeMessage DEF Receive
<1>6. CASE UNCHANGED vars
  BY <1>2, <1>6 DEF vars
<1> QED BY <1>3, <1>4, <1>5, <1>6 DEF Next

LEMMA KeysAlways == Spec => []KeyInv
BY InitKeys, NextKeys, DidInvAlways, PTL DEF Spec

-----------------------------------------------------------------------------
(* Messages. *)

LEMMA NextReadable == DidInv /\ DidInv' /\ KeyInv /\ OnceReadable /\ [Next]_vars => OnceReadable'
<1> SUFFICES ASSUME DidInv, TypeOK', KeyInv, OnceReadable, [Next]_vars PROVE OnceReadable'
  BY DEF DidInv
<1>1. \A a, b \in Agents : accepts'[a][b] >= accepts[a][b]
  <2> SUFFICES ASSUME NEW a \in Agents, NEW b \in Agents PROVE accepts'[a][b] >= accepts[a][b]
    OBVIOUS
  <2>1. accepts[a][b] \in Nat
    BY Counts DEF DidInv
  <2>2. CASE UNCHANGED accepts
    BY <2>1, <2>2
  <2>3. CASE \E c, d \in Agents, sync \in BOOLEAN : StartAccept(c, d, sync)
    <3>1. PICK c \in Agents, d \in Agents : accepts' = [accepts EXCEPT ![c][d] = @ + 1]
      BY <2>3 DEF StartAccept
    <3>2. accepts'[a][b] = accepts[a][b] \/ accepts'[a][b] = accepts[a][b] + 1
      BY <3>1 DEF DidInv, TypeOK, Pairs
    <3> QED BY <2>1, <3>2
  <2> QED BY <2>2, <2>3
       DEF Next, Command, StartSend, StartQuery, Ask, TimeOut, Step, Receive, vars
<1>2. ASSUME NEW a \in Agents, NEW b \in Agents, ~Once(a, b) PROVE ~Once(a, b)'
  <2>1. /\ accepts[a][b] \in Nat /\ accepts[b][a] \in Nat
        /\ accepts'[a][b] >= accepts[a][b] /\ accepts'[b][a] >= accepts[b][a]
    BY <1>1, Counts DEF DidInv
  <2>2. accepts'[a][b] \in Nat /\ accepts'[b][a] \in Nat
    BY Bounds DEF TypeOK, Pairs
  <2> QED BY <1>2, <2>1, <2>2 DEF Once
<1>3. ASSUME NEW p \in unread', p \notin unread
      PROVE  ~Once(p[1], p[2])
  <2>1. CASE \E m \in wire : TakeMessage(m)
    <3>1. PICK m \in wire : TakeMessage(m)
      BY <2>1
    <3>2. p = <<m.from, m.to>> /\ keys[m.to][m.from] # m.kid /\ m.kind = "send"
      BY <1>3, <3>1 DEF TakeMessage
    <3>3. /\ m.from \in Agents /\ m.to \in Agents /\ m.kid \in Nat
          /\ m.kid > 0 /\ m.kid <= keys[m.to][m.from]
      BY <3>2, KeyMessage DEF MessageKeys
    <3>4. ~Once(m.from, m.to)
      BY <3>2, <3>3, OnceOneKey
    <3> QED BY <3>2, <3>4
  <2>2. CASE \E t \in tasks : OpenMessage(t)
    <3>1. PICK t \in tasks : OpenMessage(t)
      BY <2>2
    <3>2. p = <<t.peer, t.me>> /\ ~Opens(t) /\ t.kind = "read" /\ t.at = "open"
      BY <1>3, <3>1 DEF OpenMessage
    <3>3. /\ t.me \in Agents /\ t.peer \in Agents
          /\ t.pub \in Nat /\ t.prv \in Nat /\ t.kid \in Nat
          /\ t.pub > 0 /\ t.prv > 0 /\ t.kid > 0
          /\ t.pub <= keys[t.me][t.peer] /\ t.prv <= keys[t.me][t.peer]
          /\ t.kid <= keys[t.me][t.peer] /\ (Once(t.me, t.peer) => t.ok)
      BY <3>2, KeyTask DEF TaskKeys
    <3>4. ~Once(t.me, t.peer)
      <4> SUFFICES ASSUME Once(t.me, t.peer) PROVE FALSE
        OBVIOUS
      <4>1. keys[t.me][t.peer] \in Nat /\ keys[t.me][t.peer] <= 1
        BY <3>3, OnceOneKey
      <4> QED BY <3>2, <3>3, <4>1 DEF Opens
    <3>5. ~Once(t.peer, t.me)
      BY <3>3, <3>4, OnceOneKey
    <3> QED BY <3>2, <3>5
  <2>3. ASSUME NEW a \in Agents, NEW b \in Agents, Command(a, b) \/ Ask(a, b) \/ TimeOut(a, b)
        PROVE  UNCHANGED unread
    BY <2>3 DEF Command, StartAccept, StartSend, StartQuery, Ask, TimeOut
  <2>4. ASSUME NEW t \in tasks, Step(t), ~OpenMessage(t) PROVE UNCHANGED unread
    <3>1. CASE ReadPublic(t) \/ ReadPrivate(t) \/ AddDid(t) \/ SendOut(t)
      BY <3>1 DEF ReadPublic, ReadPrivate, AddDid, SendOut
    <3>2. CASE StoreInviter(t) \/ StoreChannel(t) \/ FinishSend(t) \/ StoreAccepter(t)
      BY <3>2 DEF StoreInviter, StoreChannel, FinishSend, StoreAccepter
    <3>3. CASE FindPeer(t) \/ StoreServices(t) \/ LoadChannel(t) \/ Signal(t)
      BY <3>3 DEF FindPeer, StoreServices, LoadChannel, Signal
    <3> QED BY <2>4, <3>1, <3>2, <3>3 DEF Step
  <2>5. ASSUME NEW m \in wire, Receive(m), ~TakeMessage(m) PROVE UNCHANGED unread
    BY <2>5 DEF Receive, TakeRequest, TakeResponse
  <2>6. [Next]_vars => Next \/ UNCHANGED unread
    BY DEF vars
  <2> QED BY <1>3, <2>1, <2>2, <2>3, <2>4, <2>5, <2>6 DEF Next
<1>4. \A p \in unread : p[1] \in Agents /\ p[2] \in Agents
  BY DEF DidInv, TypeOK
<1>5. \A p \in unread' : p[1] \in Agents /\ p[2] \in Agents
  BY DEF TypeOK
<1> QED BY <1>2, <1>3, <1>4, <1>5 DEF OnceReadable

\* A text between two agents connected once is opened: the sender keeps the
\* only key the receiver has made for it, and the receiver's look-up by that
\* key and its two reads of the key store find that pair.
THEOREM OnceReadableAlways == Spec => []OnceReadable
<1>1. Init => OnceReadable
  BY DEF Init, OnceReadable
<1> QED BY <1>1, NextReadable, DidInvAlways, KeysAlways, PTL DEF Spec

-----------------------------------------------------------------------------
(* Stages of the only exchange of two agents.                              *)

\* a accepted b's invitation, once, and b never one of a's.
Single(a, b) == accepts[a][b] = 1 /\ accepts[b][a] = 0

The(a, b) == [by |-> a, to |-> b, n |-> 1]

\* Accept has not stored the inviter yet.
Unstored(a, b) ==
    \E t \in tasks : /\ t.me = a /\ t.peer = b /\ t.kind = "accept"
                     /\ t.at \in Early \cup {"sending"}

\* a's listen loop handles a message of b, and has come to one of the steps.
HandledAt(a, b, kind, steps) ==
    \E t \in tasks : t.me = a /\ t.peer = b /\ t.kind = kind /\ t.at \in steps

Responding(b, a) == \E m \in wire : m.from = b /\ m.to = a /\ m.kind = "respond"

\* The steps of processConnRes before and after it stores the services.
Opening == {"public", "private", "open"}
Opened == {"load", "signal"}

\* The accepter stores the inviter once, and only then can the response be
\* opened; the inviter stores the accepter after it has answered; and if the
\* retries of the response last long enough, the response is not lost.
Stage(a, b) ==
    /\ Unstored(a, b) =>
         /\ peers[a][b].exch.n = 0 /\ peers[a][b].key = 0
         /\ ~HandledAt(a, b, "confirm", Opening) /\ ~HandledAt(a, b, "confirm", Opened)
    /\ ~Unstored(a, b) => peers[a][b].exch = The(a, b)
    /\ \/ Asking(a, b)
       \/ HandledAt(b, a, "respond", Early) \/ HandledAt(b, a, "respond", {"sending"})
       \/ peers[b][a].exch = The(a, b) /\ peers[b][a].key > 0
    /\ HandledAt(a, b, "confirm", Opened) => peers[a][b].key > 0
    /\ Prompt =>
         \/ Asking(a, b) \/ HandledAt(b, a, "respond", Early) \/ Responding(b, a)
         \/ HandledAt(a, b, "confirm", {"find"}) \/ HandledAt(a, b, "confirm", Opening)
         \/ peers[a][b].key > 0

StageInv == \A a, b \in Agents : Single(a, b) => Stage(a, b)

\* The calls and handlers of that exchange, and its messages.
Ours(t, a, b) ==
    \/ t.kind \in {"accept", "confirm"} /\ t.me = a /\ t.peer = b
    \/ t.kind = "respond" /\ t.me = b /\ t.peer = a

OurMessage(m, a, b) ==
    \/ m.kind = "accept" /\ m.from = a /\ m.to = b
    \/ m.kind = "respond" /\ m.from = b /\ m.to = a

\* The stages do not tell t and u apart.
Alike(t, u) ==
    /\ u.me = t.me /\ u.peer = t.peer /\ u.kind = t.kind
    /\ t.kind = "confirm" =>
         /\ u.at \in Opening <=> t.at \in Opening
         /\ u.at \in Opened <=> t.at \in Opened
         /\ u.at = "find" <=> t.at = "find"
    /\ t.kind # "confirm" =>
         /\ u.at \in Early <=> t.at \in Early
         /\ u.at = "sending" <=> t.at = "sending"

\* No other exchange of the two has begun, in either direction.
LEMMA OnlyOurs ==
    ASSUME DidInv, KeyInv, NEW a \in Agents, NEW b \in Agents, Single(a, b)
    PROVE  /\ a # b /\ Once(a, b)
           /\ \A t \in tasks : /\ t.kind \in Exchanging
                               /\ (t.me = a /\ t.peer = b) \/ (t.me = b /\ t.peer = a)
                => Ours(t, a, b) /\ t.exch = The(a, b)
           /\ \A m \in wire : /\ m.kind \in {"accept", "respond"}
                              /\ (m.from = a /\ m.to = b) \/ (m.from = b /\ m.to = a)
                => OurMessage(m, a, b) /\ m.exch = The(a, b)
<1>1. a # b /\ Once(a, b)
  BY DEF Single, Once
<1>2. ASSUME NEW e \in Exch, Begins(e), (e.by = a /\ e.to = b) \/ (e.by = b /\ e.to = a)
      PROVE  e.by = a /\ e.to = b /\ e = The(a, b)
  <2>1. e.n \in Nat
    BY Bounds DEF Exch
  <2>2. e.by = a /\ e.to = b /\ e.n = 1
    BY <1>2, <2>1 DEF Begins, Single
  <2> QED BY <2>2 DEF Exch, The
<1>3. ASSUME NEW t \in tasks, t.kind \in Exchanging,
             (t.me = a /\ t.peer = b) \/ (t.me = b /\ t.peer = a)
      PROVE  Ours(t, a, b) /\ t.exch = The(a, b)
  <2>1. /\ TaskOK(t) /\ TaskKeys(t) /\ t.exch \in Exch
    BY KeyTask DEF Task
  <2>2. Begins(t.exch)
    BY <1>3, <2>1 DEF TaskOK
  <2>3. \/ t.kind \in {"accept", "confirm"} /\ t.exch.by = t.me /\ t.exch.to = t.peer
        \/ t.kind = "respond" /\ t.exch.by = t.peer /\ t.exch.to = t.me
    BY <1>3, <2>1 DEF TaskOK, TaskKeys, Exchanging
  <2> QED BY <1>1, <1>2, <1>3, <2>1, <2>2, <2>3 DEF Ours
<1>4. ASSUME NEW m \in wire, m.kind \in {"accept", "respond"},
             (m.from = a /\ m.to = b) \/ (m.from = b /\ m.to = a)
      PROVE  OurMessage(m, a, b) /\ m.exch = The(a, b)
  <2>1. MessageOK(m) /\ m.exch \in Exch
    BY InvMessage
  <2> QED BY <1>1, <1>2, <1>4, <2>1 DEF OurMessage, MessageOK
<1> QED BY <1>1, <1>3, <1>4

\* A step that the exchange does not notice.
LEMMA StageSame ==
    ASSUME NEW a, NEW b, Stage(a, b),
           peers'[a][b] = peers[a][b], peers'[b][a] = peers[b][a],
           \A t \in tasks : Ours(t, a, b) => \E u \in tasks' : Alike(t, u),
           \A u \in tasks' : Ours(u, a, b) => \E t \in tasks : Alike(t, u),
           \A m : OurMessage(m, a, b) => (m \in wire <=> m \in wire')
    PROVE  Stage(a, b)'
<1>1. \A t, u : Alike(t, u) => (Ours(t, a, b) <=> Ours(u, a, b))
  BY DEF Alike, Ours
<1>2. Unstored(a, b)' <=> Unstored(a, b)
  <2>1. ASSUME NEW t, NEW u, Alike(t, u), t.kind = "accept"
        PROVE  u.at \in Early \cup {"sending"} <=> t.at \in Early \cup {"sending"}
    BY <2>1 DEF Alike
  <2> QED BY <2>1 DEF Unstored, Ours, Alike
<1>3. Asking(a, b)' <=> Asking(a, b)
  BY DEF Asking, Ours, Alike, OurMessage
<1>4. /\ HandledAt(b, a, "respond", Early)' <=> HandledAt(b, a, "respond", Early)
      /\ HandledAt(b, a, "respond", {"sending"})' <=> HandledAt(b, a, "respond", {"sending"})
  BY DEF HandledAt, Ours, Alike
<1>5. /\ HandledAt(a, b, "confirm", {"find"})' <=> HandledAt(a, b, "confirm", {"find"})
      /\ HandledAt(a, b, "confirm", Opening)' <=> HandledAt(a, b, "confirm", Opening)
      /\ HandledAt(a, b, "confirm", Opened)' <=> HandledAt(a, b, "confirm", Opened)
  BY DEF HandledAt, Ours, Alike
<1>6. Responding(b, a)' <=> Responding(b, a)
  BY DEF Responding, OurMessage
<1> QED BY <1>2, <1>3, <1>4, <1>5, <1>6 DEF Stage

LEMMA StageGo ==
    ASSUME NEW a, NEW b, Stage(a, b), NEW t \in tasks, NEW u,
           Goto(t, u), Alike(t, u) \/ (~Ours(t, a, b) /\ ~Ours(u, a, b)),
           peers'[a][b] = peers[a][b], peers'[b][a] = peers[b][a],
           \A m : OurMessage(m, a, b) => (m \in wire <=> m \in wire')
    PROVE  Stage(a, b)'
<1>1. \A v : Alike(v, v)
  BY DEF Alike
<1>2. \A v \in tasks : Ours(v, a, b) => \E w \in tasks' : Alike(v, w)
  BY <1>1 DEF Goto
<1>3. \A w \in tasks' : Ours(w, a, b) => \E v \in tasks : Alike(v, w)
  BY <1>1 DEF Goto
<1> QED BY <1>2, <1>3, StageSame

\* A call or handler of other agents, or of a message between the two, ends,
\* or one begins.
LEMMA StageForeign ==
    ASSUME NEW a, NEW b, Stage(a, b),
           \A t \in tasks : Ours(t, a, b) => t \in tasks',
           \A t \in tasks' : Ours(t, a, b) => t \in tasks,
           peers'[a][b] = peers[a][b], peers'[b][a] = peers[b][a],
           \A m : OurMessage(m, a, b) => (m \in wire <=> m \in wire')
    PROVE  Stage(a, b)'
<1>1. \A v : Alike(v, v)
  BY DEF Alike
<1> QED BY <1>1, StageSame

LEMMA StageRead ==
    ASSUME DidInv, NEW a \in Agents, NEW b \in Agents, Stage(a, b), NEW t \in tasks,
           ReadPublic(t) \/ ReadPrivate(t) \/ AddDid(t) \/ StoreChannel(t)
    PROVE  Stage(a, b)'
<1>1. t \in Task /\ TaskOK(t)
  BY InvTask
<1>2. UNCHANGED <<peers, wire>>
  BY DEF ReadPublic, ReadPrivate, AddDid, StoreChannel, stores
<1>3. ASSUME NEW u, Goto(t, u), Alike(t, u) \/ (~Ours(t, a, b) /\ ~Ours(u, a, b))
      PROVE  Stage(a, b)'
  BY <1>2, <1>3, StageGo
<1>4. CASE ReadPublic(t)
  <2>1. PICK u : u = [t EXCEPT !.pub = keys[t.me][t.peer], !.at = "private"]
    OBVIOUS
  <2>2. u.me = t.me /\ u.peer = t.peer /\ u.kind = t.kind /\ u.at = "private"
    BY <1>1, <2>1 DEF Task
  <2>3. Alike(t, u)
    BY <1>4, <2>2 DEF Alike, ReadPublic, Early, Opening, Opened
  <2> QED BY <1>3, <1>4, <2>1, <2>3 DEF ReadPublic
<1>5. CASE ReadPrivate(t)
  <2>1. PICK at : at = CASE t.kind \in {"accept", "respond"} -> "did"
                         [] t.kind = "send" -> "send"
                         [] OTHER -> "open"
    OBVIOUS
  <2>2. PICK u : u = [t EXCEPT !.prv = keys[t.me][t.peer], !.at = at]
    OBVIOUS
  <2>3. u.me = t.me /\ u.peer = t.peer /\ u.kind = t.kind /\ u.at = at
    BY <1>1, <2>2 DEF Task
  <2>4. Goto(t, u) /\ t.at = "private"
    BY <1>5, <2>1, <2>2 DEF ReadPrivate
  <2>5. CASE t.kind \in {"accept", "respond"}
    <3>1. at = "did"
      BY <2>1, <2>5
    <3> QED BY <1>3, <2>3, <2>4, <2>5, <3>1 DEF Alike, Early
  <2>6. CASE t.kind = "confirm"
    <3>1. at = "open"
      BY <2>1, <2>6
    <3> QED BY <1>3, <2>3, <2>4, <2>6, <3>1 DEF Alike, Opening, Opened
  <2>7. CASE t.kind \notin {"accept", "respond", "confirm"}
    BY <1>3, <2>3, <2>4, <2>7 DEF Ours
  <2> QED BY <2>5, <2>6, <2>7
<1>6. CASE AddDid(t)
  <2>1. PICK u : u = [t EXCEPT !.at = "send"]
    OBVIOUS
  <2>2. u.me = t.me /\ u.peer = t.peer /\ u.kind = t.kind /\ u.at = "send"
    BY <1>1, <2>1 DEF Task
  <2>3. t.at = "did" /\ t.kind # "confirm"
    BY <1>1, <1>6 DEF AddDid, TaskOK
  <2> QED BY <1>3, <1>6, <2>1, <2>2, <2>3 DEF AddDid, Alike, Early
<1>7. CASE StoreChannel(t)
  <2>1. PICK u : u = [t EXCEPT !.at = "wait"]
    OBVIOUS
  <2>2. u.me = t.me /\ u.peer = t.peer /\ u.kind = t.kind /\ u.at = "wait"
    BY <1>1, <2>1 DEF Task
  <2>3. t.at = "sync" /\ t.kind # "confirm"
    BY <1>1, <1>7 DEF StoreChannel, TaskOK
  <2> QED BY <1>3, <1>7, <2>1, <2>2, <2>3 DEF StoreChannel, Alike, Early
<1> QED BY <1>4, <1>5, <1>6, <1>7

LEMMA StageSendOut ==
    ASSUME DidInv, NEW a \in Agents, NEW b \in Agents, Stage(a, b), NEW t \in tasks,
           SendOut(t)
    PROVE  Stage(a, b)'
<1>1. t \in Task /\ TaskOK(t)
  BY InvTask
<1>2. PICK u, m : u = [t EXCEPT !.at = "sending"] /\ m = Packed(t)
  OBVIOUS
<1>3. /\ u.me = t.me /\ u.peer = t.peer /\ u.kind = t.kind /\ u.at = "sending"
      /\ m.from = t.me /\ m.to = t.peer /\ m.kind = t.kind
  BY <1>1, <1>2 DEF Task, Packed
<1>4. /\ t.at = "send" /\ t.kind \in {"accept", "respond", "send"} /\ UNCHANGED peers
      /\ Goto(t, u) /\ wire' = wire \cup {m}
  BY <1>1, <1>2 DEF SendOut, TaskOK, stores
<1>5. CASE ~Ours(t, a, b)
  <2>1. ~Ours(u, a, b) /\ ~OurMessage(m, a, b)
    BY <1>3, <1>4, <1>5 DEF Ours, OurMessage
  <2> QED BY <1>4, <1>5, <2>1, StageGo
<1>6. CASE Ours(t, a, b)
  <2>1. \A v \in tasks : v \in tasks' \/ v = t
    BY <1>4 DEF Goto
  <2>2. \A v \in tasks' : v \in tasks \/ v = u
    BY <1>4 DEF Goto
  <2>3. u \in tasks' /\ m \in wire' /\ \A n \in wire : n \in wire'
    BY <1>4 DEF Goto
  <2>4. /\ HandledAt(a, b, "confirm", {"find"})' <=> HandledAt(a, b, "confirm", {"find"})
        /\ HandledAt(a, b, "confirm", Opening)' <=> HandledAt(a, b, "confirm", Opening)
        /\ HandledAt(a, b, "confirm", Opened)' <=> HandledAt(a, b, "confirm", Opened)
    BY <1>3, <1>4, <2>1, <2>2 DEF HandledAt
  <2>5. Responding(b, a) => Responding(b, a)'
    BY <2>3 DEF Responding
  <2>6. CASE t.kind = "accept"
    <3>1. Unstored(a, b) /\ Unstored(a, b)'
      BY <1>3, <1>4, <1>6, <2>3, <2>6 DEF Unstored, Ours, Early
    <3>2. Asking(a, b)'
      BY <1>3, <1>6, <2>3, <2>6 DEF Asking, Ours
    <3> QED BY <1>4, <2>4, <3>1, <3>2 DEF Stage
  <2>7. CASE t.kind = "respond"
    <3>1. Unstored(a, b)' <=> Unstored(a, b)
      BY <1>3, <2>1, <2>2, <2>7 DEF Unstored
    <3>2. HandledAt(b, a, "respond", {"sending"})' /\ Responding(b, a)'
      BY <1>3, <1>6, <2>3, <2>7 DEF HandledAt, Responding, Ours
    <3> QED BY <1>4, <2>4, <3>1, <3>2 DEF Stage
  <2> QED BY <1>4, <1>6, <2>6, <2>7 DEF Ours
<1> QED BY <1>5, <1>6

\* A peer that is stored for another exchange is another pair's.
LEMMA PairKept ==
    ASSUME DidInv, KeyInv, NEW a \in Agents, NEW b \in Agents, Single(a, b),
           NEW t \in tasks, t.kind \in Exchanging, ~Ours(t, a, b), NEW p,
           peers' = [peers EXCEPT ![t.me][t.peer] = p]
    PROVE  peers'[a][b] = peers[a][b] /\ peers'[b][a] = peers[b][a]
<1>1. t.me \in Agents /\ t.peer \in Agents
  BY KeyTask
<1>2. \A c, d \in Agents : peers'[c][d] = peers[c][d] \/ (c = t.me /\ d = t.peer)
  BY <1>1 DEF DidInv, TypeOK, Pairs
<1> QED BY <1>2, OnlyOurs

\* Accept stores the inviter: its request has been taken, and the response
\* has not been looked at.
LEMMA StageStoreInviter ==
    ASSUME DidInv, KeyInv, NEW a \in Agents, NEW b \in Agents, Single(a, b), Stage(a, b),
           NEW t \in tasks, StoreInviter(t)
    PROVE  Stage(a, b)'
<1>1. /\ t \in Task /\ t.kind = "accept" /\ t.at = "sending" /\ t.kind \in Exchanging
      /\ UNCHANGED wire
      /\ peers' = [peers EXCEPT ![t.me][t.peer] = [exch |-> t.exch, key |-> 0]]
  BY InvTask DEF StoreInviter, Acked, Exchanging
<1>2. PICK u : u = [t EXCEPT !.at = "sync"]
  OBVIOUS
<1>3. /\ u.me = t.me /\ u.peer = t.peer /\ u.kind = t.kind /\ u.at = "sync"
      /\ Goto(t, u) \/ Done(t)
  BY <1>1, <1>2 DEF Task, StoreInviter
<1>4. /\ \A v \in tasks : v \in tasks' \/ v = t
      /\ \A v \in tasks' : (v \in tasks /\ v # t) \/ v = u
  BY <1>1, <1>3 DEF Goto, Done
<1>5. CASE ~Ours(t, a, b)
  <2>1. ~Ours(u, a, b)
    BY <1>1, <1>3, <1>5 DEF Ours
  <2>2. peers'[a][b] = peers[a][b] /\ peers'[b][a] = peers[b][a]
    BY <1>1, <1>5, PairKept
  <2> QED BY <1>1, <1>4, <1>5, <2>1, <2>2, StageForeign
<1>6. CASE Ours(t, a, b)
  <2>1. t.me = a /\ t.peer = b
    BY <1>1, <1>6 DEF Ours
  <2>2. peers'[a][b].exch = The(a, b) /\ peers'[b][a] = peers[b][a]
    <3>1. /\ peers'[a][b].exch = t.exch /\ peers'[a][b].key = 0
          /\ peers'[b][a] = peers[b][a]
      BY <1>1, <2>1, OnlyOurs DEF DidInv, TypeOK, Pairs
    <3>2. t.exch = The(a, b)
      BY <1>1, <2>1, OnlyOurs
    <3> QED BY <3>1, <3>2
  <2>3. \A v \in tasks : v.kind = "accept" /\ v.me = a /\ v.peer = b => v = t
    BY <1>1, <2>1 DEF DidInv, CountInv
  <2>4. Unstored(a, b) /\ ~Unstored(a, b)'
    BY <1>1, <1>3, <1>4, <2>1, <2>3 DEF Unstored, Early
  <2>5. ~Asking(a, b)
    BY <1>1, <2>1, <2>3 DEF Asking, Early, StoreInviter, Acked
  <2>6. /\ HandledAt(a, b, "confirm", {"find"})' <=> HandledAt(a, b, "confirm", {"find"})
        /\ HandledAt(a, b, "confirm", Opening)' <=> HandledAt(a, b, "confirm", Opening)
        /\ HandledAt(a, b, "confirm", Opened)' <=> HandledAt(a, b, "confirm", Opened)
        /\ HandledAt(b, a, "respond", Early)' <=> HandledAt(b, a, "respond", Early)
        /\ HandledAt(b, a, "respond", {"sending"})' <=> HandledAt(b, a, "respond", {"sending"})
    BY <1>1, <1>3, <1>4 DEF HandledAt
  <2>7. Responding(b, a) => Responding(b, a)'
    BY <1>1 DEF Responding
  <2>8. ~(peers[a][b].key > 0)
    BY <2>4 DEF Stage
  <2> QED BY <2>2, <2>4, <2>5, <2>6, <2>7, <2>8 DEF Stage
<1> QED BY <1>5, <1>6

LEMMA StageStoreAccepter ==
    ASSUME DidInv, KeyInv, NEW a \in Agents, NEW b \in Agents, Single(a, b), Stage(a, b),
           NEW t \in tasks, StoreAccepter(t)
    PROVE  Stage(a, b)'
<1>1. /\ t \in Task /\ TaskOK(t) /\ t.kind = "respond" /\ t.at = "sending"
      /\ t.kind \in Exchanging /\ UNCHANGED wire /\ tasks' = tasks \ {t}
      /\ peers' = [peers EXCEPT ![t.me][t.peer] = [exch |-> t.exch, key |-> t.key]]
  BY InvTask DEF StoreAccepter, Acked, Exchanging, Done
<1>2. CASE ~Ours(t, a, b)
  <2>1. peers'[a][b] = peers[a][b] /\ peers'[b][a] = peers[b][a]
    BY <1>1, <1>2, PairKept
  <2> QED BY <1>1, <1>2, <2>1, StageForeign
<1>3. CASE Ours(t, a, b)
  <2>1. t.me = b /\ t.peer = a /\ t.key > 0
    BY <1>1, <1>3 DEF Ours, TaskOK
  <2>2. /\ peers'[b][a].exch = The(a, b) /\ peers'[b][a].key = t.key
        /\ peers'[a][b] = peers[a][b]
    <3>1. /\ peers'[b][a].exch = t.exch /\ peers'[b][a].key = t.key
          /\ peers'[a][b] = peers[a][b]
      BY <1>1, <2>1, OnlyOurs DEF DidInv, TypeOK, Pairs
    <3>2. t.exch = The(a, b)
      BY <1>1, <2>1, OnlyOurs
    <3> QED BY <3>1, <3>2
  <2>3. /\ Unstored(a, b)' <=> Unstored(a, b)
        /\ Asking(a, b)' <=> Asking(a, b)
    BY <1>1 DEF Unstored, Asking
  <2>4. /\ HandledAt(a, b, "confirm", {"find"})' <=> HandledAt(a, b, "confirm", {"find"})
        /\ HandledAt(a, b, "confirm", Opening)' <=> HandledAt(a, b, "confirm", Opening)
        /\ HandledAt(a, b, "confirm", Opened)' <=> HandledAt(a, b, "confirm", Opened)
        /\ HandledAt(b, a, "respond", Early) => HandledAt(b, a, "respond", Early)'
    BY <1>1 DEF HandledAt, Early
  <2>5. Responding(b, a) => Responding(b, a)'
    BY <1>1 DEF Responding
  <2> QED BY <2>1, <2>2, <2>3, <2>4, <2>5 DEF Stage
<1> QED BY <1>2, <1>3

\* The look-up finds the inviter, unless the accept has not stored it; the
\* retries that outlast the accept do not end then.
LEMMA StageFindPeer ==
    ASSUME DidInv, KeyInv, NEW a \in Agents, NEW b \in Agents, Single(a, b), Stage(a, b),
           NEW t \in tasks, FindPeer(t)
    PROVE  Stage(a, b)'
<1>1. /\ t \in Task /\ TaskOK(t) /\ TaskKeys(t) /\ t.kind = "confirm" /\ t.at = "find"
      /\ t.me \in Agents /\ t.peer \in Agents /\ t.kind \in Exchanging
      /\ UNCHANGED <<peers, wire>>
  BY KeyTask DEF FindPeer, TaskOK, stores, Exchanging
<1>2. ASSUME Ours(t, a, b) PROVE t.me = a /\ t.peer = b /\ t.exch = The(a, b)
  <2>1. t.me = a /\ t.peer = b
    BY <1>1, <1>2 DEF Ours
  <2> QED BY <1>1, <2>1, OnlyOurs
<1>3. CASE \E c \in PeersByExch(t.me, t.exch) :
               Goto(t, [t EXCEPT !.peer = c, !.at = "public"])
  <2>1. PICK c \in Agents : /\ peers[t.me][c].exch = t.exch
                            /\ Goto(t, [t EXCEPT !.peer = c, !.at = "public"])
    BY <1>3 DEF PeersByExch
  <2>2. PeerOK(t.me, c)
    BY <1>1 DEF DidInv, StateInv
  <2>3. c = t.peer
    BY <1>1, <2>1, <2>2 DEF PeerOK, TaskOK, TaskKeys
  <2>4. PICK u : u = [t EXCEPT !.peer = c, !.at = "public"]
    OBVIOUS
  <2>5. u.me = t.me /\ u.peer = t.peer /\ u.kind = t.kind /\ u.at = "public" /\ Goto(t, u)
    BY <1>1, <2>1, <2>3, <2>4 DEF Task
  <2>6. CASE ~Ours(t, a, b)
    <3>1. ~Ours(u, a, b)
      BY <2>5, <2>6 DEF Ours
    <3> QED BY <1>1, <2>5, <2>6, <3>1, StageGo
  <2>7. CASE Ours(t, a, b)
    <3>1. peers[a][b].exch = The(a, b) /\ The(a, b).n = 1
      BY <1>2, <2>1, <2>3, <2>7 DEF The
    <3>2. ~Unstored(a, b)
      BY <3>1 DEF Stage
    <3>3. /\ \A v \in tasks : v \in tasks' \/ v = t
          /\ \A v \in tasks' : v \in tasks \/ v = u
          /\ u \in tasks'
      BY <2>5 DEF Goto
    <3>4. /\ Unstored(a, b)' <=> Unstored(a, b)
          /\ Asking(a, b)' <=> Asking(a, b)
      BY <1>1, <2>5, <3>3 DEF Unstored, Asking
    <3>5. /\ HandledAt(b, a, "respond", Early)' <=> HandledAt(b, a, "respond", Early)
          /\ HandledAt(b, a, "respond", {"sending"})' <=> HandledAt(b, a, "respond", {"sending"})
          /\ HandledAt(a, b, "confirm", Opened)' <=> HandledAt(a, b, "confirm", Opened)
      BY <1>1, <2>5, <3>3 DEF HandledAt, Opened
    <3>6. HandledAt(a, b, "confirm", Opening)'
      BY <1>1, <1>2, <2>5, <2>7, <3>3 DEF HandledAt, Opening
    <3> QED BY <1>1, <3>1, <3>2, <3>4, <3>5, <3>6 DEF Stage
  <2> QED BY <2>6, <2>7
<1>4. CASE /\ PeersByExch(t.me, t.exch) = {}
           /\ Prompt => ~\E w \in tasks : w.kind = "accept" /\ w.exch = t.exch
           /\ Done(t)
  <2>1. tasks' = tasks \ {t}
    BY <1>4 DEF Done
  <2>2. CASE ~Ours(t, a, b)
    BY <1>1, <2>1, <2>2, StageForeign
  <2>3. CASE Ours(t, a, b)
    <3>1. peers[a][b].exch # The(a, b)
      BY <1>2, <1>4, <2>3 DEF PeersByExch
    <3>2. PICK w \in tasks : w.me = a /\ w.peer = b /\ w.kind = "accept"
      BY <3>1 DEF Stage, Unstored
    <3>3. w.exch = The(a, b)
      BY <3>2, OnlyOurs DEF Exchanging
    <3>4. ~Prompt
      BY <1>2, <1>4, <2>3, <3>2, <3>3
    <3>5. /\ Unstored(a, b)' <=> Unstored(a, b)
          /\ Asking(a, b)' <=> Asking(a, b)
      BY <1>1, <2>1 DEF Unstored, Asking
    <3>6. /\ HandledAt(b, a, "respond", Early)' <=> HandledAt(b, a, "respond", Early)
          /\ HandledAt(b, a, "respond", {"sending"})' <=> HandledAt(b, a, "respond", {"sending"})
          /\ HandledAt(a, b, "confirm", Opened)' => HandledAt(a, b, "confirm", Opened)
          /\ HandledAt(a, b, "confirm", Opening)' => HandledAt(a, b, "confirm", Opening)
      BY <1>1, <2>1 DEF HandledAt
    <3> QED BY <1>1, <3>4, <3>5, <3>6 DEF Stage
  <2> QED BY <2>2, <2>3
<1> QED BY <1>3, <1>4 DEF FindPeer

\* The response opens with the only key pair there is.
LEMMA StageStoreServices ==
    ASSUME DidInv, KeyInv, NEW a \in Agents, NEW b \in Agents, Single(a, b), Stage(a, b),
           NEW t \in tasks, StoreServices(t)
    PROVE  Stage(a, b)'
<1>1. /\ t \in Task /\ TaskOK(t) /\ TaskKeys(t) /\ t.kind = "confirm" /\ t.at = "open"
      /\ t.kind \in Exchanging /\ UNCHANGED wire
      /\ t.pub \in Nat /\ t.prv \in Nat /\ t.kid \in Nat
      /\ keys[t.me][t.peer] \in Nat
  BY KeyTask DEF StoreServices, Exchanging
<1>2. ASSUME Ours(t, a, b) PROVE t.me = a /\ t.peer = b /\ Opens(t)
  <2>1. t.me = a /\ t.peer = b /\ t.ok /\ keys[a][b] <= 1
    BY <1>1, <1>2, OnlyOurs, OnceOneKey DEF Ours, TaskKeys
  <2>2. /\ t.pub > 0 /\ t.prv > 0 /\ t.kid > 0
        /\ t.pub <= keys[a][b] /\ t.prv <= keys[a][b] /\ t.kid <= keys[a][b]
    BY <1>1, <2>1 DEF TaskKeys
  <2>3. t.pub = 1 /\ t.prv = 1 /\ t.kid = 1
    BY <1>1, <2>1, <2>2
  <2> QED BY <2>1, <2>3 DEF Opens
<1>3. PICK u : u = [t EXCEPT !.at = "load"]
  OBVIOUS
<1>4. u.me = t.me /\ u.peer = t.peer /\ u.kind = t.kind /\ u.at = "load"
  BY <1>1, <1>3 DEF Task
<1>5. /\ \A v \in tasks : v \in tasks' \/ v = t
      /\ \A v \in tasks' : v \in tasks \/ v = u
      /\ peers' = peers \/
           peers' = [peers EXCEPT ![t.me][t.peer] = [exch |-> t.exch, key |-> t.key]]
  BY <1>3 DEF StoreServices, Goto, Done
<1>6. CASE ~Ours(t, a, b)
  <2>1. ~Ours(u, a, b)
    BY <1>4, <1>6 DEF Ours
  <2>2. peers'[a][b] = peers[a][b] /\ peers'[b][a] = peers[b][a]
    BY <1>1, <1>5, <1>6, PairKept
  <2> QED BY <1>1, <1>5, <1>6, <2>1, <2>2, StageForeign
<1>7. CASE Ours(t, a, b)
  <2>1. /\ peers' = [peers EXCEPT ![t.me][t.peer] = [exch |-> t.exch, key |-> t.key]]
        /\ u \in tasks'
    BY <1>2, <1>3, <1>7 DEF StoreServices, Goto
  <2>2. /\ peers'[a][b].exch = The(a, b) /\ peers'[a][b].key = t.key /\ t.key > 0
        /\ peers'[b][a] = peers[b][a]
    <3>1. /\ peers'[a][b].exch = t.exch /\ peers'[a][b].key = t.key
          /\ peers'[b][a] = peers[b][a]
      BY <1>1, <1>2, <1>7, <2>1, OnlyOurs DEF DidInv, TypeOK, Pairs
    <3>2. t.exch = The(a, b)
      BY <1>1, <1>2, <1>7, OnlyOurs
    <3> QED BY <1>1, <3>1, <3>2 DEF TaskOK
  <2>3. HandledAt(a, b, "confirm", Opening)
    BY <1>1, <1>2, <1>7 DEF HandledAt, Opening
  <2>4. ~Unstored(a, b)
    BY <2>3 DEF Stage
  <2>5. /\ Unstored(a, b)' <=> Unstored(a, b)
        /\ Asking(a, b)' <=> Asking(a, b)
    BY <1>1, <1>4, <1>5 DEF Unstored, Asking
  <2>6. /\ HandledAt(b, a, "respond", Early)' <=> HandledAt(b, a, "respond", Early)
        /\ HandledAt(b, a, "respond", {"sending"})' <=> HandledAt(b, a, "respond", {"sending"})
    BY <1>1, <1>4, <1>5 DEF HandledAt
  <2> QED BY <2>2, <2>4, <2>5, <2>6 DEF Stage
<1> QED BY <1>6, <1>7

LEMMA StageLoad ==
    ASSUME DidInv, NEW a \in Agents, NEW b \in Agents, Stage(a, b), NEW t \in tasks,
           LoadChannel(t) \/ Signal(t)
    PROVE  Stage(a, b)'
<1>1. /\ t \in Task /\ TaskOK(t) /\ t.at \in Opened /\ t.kind = "confirm"
      /\ UNCHANGED <<peers, wire>>
  BY InvTask DEF LoadChannel, Signal, TaskOK, Opened, stores
<1>2. CASE \E chan : Goto(t, [t EXCEPT !.at = "signal", !.chan = chan])
  <2>1. PICK chan : Goto(t, [t EXCEPT !.at = "signal", !.chan = chan])
    BY <1>2
  <2>2. PICK u : u = [t EXCEPT !.at = "signal", !.chan = chan]
    OBVIOUS
  <2>3. u.me = t.me /\ u.peer = t.peer /\ u.kind = t.kind /\ u.at = "signal"
    BY <1>1, <2>2 DEF Task
  <2>4. Alike(t, u)
    BY <1>1, <2>3 DEF Alike, Opening, Opened
  <2> QED BY <1>1, <2>1, <2>2, <2>4, StageGo
<1>3. CASE \E w \in tasks \cup {t} :
               /\ tasks' = tasks \ {t, w}
               /\ w = t \/ (w.kind = "accept" /\ w.at = "wait")
  <2>1. PICK w \in tasks \cup {t} : /\ tasks' = tasks \ {t, w}
                                    /\ w = t \/ (w.kind = "accept" /\ w.at = "wait")
    BY <1>3
  <2>2. /\ Unstored(a, b)' <=> Unstored(a, b)
        /\ Asking(a, b)' <=> Asking(a, b)
    BY <1>1, <2>1 DEF Unstored, Asking, Early
  <2>3. /\ HandledAt(b, a, "respond", Early)' <=> HandledAt(b, a, "respond", Early)
        /\ HandledAt(b, a, "respond", {"sending"})' <=> HandledAt(b, a, "respond", {"sending"})
        /\ HandledAt(a, b, "confirm", {"find"})' <=> HandledAt(a, b, "confirm", {"find"})
        /\ HandledAt(a, b, "confirm", Opening)' <=> HandledAt(a, b, "confirm", Opening)
        /\ HandledAt(a, b, "confirm", Opened)' => HandledAt(a, b, "confirm", Opened)
    BY <1>1, <2>1 DEF HandledAt, Opening, Opened
  <2>4. Responding(b, a)' <=> Responding(b, a)
    BY <1>1 DEF Responding
  <2> QED BY <1>1, <2>2, <2>3, <2>4 DEF Stage
<1>4. Signal(t) => \E w \in tasks : /\ tasks' = tasks \ {t, w}
                                    /\ w.kind = "accept" /\ w.at = "wait"
  BY DEF Signal, Readers
<1>5. LoadChannel(t) => \/ tasks' = tasks \ {t, t}
                        \/ \E chan : Goto(t, [t EXCEPT !.at = "signal", !.chan = chan])
  BY DEF LoadChannel, Done
<1> QED BY <1>2, <1>3, <1>4, <1>5

LEMMA StageTakeRequest ==
    ASSUME DidInv, KeyInv, NEW a \in Agents, NEW b \in Agents, Single(a, b), Stage(a, b),
           NEW m \in wire, TakeRequest(m)
    PROVE  Stage(a, b)'
<1>1. /\ MessageKeys(m) /\ m.kind = "accept" /\ wire' = wire \ {m} /\ UNCHANGED peers
  BY KeyMessage DEF TakeRequest, Take
<1>2. PICK r : r = [Begun(m.to, m.from, "respond", "public")
                      EXCEPT !.exch = m.exch, !.key = m.doc]
  OBVIOUS
<1>3. r.me = m.to /\ r.peer = m.from /\ r.kind = "respond" /\ r.at = "public"
  BY <1>2 DEF Begun
<1>4. tasks' = tasks \cup {r} \/ (tasks' = tasks /\ ~m.ok)
  BY <1>2 DEF TakeRequest
<1>5. CASE ~OurMessage(m, a, b)
  <2>1. ~Ours(r, a, b)
    BY <1>1, <1>3, <1>5 DEF Ours, OurMessage
  <2> QED BY <1>1, <1>4, <1>5, <2>1, StageForeign
<1>6. CASE OurMessage(m, a, b)
  <2>1. m.from = a /\ m.to = b
    BY <1>1, <1>6 DEF OurMessage
  <2>2. m.ok
    BY <1>1, <2>1, OnlyOurs DEF MessageKeys
  <2>3. tasks' = tasks \cup {r}
    BY <1>4, <2>2
  <2>4. HandledAt(b, a, "respond", Early)'
    BY <1>3, <2>1, <2>3 DEF HandledAt, Early
  <2>5. /\ HandledAt(a, b, "confirm", Opened)' <=> HandledAt(a, b, "confirm", Opened)
        /\ HandledAt(a, b, "confirm", Opening)' <=> HandledAt(a, b, "confirm", Opening)
        /\ Unstored(a, b)' <=> Unstored(a, b)
    BY <1>3, <2>3 DEF HandledAt, Unstored
  <2> QED BY <1>1, <2>4, <2>5 DEF Stage
<1> QED BY <1>5, <1>6

LEMMA StageTakeResponse ==
    ASSUME DidInv, NEW a \in Agents, NEW b \in Agents, Stage(a, b),
           NEW m \in wire, TakeResponse(m)
    PROVE  Stage(a, b)'
<1>1. m.kind = "respond" /\ wire' = wire \ {m} /\ UNCHANGED peers
  BY DEF TakeResponse, Take, stores
<1>2. PICK r : r = [Begun(m.to, m.from, "confirm", "find") EXCEPT
                   !.exch = m.exch, !.key = m.doc, !.kid = m.kid, !.ok = m.ok]
  OBVIOUS
<1>3. /\ r.me = m.to /\ r.peer = m.from /\ r.kind = "confirm" /\ r.at = "find"
      /\ tasks' = tasks \cup {r}
  BY <1>2 DEF Begun, TakeResponse
<1>4. CASE ~OurMessage(m, a, b)
  <2>1. ~Ours(r, a, b)
    BY <1>1, <1>3, <1>4 DEF Ours, OurMessage
  <2> QED BY <1>1, <1>3, <1>4, <2>1, StageForeign
<1>5. CASE OurMessage(m, a, b)
  <2>1. m.from = b /\ m.to = a
    BY <1>1, <1>5 DEF OurMessage
  <2>2. HandledAt(a, b, "confirm", {"find"})'
    BY <1>3, <2>1 DEF HandledAt
  <2>3. /\ HandledAt(a, b, "confirm", Opened)' <=> HandledAt(a, b, "confirm", Opened)
        /\ HandledAt(a, b, "confirm", Opening)' <=> HandledAt(a, b, "confirm", Opening)
        /\ HandledAt(b, a, "respond", Early)' <=> HandledAt(b, a, "respond", Early)
        /\ HandledAt(b, a, "respond", {"sending"})' <=> HandledAt(b, a, "respond", {"sending"})
    BY <1>3 DEF HandledAt, Opening, Opened
  <2>4. /\ Unstored(a, b)' <=> Unstored(a, b)
        /\ Asking(a, b)' <=> Asking(a, b)
    BY <1>1, <1>3 DEF Unstored, Asking
  <2> QED BY <1>1, <2>2, <2>3, <2>4 DEF Stage
<1> QED BY <1>4, <1>5

\* The first Accept of the two: nothing of an exchange is there yet.
LEMMA StageStartAccept ==
    ASSUME DidInv, KeyInv, NEW a \in Agents, NEW b \in Agents,
           NEW c \in Agents, NEW d \in Agents, NEW sync \in BOOLEAN, StartAccept(c, d, sync),
           Single(a, b)', Single(a, b) => Stage(a, b)
    PROVE  Stage(a, b)'
<1>1. PICK t : t = [Begun(c, d, "accept", "public") EXCEPT
                      !.exch.n = accepts'[c][d], !.sync = sync]
  OBVIOUS
<1>2. /\ t.me = c /\ t.peer = d /\ t.kind = "accept" /\ t.at = "public"
      /\ tasks' = tasks \cup {t} /\ UNCHANGED <<peers, wire>>
      /\ accepts' = [accepts EXCEPT ![c][d] = @ + 1]
  BY <1>1 DEF Begun, StartAccept
<1>3. /\ accepts'[c][d] = accepts[c][d] + 1
      /\ \A x, y \in Agents : accepts'[x][y] = accepts[x][y] \/ (x = c /\ y = d)
      /\ \A x, y \in Agents : accepts[x][y] \in Nat /\ keys[x][y] \in Nat
  BY <1>2, Counts DEF DidInv, TypeOK, Pairs
<1>4. ~(c = b /\ d = a)
  BY <1>3 DEF Single
<1>5. CASE ~(c = a /\ d = b)
  <2>1. Single(a, b)
    BY <1>3, <1>4, <1>5 DEF Single
  <2>2. ~Ours(t, a, b)
    BY <1>2, <1>5 DEF Ours
  <2> QED BY <1>2, <2>1, <2>2, StageForeign
<1>6. CASE c = a /\ d = b
  <2>1. a # b /\ accepts[a][b] = 0 /\ accepts[b][a] = 0
    BY <1>3, <1>6 DEF Single
  <2>2. \A e \in Exch : (e.by = a /\ e.to = b) \/ (e.by = b /\ e.to = a) => ~Begins(e)
    BY <2>1, Bounds DEF Begins, Exch
  <2>3. peers[a][b].exch.n = 0 /\ peers[a][b].key = 0
    <3>1. peers[a][b].exch \in Exch /\ peers[a][b].key \in Nat
      BY Bounds DEF DidInv, TypeOK, Pairs, Peer
    <3>2. peers[a][b].exch.n \in Nat
      BY <3>1, Bounds DEF Exch
    <3>3. PeerOK(a, b) /\ PeerKeys(a, b)
      BY DEF DidInv, StateInv, KeyInv
    <3>4. ~(peers[a][b].exch.n > 0)
      BY <2>2, <3>1, <3>3 DEF PeerOK, PeerKeys
    <3>5. keys[b][a] <= 0
      BY <2>1, OnceOneKey DEF DidInv, CountInv
    <3> QED BY <1>3, <3>1, <3>2, <3>3, <3>4, <3>5 DEF PeerKeys
  <2>4. \A steps : ~HandledAt(a, b, "confirm", steps)
    <3> SUFFICES ASSUME NEW v \in tasks, v.me = a, v.peer = b, v.kind = "confirm"
                 PROVE  FALSE
      BY DEF HandledAt
    <3>1. v.exch \in Exch /\ Begins(v.exch) /\ v.exch.by = a /\ v.exch.to = b
      BY KeyTask DEF TaskOK, TaskKeys, Task, Exchanging
    <3> QED BY <2>2, <3>1
  <2>5. Unstored(a, b)' /\ Asking(a, b)'
    BY <1>2, <1>6 DEF Unstored, Asking, Early
  <2>6. ~HandledAt(a, b, "confirm", Opening)' /\ ~HandledAt(a, b, "confirm", Opened)'
    BY <1>2, <2>4 DEF HandledAt
  <2> QED BY <1>2, <2>3, <2>5, <2>6 DEF Stage
<1> QED BY <1>5, <1>6

LEMMA NextStage == DidInv /\ KeyInv /\ StageInv /\ [Next]_vars => StageInv'
<1> SUFFICES ASSUME DidInv, KeyInv, StageInv, [Next]_vars,
                    NEW a \in Agents, NEW b \in Agents, Single(a, b)'
             PROVE  Stage(a, b)'
  BY DEF StageInv
<1>1. ASSUME UNCHANGED accepts PROVE Single(a, b) /\ Stage(a, b)
  BY <1>1 DEF Single, StageInv
<1>2. ASSUME NEW c \in Agents, NEW d \in Agents, Command(c, d) \/ Ask(c, d) \/ TimeOut(c, d)
      PROVE  Stage(a, b)'
  <2>1. CASE \E sync \in BOOLEAN : StartAccept(c, d, sync)
    BY <2>1, StageStartAccept DEF StageInv
  <2>2. CASE StartSend(c, d)
    <3>1. PICK t : t = [Begun(c, d, "send", "public") EXCEPT !.key = peers[c][d].key]
      OBVIOUS
    <3>2. /\ t.kind = "send" /\ tasks' = tasks \cup {t} /\ UNCHANGED <<peers, wire, accepts>>
      BY <2>2, <3>1 DEF Begun, StartSend, stores
    <3> QED BY <1>1, <3>2, StageForeign DEF Ours
  <2>3. CASE StartQuery(c, d) \/ Ask(c, d) \/ TimeOut(c, d)
    <3>1. UNCHANGED <<peers, tasks, wire, accepts>>
      BY <2>3 DEF StartQuery, Ask, TimeOut, stores
    <3> QED BY <1>1, <3>1, StageForeign
  <2> QED BY <1>2, <2>1, <2>2, <2>3 DEF Command
<1>3. ASSUME NEW t \in tasks, Step(t) PROVE Stage(a, b)'
  <2>1. Single(a, b) /\ Stage(a, b)
    BY <1>1, <1>3 DEF Step
  <2>2. CASE ReadPublic(t) \/ ReadPrivate(t) \/ AddDid(t) \/ StoreChannel(t) \/ SendOut(t)
    BY <2>1, <2>2, StageRead, StageSendOut
  <2>3. CASE StoreInviter(t) \/ StoreAccepter(t) \/ StoreServices(t)
    BY <2>1, <2>3, StageStoreInviter, StageStoreAccepter, StageStoreServices
  <2>4. CASE FindPeer(t) \/ LoadChannel(t) \/ Signal(t)
    BY <2>1, <2>4, StageFindPeer, StageLoad
  <2>5. CASE FinishSend(t) \/ OpenMessage(t)
    <3>1. /\ t.kind \in {"send", "read"} /\ UNCHANGED <<peers, wire>> /\ tasks' = tasks \ {t}
      BY <2>5 DEF FinishSend, OpenMessage, Done, stores
    <3> QED BY <2>1, <3>1, StageForeign DEF Ours
  <2> QED BY <1>3, <2>2, <2>3, <2>4, <2>5 DEF Step
<1>4. ASSUME NEW m \in wire, Receive(m) PROVE Stage(a, b)'
  <2>1. Single(a, b) /\ Stage(a, b)
    BY <1>1, <1>4 DEF Receive
  <2>2. CASE TakeRequest(m) \/ TakeResponse(m)
    BY <2>1, <2>2, StageTakeRequest, StageTakeResponse
  <2>3. CASE TakeMessage(m)
    <3>1. PICK r : r = [Begun(m.to, m.from, "read", "public") EXCEPT
                          !.kid = m.kid, !.ok = m.ok]
      OBVIOUS
    <3>2. /\ m.kind = "send" /\ r.kind = "read"
          /\ tasks' = tasks \/ tasks' = tasks \cup {r}
          /\ wire' = wire \ {m} /\ UNCHANGED peers
      BY <2>3, <3>1 DEF Begun, TakeMessage, Take, stores
    <3> QED BY <2>1, <3>2, StageForeign DEF Ours, OurMessage
  <2> QED BY <1>4, <2>2, <2>3 DEF Receive
<1>5. CASE UNCHANGED vars
  <2>1. UNCHANGED <<peers, tasks, wire, accepts>>
    BY <1>5 DEF vars, stores
  <2> QED BY <1>1, <2>1, StageForeign
<1> QED BY <1>2, <1>3, <1>4, <1>5 DEF Next

LEMMA StageAlways == Spec => []StageInv
<1>1. Init => StageInv
  BY DEF Init, All, StageInv, Single
<1> QED BY <1>1, NextStage, DidInvAlways, KeysAlways, PTL DEF Spec

-----------------------------------------------------------------------------
(* Connections. *)

\* What an exchange between two agents connected once says of either of them.
LEMMA KeyIsOne ==
    ASSUME DidInv, KeyInv, NEW a \in Agents, NEW b \in Agents, Once(a, b),
           NEW k \in Nat, k > 0, k <= keys[a][b]
    PROVE  k = keys[a][b]
<1>1. keys[a][b] \in Nat /\ keys[a][b] <= 1
  BY OnceOneKey
<1> QED BY <1>1

LEMMA SingleConnected ==
    ASSUME DidInv, KeyInv, NEW a \in Agents, NEW b \in Agents, Single(a, b), Stage(a, b),
           Prompt, Quiet
    PROVE  Connected(a, b) /\ peers[a][b].exch = peers[b][a].exch
<1>1. wire = {} /\ \A t \in tasks : t.at = "wait"
  BY DEF Quiet
<1>2. ~Unstored(a, b) /\ ~Asking(a, b) /\ ~Responding(b, a)
  BY <1>1 DEF Unstored, Asking, Responding, Early
<1>3. /\ ~HandledAt(b, a, "respond", Early) /\ ~HandledAt(b, a, "respond", {"sending"})
      /\ ~HandledAt(a, b, "confirm", {"find"}) /\ ~HandledAt(a, b, "confirm", Opening)
  BY <1>1 DEF HandledAt, Early, Opening
<1>4. /\ peers[a][b].exch = The(a, b) /\ peers[a][b].key > 0
      /\ peers[b][a].exch = The(a, b) /\ peers[b][a].key > 0
  BY <1>2, <1>3 DEF Stage
<1>5. peers[a][b].key \in Nat /\ peers[b][a].key \in Nat
  BY Bounds DEF DidInv, TypeOK, Pairs, Peer
<1>6. peers[a][b].key <= keys[b][a] /\ peers[b][a].key <= keys[a][b]
  BY DEF KeyInv, PeerKeys
<1>7. Once(a, b) /\ Once(b, a)
  BY OnlyOurs, OnceOneKey
<1>8. peers[a][b].key = keys[b][a] /\ peers[b][a].key = keys[a][b]
  BY <1>4, <1>5, <1>6, <1>7, KeyIsOne
<1> QED BY <1>4, <1>8 DEF Connected

LEMMA InvOnceConnected == Prompt /\ DidInv /\ KeyInv /\ StageInv => OnceConnected
<1> SUFFICES ASSUME Prompt, DidInv, KeyInv, StageInv, Quiet,
                    NEW a \in Agents, NEW b \in Agents,
                    peers[a][b].exch.n > 0, Once(a, b)
             PROVE  Connected(a, b) /\ peers[a][b].exch = peers[b][a].exch
  BY DEF OnceConnected
<1>1. PICK e \in Exch : e = peers[a][b].exch
  BY DEF DidInv, TypeOK, Pairs, Peer
<1>2. e.n \in Nat /\ Begins(e) /\ ((e.by = a /\ e.to = b) \/ (e.by = b /\ e.to = a))
  BY <1>1, Bounds DEF Exch, DidInv, StateInv, KeyInv, PeerOK, PeerKeys
<1>3. accepts[a][b] \in Nat /\ accepts[b][a] \in Nat
  BY OnceOneKey
<1>4. accepts[a][b] > 0 \/ accepts[b][a] > 0
  BY <1>2, <1>3 DEF Begins
<1>5. Single(a, b) \/ Single(b, a)
  BY <1>3, <1>4 DEF Single, Once
<1> QED BY <1>5, SingleConnected DEF StageInv, Connected

\* Agents connected once come to rest connected, if the retries of
\* processConnRes outlast the peers.add of Accept: the response is then always
\* opened, and with the only key pair there is.
THEOREM OnceConnectedAlways ==
    ASSUME Prompt
    PROVE  Spec => []OnceConnected
BY InvOnceConnected, DidInvAlways, KeysAlways, StageAlways, PTL

\* Only the write to the channel ends the wait of SyncAccept.
LEMMA OnlySignalWakes ==
    ASSUME DidInv, [Next]_vars, NEW w \in tasks, w.at = "wait", w \notin tasks'
    PROVE  \E t \in tasks : Signal(t) /\ w \in Readers(t)
<1>1. ASSUME NEW t \in tasks, NEW u, Goto(t, u) \/ Done(t), t.at # "wait" PROVE FALSE
  BY <1>1 DEF Goto, Done
<1>2. ASSUME NEW t \in tasks, Step(t) PROVE Signal(t) /\ w \in Readers(t)
  <2>1. CASE Signal(t)
    BY <2>1 DEF Signal
  <2>2. CASE ReadPublic(t) \/ ReadPrivate(t) \/ AddDid(t) \/ SendOut(t)
    BY <1>1, <2>2 DEF ReadPublic, ReadPrivate, AddDid, SendOut
  <2>3. CASE StoreInviter(t) \/ StoreChannel(t) \/ FinishSend(t) \/ StoreAccepter(t)
    BY <1>1, <2>3 DEF StoreInviter, StoreChannel, FinishSend, StoreAccepter, Acked
  <2>4. CASE FindPeer(t) \/ StoreServices(t) \/ LoadChannel(t) \/ OpenMessage(t)
    BY <1>1, <2>4 DEF FindPeer, StoreServices, LoadChannel, OpenMessage
  <2> QED BY <1>2, <2>1, <2>2, <2>3, <2>4 DEF Step
<1>3. ASSUME NEW m \in wire PROVE ~Receive(m)
  BY DEF Receive, TakeRequest, TakeResponse, TakeMessage
<1>4. ASSUME NEW a \in Agents, NEW b \in Agents
      PROVE  ~(Command(a, b) \/ Ask(a, b) \/ TimeOut(a, b))
  BY DEF Command, StartAccept, StartSend, StartQuery, Ask, TimeOut
<1> QED BY <1>2, <1>3, <1>4 DEF Next, vars

\* When SyncAccept goes on, each of the two has the other's key, or the inviter
\* is about to store it: its handler answers with the key of the request before
\* it stores it, and no other Accept of the two has replaced a key pair.
THEOREM SyncSoundAlways == Spec => SyncSound
<1> DEFINE Sound ==
      \A t \in tasks : t.at = "wait" /\ t \notin tasks' /\ Once(t.me, t.peer) =>
          /\ peers[t.me][t.peer].key = keys[t.peer][t.me]
          /\ \/ peers[t.peer][t.me].key = keys[t.me][t.peer]
             \/ Answering(t.peer, t.me)
<1>1. DidInv /\ KeyInv /\ StageInv /\ [Next]_vars => Sound
  <2> SUFFICES ASSUME DidInv, KeyInv, StageInv, [Next]_vars, NEW w \in tasks,
                      w.at = "wait", w \notin tasks', Once(w.me, w.peer)
               PROVE  /\ peers[w.me][w.peer].key = keys[w.peer][w.me]
                      /\ \/ peers[w.peer][w.me].key = keys[w.me][w.peer]
                         \/ Answering(w.peer, w.me)
    OBVIOUS
  <2>1. PICK t \in tasks : Signal(t) /\ w \in Readers(t)
    BY OnlySignalWakes
  <2>2. /\ w.kind = "accept" /\ t.me = w.me /\ t.peer = w.peer
        /\ t.at = "signal" /\ t.kind = "confirm"
    BY <2>1, InvTask DEF Readers, Signal, TaskOK
  <2>3. PICK a \in Agents, b \in Agents : a = w.me /\ b = w.peer
    BY KeyTask
  <2>4. Single(a, b)
    <3>1. PICK e \in Exch : e = w.exch
      BY KeyTask DEF Task
    <3>2. e.n \in Nat /\ Begins(e) /\ e.by = a /\ e.to = b
      BY <2>2, <2>3, <3>1, KeyTask, Bounds DEF TaskOK, Exch, Exchanging
    <3>3. accepts[a][b] \in Nat /\ accepts[b][a] \in Nat
      BY Counts DEF DidInv
    <3> QED BY <2>3, <3>2, <3>3 DEF Single, Once, Begins
  <2>5. Stage(a, b) /\ Once(a, b) /\ Once(b, a)
    BY <2>3, <2>4, OnceOneKey DEF StageInv
  <2>6. ~Asking(a, b)
    <3>1. \A v \in tasks : v.kind = "accept" /\ v.me = a /\ v.peer = b => v = w
      BY <2>2, <2>3 DEF DidInv, CountInv
    <3>2. \A m \in wire : m.kind = "accept" =>
             \E v \in tasks : /\ v.me = m.from /\ v.peer = m.to /\ v.kind = "accept"
                              /\ v.at = "sending"
      BY DEF DidInv, CountInv
    <3> QED BY <3>1, <3>2 DEF Asking, Early
  <2>7. peers[a][b].key \in Nat /\ peers[b][a].key \in Nat
    BY Bounds DEF DidInv, TypeOK, Pairs, Peer
  <2>8. peers[a][b].key <= keys[b][a] /\ peers[b][a].key <= keys[a][b]
    BY DEF KeyInv, PeerKeys
  <2>9. HandledAt(a, b, "confirm", Opened)
    BY <2>2, <2>3 DEF HandledAt, Opened
  <2>10. peers[a][b].key = keys[b][a]
    BY <2>5, <2>7, <2>8, <2>9, KeyIsOne DEF Stage
  <2>11. CASE peers[b][a].key > 0
    BY <2>3, <2>5, <2>7, <2>8, <2>10, <2>11, KeyIsOne
  <2>12. CASE \E steps : HandledAt(b, a, "respond", steps)
    <3>1. PICK r \in tasks : r.me = b /\ r.peer = a /\ r.kind = "respond"
      BY <2>12 DEF HandledAt
    <3>2. r.key \in Nat /\ r.key > 0 /\ r.key <= keys[a][b]
      BY <3>1, KeyTask DEF TaskKeys
    <3>3. Answering(b, a)
      BY <2>5, <3>1, <3>2, KeyIsOne DEF Answering
    <3> QED BY <2>3, <2>10, <3>3
  <2> QED BY <2>5, <2>6, <2>11, <2>12 DEF Stage
<1>2. DidInv /\ KeyInv /\ StageInv /\ [Next]_vars => [Sound]_vars
  BY <1>1
<1> QED BY <1>2, DidInvAlways, KeysAlways, StageAlways, PTL DEF Spec, SyncSound

=============================================================================
