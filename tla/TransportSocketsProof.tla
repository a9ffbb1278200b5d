------------------------- MODULE TransportSocketsProof -------------------------
(***************************************************************************)
(* Theorems about what the SUB sockets of Transport are connected to, and  *)
(* about when requests fail, for any peers, topics, goroutines and orders  *)
(* of their steps.  They rest on the invariants of TransportProof.         *)
(***************************************************************************)
EXTENDS TransportProof

-----------------------------------------------------------------------------
(* Calls that clash with no other one.                                      *)

\* Nothing clashed, and the agent has not been closed.
Calm == /\ {"clash", "twice", "shared", "early", "missed"} \cap seen = {}
        /\ "publisher" \in open

Takes(j) == Running(j) /\ job[j].kind \in {"remove", "leave"}

\* A call that removes or leaves runs alone.
Alone == \A i, j \in Jobs : Takes(j) /\ i # j => ~Running(i)

\* Calls add different peers to a topic.
Apart ==
    \A i, j \in Jobs :
        Running(i) /\ Running(j) /\ i # j /\ job[i].topic = job[j].topic =>
            Adding(i) \cap Adding(j) = {}

\* A peer is connected only once.
Fresh ==
    \A j \in Jobs : Running(j) /\ job[j].kind \in Adders =>
        job[j].todo \cap linked[job[j].topic] = {}

\* The mode of a topic that is in use is known.
Moded ==
    /\ \A t \in Topics : members[t] # {} \/ linked[t] # {} => params[t]
    /\ \A j \in Jobs : Running(j) =>
        /\ job[j].kind = "join" /\ job[j].pc # "asking" => params[job[j].topic]
        /\ job[j].kind \in {"sub", "conn"} => Me \in members[job[j].topic]
        /\ job[j].kind = "remove" => params[job[j].topic]

\* The peers that are disconnected are of no use to another topic.
Unshared ==
    \A j \in Jobs : Running(j) =>
        /\ job[j].kind = "leave" =>
            /\ linked[job[j].topic] \subseteq members[job[j].topic]
            /\ \A u \in Topics \ {job[j].topic} :
                   linked[u] \cap members[job[j].topic] = {}
        /\ job[j].kind = "remove" =>
               \A u \in Topics : linked[u] \cap job[j].peers = {}

Orderly == Alone /\ Apart /\ Fresh /\ Moded /\ Unshared

OrderInv == Calm => Orderly

\* A call that runs goes on, or ends.
GoesOn(j) ==
    /\ \A i \in Jobs \ {j} : job'[i] = job[i]
    /\ job[j] \in Job /\ Running(j)
    /\ Running(j)' =>
        /\ job'[j] \in Job
        /\ job'[j].topic = job[j].topic /\ job'[j].peers = job[j].peers
        /\ job'[j].todo \subseteq job[j].todo
        /\ \/ job'[j].kind = job[j].kind
           \/ /\ job[j].kind = "sub" /\ job'[j].kind = "conn"
              /\ Me \in members[job[j].topic]
        /\ job[j].pc # "asking"

LEMMA ProceedGoesOn ==
    ASSUME TypeInv, NEW j \in Jobs,
           \/ Answer(j) \/ ReadState(j) \/ ReadData(j) \/ Finish(j)
           \/ \E op \in Ops, p \in Labels : Ask(j, op, p)
    PROVE  GoesOn(j)
<1>1. CASE Answer(j)
  <2>1. Running(j) /\ job[j].pc # "asking"
    BY <1>1 DEF Answer, Running
  <2> QED BY <2>1, <1>1, AnswerBecomes DEF GoesOn, Becomes, Running
<1>2. CASE ReadState(j)
  <2>1. Running(j) /\ job[j].pc # "asking"
    BY <1>2 DEF ReadState, Running
  <2> QED BY <2>1, <1>2, ReadStateBecomes DEF GoesOn, Becomes
<1>3. CASE ReadData(j)
  <2>1. Running(j) /\ job[j].pc # "asking"
    BY <1>3 DEF ReadData, Running
  <2> QED BY <2>1, <1>3, ReadDataBecomes DEF GoesOn, Becomes
<1>4. CASE Finish(j)
  <2>1. Running(j) /\ job[j].pc # "asking"
    BY <1>4 DEF Finish, Running
  <2>2. ~Running(j)'
    BY <1>4, FinishBecomes DEF Becomes, Ends, DoneJob, Running
  <2> QED BY <2>1, <2>2, <1>4, FinishBecomes DEF GoesOn, Becomes, Ends
<1>5. CASE \E op \in Ops, p \in Labels : Ask(j, op, p)
  <2>1. Running(j) /\ job[j].pc # "asking"
    BY <1>5 DEF Ask, Running
  <2> QED BY <2>1, <1>5, AskBecomes DEF GoesOn, Becomes
<1> QED BY <1>1, <1>2, <1>3, <1>4, <1>5

LEMMA AddingApart ==
    ASSUME Alone, Apart, NEW j \in Jobs, GoesOn(j)
    PROVE  Alone' /\ Apart'
<1>1. \A i \in Jobs \ {j} :
          /\ Running(i)' <=> Running(i)
          /\ Takes(i)' <=> Takes(i)
          /\ Adding(i)' = Adding(i) /\ job'[i].topic = job[i].topic
  BY DEF GoesOn, Running, Takes, Adding
<1>2. /\ Running(j)' => Running(j) /\ job'[j].topic = job[j].topic
      /\ Takes(j)' => Takes(j)
      /\ Adding(j)' \subseteq Adding(j)
  BY DEF GoesOn, Takes, Adding
<1>3. Alone'
  BY <1>1, <1>2 DEF Alone
<1>4. Apart'
  <2> SUFFICES ASSUME NEW i \in Jobs, NEW k \in Jobs, Running(i)', Running(k)', i # k,
                      job'[i].topic = job'[k].topic
               PROVE  Adding(i)' \cap Adding(k)' = {}
    BY DEF Apart
  <2>1. /\ Running(i) /\ Running(k) /\ job[i].topic = job[k].topic
        /\ Adding(i)' \subseteq Adding(i) /\ Adding(k)' \subseteq Adding(k)
    BY <1>1, <1>2
  <2> QED BY <2>1 DEF Apart
<1> QED BY <1>3, <1>4

LEMMA BeginOrderly ==
    ASSUME TypeInv, Orderly, Calm', NEW j \in Jobs, NEW k \in Kinds \ {"conn"},
           NEW t \in Topics, NEW ps \in SUBSET Peers, NEW pc \in {"asking", "ready"},
           Begin(j, k, t, ps, pc), NEW noted,
           "clash" \notin Note(j, k, t, noted),
           UNCHANGED storeVars,
           \A u \in Topics : linked'[u] \subseteq linked[u],
           k \in {"join", "sub"} => noted = ps /\ "twice" \notin Note(j, k, t, ps),
           k = "join" => pc = "asking" /\ ps = {},
           k = "sub" => Me \in members[t],
           k = "remove" => /\ params[t]
                           /\ \A u \in Topics : linked'[u] \cap ps = {},
           k = "leave" =>
               /\ linked[t] \subseteq members[t]
               /\ \A u \in Topics \ {t} : linked[u] \cap members[t] = {}
    PROVE  Orderly'
<1>1. Becomes(j, k, t, ps, ps, "none", Me, pc) /\ job[j] = NoJob
  BY BeginBecomes DEF Steps
<1>2. /\ Running(j)' /\ ~Running(j)
      /\ job'[j].kind = k /\ job'[j].topic = t /\ job'[j].todo = ps
      /\ job'[j].peers = ps /\ job'[j].pc = pc
      /\ Adding(j)' = IF k \in Adders THEN ps ELSE {}
  BY <1>1 DEF Becomes, Running, NoJob, Adding, Adders
<1>3. \A i \in Jobs \ {j} :
          /\ Running(i)' <=> Running(i)
          /\ Takes(i)' <=> Takes(i)
          /\ Adding(i)' = Adding(i) /\ job'[i] = job[i]
  BY <1>1 DEF Becomes, Running, Takes, Adding
<1>4. \A i \in Jobs \ {j} : Running(i) =>
          k \notin {"remove", "leave"} /\ job[i].kind \notin {"remove", "leave"}
  BY NoteClash
<1>5. Alone'
  BY <1>2, <1>3, <1>4 DEF Alone, Takes, Orderly
<1>6. Apart'
  <2> SUFFICES ASSUME NEW i \in Jobs, NEW m \in Jobs, Running(i)', Running(m)', i # m,
                      job'[i].topic = job'[m].topic
               PROVE  Adding(i)' \cap Adding(m)' = {}
    BY DEF Apart
  <2>1. ASSUME NEW n \in Jobs \ {j}, Running(n), job[n].topic = t
        PROVE  Adding(j)' \cap Adding(n) = {}
    <3>1. CASE k \in {"join", "sub"}
      BY <3>1, <2>1, <1>2, NoteTwice
    <3>2. CASE k \notin {"join", "sub"}
      BY <3>2, <1>2 DEF Adders
    <3> QED BY <3>1, <3>2
  <2>2. CASE i = j
    BY <2>2, <2>1, <1>2, <1>3
  <2>3. CASE m = j
    BY <2>3, <2>1, <1>2, <1>3
  <2>4. CASE i # j /\ m # j
    BY <2>4, <1>3 DEF Apart, Orderly
  <2> QED BY <2>2, <2>3, <2>4
<1>7. Fresh'
  <2> SUFFICES ASSUME NEW i \in Jobs, Running(i)', job'[i].kind \in Adders
               PROVE  job'[i].todo \cap linked'[job'[i].topic] = {}
    BY DEF Fresh
  <2>1. CASE i = j
    <3>1. k \in {"join", "sub"}
      BY <2>1, <1>2 DEF Adders
    <3>2. ps \cap linked[t] = {}
      BY <3>1, NoteTwice
    <3> QED BY <3>2, <2>1, <1>2
  <2>2. CASE i # j
    <3>1. job[i] \in Job /\ Running(i) /\ job'[i] = job[i]
      BY <2>2, <1>3, RunningTyped DEF Running
    <3>2. job[i].todo \cap linked[job[i].topic] = {} /\ job[i].topic \in Topics
      BY <3>1 DEF Orderly, Fresh, Job
    <3> QED BY <3>1, <3>2
  <2> QED BY <2>1, <2>2
<1>8. Moded'
  <2>1. \A u \in Topics : members'[u] # {} \/ linked'[u] # {} => params'[u]
    BY DEF Orderly, Moded, storeVars
  <2>2. ASSUME NEW i \in Jobs, Running(i)'
        PROVE  /\ job'[i].kind = "join" /\ job'[i].pc # "asking"
                      => params'[job'[i].topic]
               /\ job'[i].kind \in {"sub", "conn"} => Me \in members'[job'[i].topic]
               /\ job'[i].kind = "remove" => params'[job'[i].topic]
    <3>1. CASE i = j
      BY <3>1, <1>2 DEF storeVars
    <3>2. CASE i # j
      BY <3>2, <2>2, <1>3 DEF storeVars, Orderly, Moded
    <3> QED BY <3>1, <3>2
  <2> QED BY <2>1, <2>2 DEF Moded
<1>9. Unshared'
  <2> SUFFICES ASSUME NEW i \in Jobs, Running(i)'
               PROVE  (/\ job[i].kind = "leave" =>
                          /\ linked[job[i].topic] \subseteq members[job[i].topic]
                          /\ \A u \in Topics \ {job[i].topic} :
                                linked[u] \cap members[job[i].topic] = {}
                       /\ job[i].kind = "remove" =>
                             \A u \in Topics : linked[u] \cap job[i].peers = {})'
    BY DEF Unshared
  <2>1. CASE i = j
    BY <2>1, <1>2 DEF storeVars
  <2>2. CASE i # j
    <3>1. Running(i) /\ job'[i] = job[i] /\ job[i] \in Job /\ job[i].topic \in Topics
      BY <2>2, <1>3, RunningTyped DEF Running, Job
    <3> QED BY <3>1 DEF Orderly, Unshared, storeVars
  <2> QED BY <2>1, <2>2
<1> QED BY <1>5, <1>6, <1>7, <1>8, <1>9 DEF Orderly

\* A call goes on, and the groups and the peers stay what they were.
LEMMA GoesOnOrderly ==
    ASSUME TypeInv, Orderly, NEW j \in Jobs, GoesOn(j),
           UNCHANGED <<members, params, linked>>
    PROVE  Orderly'
<1>1. Alone' /\ Apart'
  BY AddingApart DEF Orderly
<1>2. \A i \in Jobs \ {j} : (Running(i)' <=> Running(i)) /\ job'[i] = job[i]
  BY DEF GoesOn, Running
<1>3. Fresh'
  <2> SUFFICES ASSUME NEW i \in Jobs, Running(i)', job'[i].kind \in Adders
               PROVE  job'[i].todo \cap linked[job'[i].topic] = {}
    BY DEF Fresh
  <2>1. /\ Running(i) /\ job[i].kind \in Adders
        /\ job'[i].todo \subseteq job[i].todo /\ job'[i].topic = job[i].topic
    BY <1>2 DEF GoesOn, Adders
  <2> QED BY <2>1 DEF Orderly, Fresh
<1>4. Moded'
  BY <1>2 DEF GoesOn, Orderly, Moded
<1>5. Unshared'
  BY <1>2 DEF GoesOn, Orderly, Unshared
<1> QED BY <1>1, <1>3, <1>4, <1>5 DEF Orderly

\* Nobody removes or leaves beside a call that adds.
LEMMA NoTaker ==
    ASSUME Alone, NEW j \in Jobs, Running(j), job[j].kind \notin {"remove", "leave"}
    PROVE  \A i \in Jobs : Running(i) => job[i].kind \notin {"remove", "leave"}
BY DEF Alone, Takes

LEMMA ReceiveGroupOrderly ==
    ASSUME TypeInv, AskInv, Orderly, Calm', NEW j \in Jobs, NEW g \in SUBSET Peers,
           ReceiveGroup(j, g)
    PROVE  Orderly'
<1>1. /\ job[j] \in Job /\ job[j].pc = "asking" /\ job[j].topic \in Topics
      /\ Becomes(j, job[j].kind, job[j].topic, g, g, job[j].op, job[j].peer, "ready")
      /\ params' = [params EXCEPT ![job[j].topic] = TRUE]
      /\ UNCHANGED <<members, linked>>
      /\ "twice" \notin Note(j, "join", job[j].topic, g)
  BY ReceiveGroupBecomes DEF ReceiveGroup, Job, Calm
<1>2. job[j].kind = "join" /\ Running(j) /\ Running(j)'
  BY <1>1 DEF AskInv, Shaped, Shape, Becomes, Running
<1>3. /\ job'[j].kind = "join" /\ job'[j].topic = job[j].topic
      /\ job'[j].todo = g /\ Adding(j)' = g /\ ~Takes(j)'
  BY <1>1, <1>2 DEF Becomes, Adding, Takes
<1>4. \A i \in Jobs \ {j} :
          /\ Running(i)' <=> Running(i)
          /\ Takes(i)' <=> Takes(i)
          /\ Adding(i)' = Adding(i) /\ job'[i] = job[i]
  BY <1>1 DEF Becomes, Running, Takes, Adding
<1>5. Alone'
  BY <1>2, <1>3, <1>4 DEF Orderly, Alone
<1>6. /\ g \cap linked[job[j].topic] = {}
      /\ \A i \in Jobs \ {j} :
            Running(i) /\ job[i].topic = job[j].topic => g \cap Adding(i) = {}
  BY <1>1, NoteTwice
<1>7. Apart'
  <2> SUFFICES ASSUME NEW i \in Jobs, NEW m \in Jobs, Running(i)', Running(m)', i # m,
                      job'[i].topic = job'[m].topic
               PROVE  Adding(i)' \cap Adding(m)' = {}
    BY DEF Apart
  <2>1. CASE i # j /\ m # j
    BY <2>1, <1>4 DEF Apart, Orderly
  <2>2. CASE i = j \/ m = j
    BY <2>2, <1>3, <1>4, <1>6
  <2> QED BY <2>1, <2>2
<1>8. Fresh'
  <2> SUFFICES ASSUME NEW i \in Jobs, Running(i)', job'[i].kind \in Adders
               PROVE  job'[i].todo \cap linked[job'[i].topic] = {}
    BY <1>1 DEF Fresh
  <2>1. CASE i = j
    BY <2>1, <1>3, <1>6
  <2>2. CASE i # j
    BY <2>2, <1>4 DEF Fresh, Orderly
  <2> QED BY <2>1, <2>2
<1>9. Moded'
  <2>1. \A u \in Topics : params[u] => params'[u]
    BY <1>1 DEF TypeInv, TypeOK
  <2>2. params'[job[j].topic]
    BY <1>1 DEF TypeInv, TypeOK
  <2>3. \A i \in Jobs : Running(i) => job[i].topic \in Topics
    BY RunningTyped DEF Running, Job
  <2>4. ASSUME NEW i \in Jobs, Running(i)'
        PROVE  /\ job'[i].kind = "join" /\ job'[i].pc # "asking"
                      => params'[job'[i].topic]
               /\ job'[i].kind \in {"sub", "conn"} => Me \in members'[job'[i].topic]
               /\ job'[i].kind = "remove" => params'[job'[i].topic]
    <3>1. CASE i = j
      BY <3>1, <2>2, <1>3
    <3>2. CASE i # j
      BY <3>2, <2>1, <2>3, <2>4, <1>1, <1>4 DEF Orderly, Moded
    <3> QED BY <3>1, <3>2
  <2> QED BY <2>1, <2>4, <1>1 DEF Orderly, Moded
<1>10. Unshared'
  <2>1. \A i \in Jobs : Running(i) => job[i].kind \notin {"remove", "leave"}
    BY <1>2, NoTaker DEF Orderly
  <2> QED BY <2>1, <1>3, <1>4 DEF Unshared
<1> QED BY <1>5, <1>7, <1>8, <1>9, <1>10 DEF Orderly

LEMMA ReadDataOrderly ==
    ASSUME TypeInv, AskInv, Orderly, NEW j \in Jobs, ReadData(j)
    PROVE  Orderly'
<1>1. GoesOn(j) /\ UNCHANGED <<members, params>>
  BY ProceedGoesOn DEF ReadData, storeVars
<1>2. CASE UNCHANGED linked
  BY <1>1, <1>2, GoesOnOrderly
<1>3. CASE linked' # linked
  <2>1. PICK t \in Topics, p \in Peers :
            /\ job[j] \in Job /\ job[j].topic = t /\ job[j].peer = p
            /\ Running(j) /\ job[j].pc = "data" /\ job[j].op = "connect"
            /\ \A u \in Topics : linked'[u] = IF u = t THEN linked[u] \cup {p}
                                              ELSE linked[u]
            /\ busy["data"].ok
    <3>1. job[j] \in Job /\ Running(j) /\ job[j].pc = "data" /\ job[j].topic \in Topics
      BY ReadDataBecomes DEF Running, Job
    <3>2. /\ job[j].op = "connect" /\ busy["data"].ok
          /\ \A u \in Topics : linked'[u] = IF u = job[j].topic
                                            THEN linked[u] \cup {job[j].peer}
                                            ELSE linked[u]
      BY <1>3 DEF ReadData, TypeInv, TypeOK
    <3>3. job[j].peer \in Peers
      BY <3>1, <3>2 DEF TypeInv, PeerInv, NamesPeer
    <3> QED BY <3>1, <3>2, <3>3
  <2>2. Shape(job[j]) /\ job[j].kind \in {"join", "conn"}
    BY <2>1 DEF AskInv, Shaped, Shape
  <2>3. Becomes(j, job[j].kind, t, job[j].peers, job[j].todo \ {p}, "connect", p, "ready")
    BY <2>1, ReadDataBecomes
  <2>4. /\ Running(j)' /\ job'[j].kind = job[j].kind /\ job'[j].topic = t
        /\ job'[j].todo = job[j].todo \ {p} /\ p \in job[j].todo
        /\ job[j].kind \in Adders /\ job[j].pc # "asking" /\ job'[j].pc = "ready"
        /\ p \in Adding(j)
    BY <2>1, <2>2, <2>3 DEF Becomes, Running, Shape, Adders, Adding
  <2>5. \A i \in Jobs \ {j} : (Running(i)' <=> Running(i)) /\ job'[i] = job[i]
    BY <2>3 DEF Becomes, Running
  <2>6. \A i \in Jobs : Running(i) => job[i] \in Job /\ Shape(job[i]) /\ job[i].topic \in Topics
    BY RunningTyped DEF Running, AskInv, Shaped, Job
  <2>7. Fresh'
    <3> SUFFICES ASSUME NEW i \in Jobs, Running(i)', job'[i].kind \in Adders
                 PROVE  job'[i].todo \cap linked'[job'[i].topic] = {}
      BY DEF Fresh
    <3>1. job[j].todo \cap linked[t] = {}
      BY <2>1, <2>4 DEF Orderly, Fresh
    <3>2. CASE i = j
      BY <3>1, <3>2, <2>1, <2>4
    <3>3. CASE i # j
      <4>1. /\ Running(i) /\ job'[i] = job[i] /\ job[i].topic \in Topics
            /\ job[i].todo \subseteq Adding(i)
        BY <3>3, <2>5, <2>6 DEF Shape, Adding, Adders
      <4>2. job[i].todo \cap linked[job[i].topic] = {}
        BY <4>1 DEF Orderly, Fresh
      <4>3. job[i].topic = t => p \notin Adding(i)
        BY <4>1, <3>3, <2>1, <2>4 DEF Orderly, Apart
      <4> QED BY <4>1, <4>2, <4>3, <2>1
    <3> QED BY <3>2, <3>3
  <2>8. Moded'
    <3>1. params[t]
      BY <2>1, <2>2, <2>4 DEF Orderly, Moded
    <3>2. \A u \in Topics : members'[u] # {} \/ linked'[u] # {} => params'[u]
      BY <3>1, <2>1, <1>1 DEF Orderly, Moded
    <3>3. \A i \in Jobs : Running(i)' =>
        /\ job'[i].kind = "join" /\ job'[i].pc # "asking" => params'[job'[i].topic]
        /\ job'[i].kind \in {"sub", "conn"} => Me \in members'[job'[i].topic]
        /\ job'[i].kind = "remove" => params'[job'[i].topic]
      BY <2>1, <2>2, <2>4, <2>5, <1>1 DEF Orderly, Moded
    <3> QED BY <3>2, <3>3 DEF Moded
  <2>9. Unshared'
    <3>1. \A i \in Jobs : Running(i) => job[i].kind \notin {"remove", "leave"}
      BY <2>1, <2>2, NoTaker DEF Orderly
    <3> QED BY <3>1, <2>1, <2>4, <2>5 DEF Unshared
  <2> QED BY <2>7, <2>8, <2>9, <1>1, AddingApart DEF Orderly
<1> QED BY <1>2, <1>3

LEMMA FinishOrderly ==
    ASSUME TypeInv, AskInv, Orderly, "publisher" \in open, NEW j \in Jobs, Finish(j)
    PROVE  Orderly'
<1>1. PICK t \in Topics, k \in Kinds :
          /\ job[j] \in Job /\ Running(j) /\ job[j].topic = t /\ job[j].kind = k
          /\ job[j].pc = "ready"
  BY FinishBecomes DEF Running, Job
<1>2. GoesOn(j) /\ ~Running(j)' /\ \A i \in Jobs \ {j} : job'[i] = job[i]
  BY ProceedGoesOn, FinishBecomes DEF Becomes, Ends, DoneJob, Running, GoesOn
<1>3. \A i \in Jobs \ {j} : (Running(i)' <=> Running(i))
  BY <1>2 DEF Running
<1>4. /\ \A u \in Topics \ {t} :
            /\ members'[u] = members[u] /\ linked'[u] = linked[u]
            /\ params'[u] = params[u]
      /\ k # "leave" => linked'[t] = linked[t] /\ params'[t] = params[t]
      /\ k = "join" => members'[t] = members[t] \cup job[j].peers \cup {Me}
      /\ k = "remove" => members'[t] = members[t] \ job[j].peers
      /\ k = "conn" => members'[t] = members[t]
      /\ k = "leave" /\ members[t] = {} => /\ members'[t] = {} /\ linked'[t] = linked[t]
                                           /\ params'[t] = params[t]
      /\ k = "leave" /\ members[t] # {} => /\ members'[t] = {}
                                           /\ linked'[t] = linked[t] \ members[t]
      /\ k # "sub"
  BY <1>1 DEF Finish, TypeInv, TypeOK
<1>5. \A i \in Jobs : Running(i) => job[i] \in Job /\ job[i].topic \in Topics
  BY RunningTyped DEF Running, Job
<1>6. \A u \in Topics : linked'[u] \subseteq linked[u]
  BY <1>4, <1>1 DEF Kinds
<1>7. Fresh'
  BY <1>2, <1>3, <1>5, <1>6 DEF Orderly, Fresh
<1>8. CASE k \in {"join", "conn"}
  <2>1. \A i \in Jobs : Running(i) => job[i].kind \notin {"remove", "leave"}
    BY <1>1, <1>8, NoTaker DEF Orderly
  <2>2. Unshared'
    BY <2>1, <1>2, <1>3 DEF Unshared
  <2>3. \A u \in Topics : members[u] \subseteq members'[u] /\ params'[u] = params[u]
    BY <1>4, <1>8
  <2>4. Moded'
    <3>1. k = "join" => params[t]
      BY <1>1 DEF Orderly, Moded
    <3>2. \A u \in Topics : members'[u] # {} \/ linked'[u] # {} => params'[u]
      BY <3>1, <1>4, <1>6, <1>8 DEF Orderly, Moded
    <3>3. \A i \in Jobs : Running(i)' =>
        /\ job'[i].kind = "join" /\ job'[i].pc # "asking" => params'[job'[i].topic]
        /\ job'[i].kind \in {"sub", "conn"} => Me \in members'[job'[i].topic]
        /\ job'[i].kind = "remove" => params'[job'[i].topic]
      BY <2>3, <1>2, <1>3, <1>5 DEF Orderly, Moded
    <3> QED BY <3>2, <3>3 DEF Moded
  <2> QED BY <2>2, <2>4, <1>2, <1>7, AddingApart DEF Orderly
<1>9. CASE k \in {"remove", "leave"}
  <2>1. \A i \in Jobs : ~Running(i)'
    BY <1>1, <1>2, <1>3, <1>9 DEF Orderly, Alone, Takes
  <2>2. \A u \in Topics : members'[u] # {} \/ linked'[u] # {} => params'[u]
    <3> TAKE u \in Topics
    <3>1. CASE u # t
      BY <3>1, <1>4 DEF Orderly, Moded
    <3>2. CASE u = t /\ k = "remove"
      BY <3>2, <1>4 DEF Orderly, Moded
    <3>3. CASE u = t /\ k = "leave"
      <4>1. linked[t] \subseteq members[t]
        BY <3>3, <1>1 DEF Orderly, Unshared
      <4> QED BY <3>3, <4>1, <1>4
    <3> QED BY <3>1, <3>2, <3>3, <1>9
  <2>3. Moded' /\ Unshared'
    BY <2>1, <2>2 DEF Moded, Unshared
  <2> QED BY <2>3, <1>2, <1>7, AddingApart DEF Orderly
<1> QED BY <1>8, <1>9, <1>1, <1>4 DEF Kinds

LEMMA StutterOrderly ==
    ASSUME Orderly, UNCHANGED <<job, params, members, linked>>
    PROVE  Orderly'
BY DEF Orderly, Alone, Apart, Fresh, Moded, Unshared, Takes, Running, Adding

\* A new group, or a peer that has announced itself.
LEMMA JoinedOrderly ==
    ASSUME TypeInv, Orderly, NEW t \in Topics,
           Create(t) \/ \E p \in Peers : AddMember(t, p)
    PROVE  Orderly'
<1>1. PICK l \in Labels :
          /\ l = Me \/ (l \in linked[t] /\ l \notin members[t])
          /\ \A u \in Topics : /\ members'[u] = IF u = t THEN members[u] \cup {l}
                                                ELSE members[u]
                               /\ params[u] => params'[u]
          /\ params'[t] \/ linked[t] # {}
          /\ UNCHANGED <<job, linked>>
  <2>1. CASE Create(t)
    BY <2>1 DEF Create, TypeInv, TypeOK, Labels, jobVars
  <2>2. CASE \E p \in Peers : AddMember(t, p)
    <3>1. PICK p \in Peers : AddMember(t, p)
      BY <2>2
    <3> QED BY <3>1 DEF AddMember, TypeInv, TypeOK, Labels, jobVars, Receives
  <2> QED BY <2>1, <2>2
<1>2. Alone' /\ Apart' /\ Fresh'
  BY <1>1 DEF Orderly, Alone, Apart, Fresh, Takes, Running, Adding
<1>3. \A i \in Jobs : Running(i) => job[i] \in Job /\ job[i].topic \in Topics
  BY RunningTyped DEF Running, Job
<1>4. Moded'
  <2>1. \A u \in Topics : members[u] \subseteq members'[u]
    BY <1>1
  <2> QED BY <2>1, <1>1, <1>3 DEF Orderly, Moded, Running
<1>5. Unshared'
  <2> SUFFICES ASSUME NEW i \in Jobs, Running(i)
               PROVE  /\ job[i].kind = "leave" =>
                          /\ linked[job[i].topic] \subseteq members'[job[i].topic]
                          /\ \A u \in Topics \ {job[i].topic} :
                                linked[u] \cap members'[job[i].topic] = {}
                      /\ job[i].kind = "remove" =>
                             \A u \in Topics : linked[u] \cap job[i].peers = {}
    BY <1>1 DEF Unshared, Running
  <2>1. job[i].topic \in Topics
    BY <1>3
  <2>2. CASE job[i].kind = "leave" /\ job[i].topic = t
    <3>1. linked[t] \subseteq members[t] /\ \A u \in Topics \ {t} : linked[u] \cap members[t] = {}
      BY <2>2 DEF Orderly, Unshared
    <3>2. l = Me
      BY <3>1, <1>1
    <3>3. Me \notin Peers /\ \A u \in Topics : linked[u] \subseteq Peers
      BY ConstantsAssumption DEF TypeInv, TypeOK
    <3>4. members'[t] = members[t] \cup {Me}
      BY <3>2, <1>1
    <3>5. \A u \in Topics : linked[u] \cap members'[t] = linked[u] \cap members[t]
      BY <3>3, <3>4
    <3>6. /\ linked[t] \subseteq members'[t]
          /\ \A u \in Topics \ {t} : linked[u] \cap members'[t] = {}
      BY <3>1, <3>4, <3>5
    <3> QED BY <3>6, <2>2
  <2>3. CASE ~(job[i].kind = "leave" /\ job[i].topic = t)
    BY <2>3, <2>1, <1>1 DEF Orderly, Unshared
  <2> QED BY <2>2, <2>3
<1> QED BY <1>2, <1>4, <1>5 DEF Orderly

LEMMA DepartOrderly ==
    ASSUME TypeInv, Orderly, Calm', NEW t \in Topics, NEW p \in Peers, Depart(t, p)
    PROVE  Orderly'
<1>1. /\ \A u \in Topics : linked'[u] = IF u = t THEN linked[u] \ {p} ELSE linked[u]
      /\ p \in linked[t]
      /\ UNCHANGED storeVars
  BY DEF Depart, TypeInv, TypeOK
<1>2. ASSUME UNCHANGED job PROVE Orderly'
  <2>1. \A u \in Topics : linked'[u] \subseteq linked[u]
    BY <1>1
  <2>2. \A i \in Jobs : Running(i) => job[i] \in Job /\ job[i].topic \in Topics
    BY RunningTyped DEF Running, Job
  <2>3. UNCHANGED <<job, members, params>>
    BY <1>1, <1>2 DEF storeVars
  <2>4. Alone' /\ Apart' /\ Moded'
    BY <2>1, <2>3 DEF Orderly, Alone, Apart, Moded, Takes, Running, Adding
  <2>5. Fresh'
    BY <2>1, <2>2, <2>3 DEF Orderly, Fresh, Running
  <2>6. Unshared'
    BY <2>1, <2>2, <2>3 DEF Orderly, Unshared, Running
  <2> QED BY <2>4, <2>5, <2>6 DEF Orderly
<1>3. ASSUME NEW j \in Jobs, Begin(j, "remove", t, {p}, "ready"),
             seen' = Note(j, "remove", t, {p})
      PROVE  Orderly'
  <2>1. "clash" \notin Note(j, "remove", t, {p}) /\ "shared" \notin Note(j, "remove", t, {p})
    BY <1>3 DEF Calm
  <2>2. \A u \in Topics \ {t} : linked[u] \cap {p} = {}
    BY <2>1, NoteShared
  <2>3. params[t]
    BY <1>1 DEF Orderly, Moded
  <2>4. /\ \A u \in Topics : linked'[u] \cap {p} = {}
        /\ \A u \in Topics : linked'[u] \subseteq linked[u]
    BY <1>1, <2>2
  <2>5. PICK k \in Kinds \ {"conn"} : k = "remove"
    BY DEF Kinds
  <2>6. PICK pc \in {"asking", "ready"} : pc = "ready"
    OBVIOUS
  <2>7. Begin(j, k, t, {p}, pc) /\ "clash" \notin Note(j, k, t, {p})
    BY <2>1, <2>5, <2>6, <1>3
  <2> QED BY <2>3, <2>4, <2>5, <2>7, <1>1, BeginOrderly
<1> QED BY <1>2, <1>3 DEF Depart

LEMMA EnvironmentOrderly ==
    ASSUME TypeInv, Orderly, Calm', Environment
    PROVE  Orderly'
<1>1. CASE CloseConnector \/ ClosePublisher
  BY <1>1, StutterOrderly DEF CloseConnector, ClosePublisher, jobVars, storeVars
<1>2. ASSUME NEW t \in Topics, StartJoin(t) PROVE Orderly'
  <2>1. PICK j \in Jobs, k \in Kinds \ {"conn"}, pc \in {"asking", "ready"} :
            /\ k = "join" /\ pc = "asking"
            /\ Begin(j, k, t, {}, pc) /\ seen' = Note(j, k, t, {})
            /\ UNCHANGED storeVars /\ UNCHANGED linked
    BY <1>2 DEF StartJoin, Kinds
  <2>2. "clash" \notin Note(j, k, t, {}) /\ "twice" \notin Note(j, k, t, {})
    BY <2>1 DEF Calm
  <2> QED BY <2>1, <2>2, BeginOrderly
<1>3. ASSUME NEW t \in Topics, StartLeave(t) PROVE Orderly'
  <2>1. PICK j \in Jobs, k \in Kinds \ {"conn"}, pc \in {"asking", "ready"} :
            /\ k = "leave" /\ pc = "ready"
            /\ Begin(j, k, t, {}, pc)
            /\ seen' = Note(j, k, t, members[t] \cup linked[t]) \cup
                           {c \in {"early"} : ~(linked[t] \subseteq members[t])}
            /\ UNCHANGED storeVars /\ UNCHANGED linked
    BY <1>3 DEF StartLeave, Kinds
  <2>2. /\ "clash" \notin Note(j, k, t, members[t] \cup linked[t])
        /\ "shared" \notin Note(j, k, t, members[t] \cup linked[t])
        /\ linked[t] \subseteq members[t]
    BY <2>1 DEF Calm
  <2>3. \A u \in Topics \ {t} : linked[u] \cap (members[t] \cup linked[t]) = {}
    BY <2>1, <2>2, NoteShared
  <2>4. \A u \in Topics \ {t} : linked[u] \cap members[t] = {}
    BY <2>3
  <2>5. PICK noted : noted = members[t] \cup linked[t]
    OBVIOUS
  <2>6. "clash" \notin Note(j, k, t, noted)
    BY <2>2, <2>5
  <2> QED BY <2>1, <2>2, <2>4, <2>6, BeginOrderly
<1>4. ASSUME NEW t \in Topics, NEW p \in Peers, StartSubscription(t, p) PROVE Orderly'
  <2>1. PICK j \in Jobs, k \in Kinds \ {"conn"}, pc \in {"asking", "ready"} :
            /\ k = "sub" /\ pc = "ready"
            /\ Begin(j, k, t, {p}, pc) /\ seen' = Note(j, k, t, {p})
            /\ UNCHANGED storeVars /\ UNCHANGED linked /\ Me \in members[t]
    BY <1>4 DEF StartSubscription, Kinds
  <2>2. "clash" \notin Note(j, k, t, {p}) /\ "twice" \notin Note(j, k, t, {p})
    BY <2>1 DEF Calm
  <2> QED BY <2>1, <2>2, BeginOrderly
<1>5. ASSUME NEW t \in Topics, NEW p \in Peers, Depart(t, p) PROVE Orderly'
  BY <1>5, DepartOrderly
<1>6. ASSUME NEW t \in Topics, Create(t) \/ \E p \in Peers : AddMember(t, p)
      PROVE  Orderly'
  BY <1>6, JoinedOrderly
<1> QED BY <1>1, <1>2, <1>3, <1>4, <1>5, <1>6 DEF Environment

\* What a listener leaves alone.
LEMMA ListenStays ==
    ASSUME ListenState \/ ListenData
    PROVE  UNCHANGED storeVars /\ UNCHANGED jobVars /\ UNCHANGED open
BY DEF ListenState, ListenData, StateAuth, StateConnect, StateDisconnect,
   StateUnsubAll, StatePass, DataAuth, DataConnect, DataPass, DataUnsub,
   DataUnsubAll, Panic

LEMMA OpenKept == [Next]_vars => open' \subseteq open
<1> SUFFICES ASSUME [Next]_vars PROVE open' \subseteq open
  OBVIOUS
<1>1. CASE UNCHANGED vars
  BY <1>1 DEF vars, loopVars
<1>2. CASE Environment
  BY <1>2 DEF Environment, Create, StartJoin, StartLeave, StartSubscription,
     AddMember, Depart, CloseConnector, ClosePublisher, loopVars
<1>3. CASE ListenState \/ ListenData
  BY <1>3, ListenStays
<1>4. ASSUME NEW j \in Jobs, Proceed(j) PROVE open' \subseteq open
  BY <1>4 DEF Proceed, ReceiveGroup, Answer, Ask, ReadState, ReadData, Finish, loopVars
<1> QED BY <1>1, <1>2, <1>3, <1>4 DEF Next, Work

LEMMA CalmBefore == [Next]_vars /\ Calm' => Calm
BY SeenKept, OpenKept DEF Calm

LEMMA NextOrder == TypeInv /\ AskInv /\ OrderInv /\ [Next]_vars => OrderInv'
<1> SUFFICES ASSUME TypeInv, AskInv, OrderInv, [Next]_vars, Calm' PROVE Orderly'
  BY DEF OrderInv
<1>0. Orderly /\ "publisher" \in open
  BY CalmBefore DEF OrderInv, Calm
<1>1. CASE UNCHANGED vars
  BY <1>0, <1>1, StutterOrderly DEF vars, jobVars, storeVars
<1>2. CASE Environment
  BY <1>0, <1>2, EnvironmentOrderly
<1>3. CASE ListenState \/ ListenData
  BY <1>0, <1>3, ListenStays, StutterOrderly DEF jobVars, storeVars
<1>4. ASSUME NEW j \in Jobs, Proceed(j) PROVE Orderly'
  <2>1. ASSUME NEW g \in SUBSET Peers, ReceiveGroup(j, g) PROVE Orderly'
    BY <2>1, <1>0, ReceiveGroupOrderly
  <2>2. CASE Answer(j) \/ ReadState(j) \/ \E op \in Ops, p \in Labels : Ask(j, op, p)
    BY <2>2, <1>0, ProceedGoesOn, GoesOnOrderly DEF Answer, ReadState, Ask, storeVars
  <2>3. CASE ReadData(j)
    BY <2>3, <1>0, ReadDataOrderly
  <2>4. CASE Finish(j)
    BY <2>4, <1>0, FinishOrderly
  <2> QED BY <1>4, <2>1, <2>2, <2>3, <2>4 DEF Proceed
<1> QED BY <1>1, <1>2, <1>3, <1>4 DEF Next, Work

LEMMA InitOrder == Init => OrderInv
<1> SUFFICES ASSUME Init PROVE Orderly
  BY DEF OrderInv
<1>1. \A j \in Jobs : ~Running(j)
  BY DEF Init, NoJob, Running
<1>2. Alone /\ Apart /\ Fresh /\ Unshared
  BY <1>1 DEF Alone, Apart, Fresh, Unshared, Takes
<1>3. Moded
  BY <1>1 DEF Init, Moded
<1> QED BY <1>2, <1>3 DEF Orderly

-----------------------------------------------------------------------------
(* Client keys.                                                             *)

\* The state listener has accepted the key of the peer of j.
Accepted(j) ==
    /\ Running(j)
    /\ job[j].op = "connect" \/ (job[j].op = "auth" /\ j \notin Queued("state"))

Keyed ==
    /\ \A t \in Topics : linked[t] \subseteq keys
    /\ \A j \in Jobs : Accepted(j) => job[j].peer \in keys

KeyedInv == Calm => Keyed

LEMMA KeyedStep ==
    ASSUME Keyed, UNCHANGED keys, NEW j \in Jobs,
           \A t \in Topics : linked'[t] \subseteq keys,
           \A i \in Jobs \ {j} : job'[i] = job[i],
           \A i \in Jobs \ {j} : i \in Queued("state")' <=> i \in Queued("state"),
           Accepted(j)' => job'[j].peer \in keys
    PROVE  Keyed'
<1>1. \A i \in Jobs \ {j} : Accepted(i)' => job'[i].peer \in keys
  BY DEF Keyed, Accepted, Running
<1> QED BY <1>1 DEF Keyed

\* A user or a peer leaves the transport alone, and starts one call at most.
LEMMA EnvironmentStays ==
    ASSUME TypeInv, Environment
    PROVE  /\ UNCHANGED <<queue, busy, up>> /\ UNCHANGED socketVars
           /\ \A u \in Topics : linked'[u] \subseteq linked[u]
           /\ \/ UNCHANGED job
              \/ \E j \in Jobs, k \in Kinds, t \in Topics, ps \in SUBSET Peers,
                    pc \in {"asking", "ready"} : Begin(j, k, t, ps, pc)
<1>1. UNCHANGED <<queue, busy, up>> /\ UNCHANGED socketVars
  BY DEF Environment, Create, StartJoin, StartLeave, StartSubscription, AddMember,
     Depart, CloseConnector, ClosePublisher, loopVars
<1>2. \A u \in Topics : linked'[u] \subseteq linked[u]
  <2>1. CASE \E t \in Topics, p \in Peers : Depart(t, p)
    BY <2>1 DEF Depart, TypeInv, TypeOK
  <2>2. CASE UNCHANGED linked
    BY <2>2
  <2> QED BY <2>1, <2>2 DEF Environment, Create, StartJoin, StartLeave,
        StartSubscription, AddMember, CloseConnector, ClosePublisher, jobVars
<1>3. \/ UNCHANGED job
      \/ \E j \in Jobs, k \in Kinds, t \in Topics, ps \in SUBSET Peers,
            pc \in {"asking", "ready"} : Begin(j, k, t, ps, pc)
  <2>1. CASE \E t \in Topics : Create(t) \/ \E p \in Peers : AddMember(t, p)
    BY <2>1 DEF Create, AddMember, jobVars
  <2>2. CASE CloseConnector \/ ClosePublisher
    BY <2>2 DEF CloseConnector, ClosePublisher, jobVars
  <2>3. ASSUME NEW t \in Topics, StartJoin(t)
        PROVE  \E j \in Jobs : Begin(j, "join", t, {}, "asking")
    BY <2>3 DEF StartJoin
  <2>4. ASSUME NEW t \in Topics, StartLeave(t)
        PROVE  \E j \in Jobs : Begin(j, "leave", t, {}, "ready")
    BY <2>4 DEF StartLeave
  <2>5. ASSUME NEW t \in Topics, NEW p \in Peers, StartSubscription(t, p)
        PROVE  \E j \in Jobs : Begin(j, "sub", t, {p}, "ready")
    BY <2>5 DEF StartSubscription
  <2>6. ASSUME NEW t \in Topics, NEW p \in Peers, Depart(t, p)
        PROVE  UNCHANGED job \/ \E j \in Jobs : Begin(j, "remove", t, {p}, "ready")
    BY <2>6 DEF Depart
  <2>7. /\ {} \in SUBSET Peers /\ \A p \in Peers : {p} \in SUBSET Peers
        /\ {"join", "leave", "sub", "remove"} \subseteq Kinds
    BY DEF Kinds
  <2> QED BY <2>1, <2>2, <2>3, <2>4, <2>5, <2>6, <2>7 DEF Environment
<1> QED BY <1>1, <1>2, <1>3

LEMMA EnvironmentKeyed ==
    ASSUME TypeInv, Keyed, Environment
    PROVE  Keyed'
<1>1. /\ UNCHANGED <<queue, keys>>
      /\ \A u \in Topics : linked'[u] \subseteq keys
  BY EnvironmentStays DEF socketVars, Keyed
<1>2. CASE UNCHANGED job
  BY <1>1, <1>2 DEF Keyed, Accepted, Running, Queued
<1>3. ASSUME NEW j \in Jobs, NEW k \in Kinds, NEW t \in Topics,
             NEW ps \in SUBSET Peers, NEW pc \in {"asking", "ready"}, Begin(j, k, t, ps, pc)
      PROVE  Keyed'
  <2>1. Becomes(j, k, t, ps, ps, "none", Me, pc)
    BY <1>3, BeginBecomes DEF Steps
  <2>2. ~Accepted(j)' /\ \A i \in Jobs \ {j} : job'[i] = job[i]
    BY <2>1 DEF Becomes, Accepted
  <2> QED BY <2>2, <1>1, KeyedStep DEF Queued
<1> QED BY <1>2, <1>3, EnvironmentStays

LEMMA ProceedKeyed ==
    ASSUME TypeInv, CallInv, AskInv, Orderly, Keyed, NEW j \in Jobs, Proceed(j)
    PROVE  Keyed'
<1>0. job[j] \in Job => Shape(job[j])
  BY DEF AskInv, Shaped
<1>1. ASSUME NEW g \in SUBSET Peers, ReceiveGroup(j, g) PROVE Keyed'
  <2>1. /\ job[j] \in Job /\ job[j].pc = "asking" /\ UNCHANGED <<queue, keys, linked>>
        /\ Becomes(j, job[j].kind, job[j].topic, g, g, job[j].op, job[j].peer, "ready")
    BY <1>1, ReceiveGroupBecomes DEF ReceiveGroup, socketVars, loopVars
  <2>2. ~Accepted(j)'
    BY <2>1, <1>0 DEF Shape, Becomes, Accepted
  <2> QED BY <2>1, <2>2, KeyedStep DEF Becomes, Queued, Keyed
<1>2. CASE Answer(j) \/ ReadState(j) \/ ReadData(j)
  <2>1. PICK k \in Kinds, td \in SUBSET Peers, pc \in Steps :
            /\ job[j] \in Job /\ Running(j)
            /\ Becomes(j, k, job[j].topic, job[j].peers, td, job[j].op, job[j].peer, pc)
            /\ UNCHANGED <<queue, keys>>
    <3>1. CASE Answer(j)
      <4>1. /\ job[j] \in Job /\ Running(j) /\ UNCHANGED <<queue, keys>>
            /\ job[j].todo \in SUBSET Peers /\ {"sub", "conn"} \subseteq Kinds
            /\ {"ready", "failed"} \subseteq Steps
        BY <3>1, AnswerBecomes DEF Answer, loopVars, socketVars, Running, Job, Kinds, Steps
      <4> QED BY <3>1, <4>1, AnswerBecomes
    <3>2. CASE ReadState(j)
      <4>1. /\ job[j] \in Job /\ Running(j) /\ UNCHANGED <<queue, keys>>
            /\ job[j].todo \in SUBSET Peers /\ job[j].kind \in Kinds
            /\ {"data", "failed"} \subseteq Steps
        BY <3>2, ReadStateBecomes DEF ReadState, socketVars, Running, Job, Steps
      <4> QED BY <3>2, <4>1, ReadStateBecomes
    <3>3. CASE ReadData(j)
      <4>1. /\ job[j] \in Job /\ Running(j) /\ UNCHANGED <<queue, keys>>
            /\ job[j].todo \in SUBSET Peers /\ job[j].kind \in Kinds
            /\ {"ready", "failed"} \subseteq Steps
        BY <3>3, ReadDataBecomes DEF ReadData, socketVars, Running, Job, Steps
      <4>2. job[j].todo \ {job[j].peer} \in SUBSET Peers
        BY <4>1
      <4> QED BY <3>3, <4>1, <4>2, ReadDataBecomes
    <3> QED BY <1>2, <3>1, <3>2, <3>3
  <2>2. Accepted(j)' => Accepted(j) /\ job'[j].peer = job[j].peer
    BY <2>1 DEF Becomes, Accepted, Queued
  <2>3. \A t \in Topics : linked'[t] \subseteq keys
    <3>1. CASE UNCHANGED linked
      BY <3>1 DEF Keyed
    <3>2. CASE linked' # linked
      <4>1. ReadData(j)
        BY <3>2, <1>2 DEF Answer, ReadState
      <4>2. /\ job[j].op = "connect"
            /\ \A u \in Topics : linked'[u] \subseteq linked[u] \cup {job[j].peer}
        BY <4>1, <3>2 DEF ReadData, TypeInv, TypeOK
      <4>3. job[j].peer \in keys
        BY <4>2, <2>1 DEF Keyed, Accepted
      <4> QED BY <4>2, <4>3 DEF Keyed
    <3> QED BY <3>1, <3>2
  <2>4. Accepted(j) => job[j].peer \in keys
    BY DEF Keyed
  <2> QED BY <2>1, <2>2, <2>3, <2>4, KeyedStep DEF Becomes, Queued
<1>3. ASSUME NEW op \in Ops, NEW p \in Labels, Ask(j, op, p) PROVE Keyed'
  <2>1. PICK pc \in {"state", "hung"} :
            /\ job[j] \in Job /\ job[j].pc = "ready" /\ NextRequest(j, op, p)
            /\ Becomes(j, job[j].kind, job[j].topic, job[j].peers, job[j].todo,
                       op, p, pc)
            /\ pc = "state" => "connector" \in open
            /\ pc = "hung" => UNCHANGED queue
            /\ UNCHANGED <<keys, linked>>
    BY <1>3, AskBecomes DEF Ask, socketVars
  <2>2. /\ \A s \in Sockets, i \in Jobs \ {j} : i \in Queued(s)' <=> i \in Queued(s)
        /\ pc = "state" => \A s \in Sockets : j \in Queued(s)'
    <3>1. CASE pc = "state"
      BY <3>1, <2>1, <1>3, AppendQueued
    <3>2. CASE pc = "hung"
      BY <3>2, <2>1 DEF Queued
    <3> QED BY <3>1, <3>2
  <2>3. \A s \in Sockets : j \notin Queued(s)
    BY <2>1 DEF CallInv, NoneBetween, Waiting, Failed
  <2>4. ASSUME Accepted(j)' PROVE job'[j].peer \in keys
    <3>1. job'[j].op = op /\ job'[j].peer = p /\ pc = "state"
      BY <2>1, <2>4 DEF Becomes, Accepted, Running
    <3>2. op = "connect"
      BY <3>1, <2>2, <2>4 DEF Accepted, Sockets
    <3>3. job[j].op = "auth" /\ p = job[j].peer /\ Running(j)
      BY <3>2, <2>1 DEF NextRequest, Running
    <3> QED BY <3>1, <3>3, <2>3 DEF Keyed, Accepted, Sockets
  <2> QED BY <2>1, <2>2, <2>4, KeyedStep DEF Becomes, Keyed, Sockets
<1>4. CASE Finish(j)
  <2>1. /\ job[j] \in Job /\ job[j].pc = "ready" /\ UNCHANGED queue
        /\ ~Running(j)' /\ \A i \in Jobs \ {j} : job'[i] = job[i]
        /\ keys' = IF job[j].kind = "remove" THEN keys \ job[j].peers ELSE keys
        /\ \A u \in Topics : linked'[u] \subseteq linked[u]
    <3>1. /\ job[j] \in Job /\ job[j].pc = "ready" /\ ~Running(j)'
          /\ \A i \in Jobs \ {j} : job'[i] = job[i]
      BY <1>4, FinishBecomes DEF Becomes, Ends, DoneJob, Running
    <3> QED BY <3>1, <1>4 DEF Finish, loopVars, TypeInv, TypeOK
  <2>2. CASE job[j].kind # "remove"
    <3>1. \A t \in Topics : linked'[t] \subseteq keys
      BY <2>1 DEF Keyed
    <3> QED BY <3>1, <2>1, <2>2, KeyedStep DEF Accepted, Queued
  <2>3. CASE job[j].kind = "remove"
    <3>1. \A i \in Jobs : ~Running(i)'
      BY <2>1, <2>3 DEF Orderly, Alone, Takes, Running
    <3>2. \A u \in Topics : linked[u] \cap job[j].peers = {}
      BY <2>1, <2>3 DEF Orderly, Unshared, Running
    <3> QED BY <3>1, <3>2, <2>1, <2>3 DEF Keyed, Accepted
  <2> QED BY <2>2, <2>3
<1> QED BY <1>1, <1>2, <1>3, <1>4 DEF Proceed

LEMMA ListenKeyed ==
    ASSUME TypeInv, CallInv, AskInv, Keyed, ListenState \/ ListenData
    PROVE  Keyed'
<1>0. UNCHANGED <<job, linked>>
  BY ListenStays DEF jobVars
<1>1. CASE ListenData
  <2>1. queue["data"] # <<>> /\ Receive("data") /\ UNCHANGED keys
    BY <1>1 DEF ListenData, DataAuth, DataConnect, DataPass, DataUnsub, DataUnsubAll,
       Panic, socketVars
  <2>2. Queued("state")' = Queued("state")
    BY <2>1, TakeQueued DEF Sockets
  <2> QED BY <2>1, <2>2, <1>0 DEF Keyed, Accepted, Running
<1>2. CASE ListenState
  <2>1. PICK r : r = Head(queue["state"])
    OBVIOUS
  <2>2. /\ queue["state"] # <<>> /\ Receive("state")
        /\ keys \subseteq keys' /\ (r.op = "auth" => r.peer \in keys')
    BY <1>2, <2>1 DEF ListenState, StateAuth, StateConnect, StateDisconnect,
       StateUnsubAll, StatePass, socketVars
  <2>3. /\ Queued("state")' = Queued("state") \ {r.job} /\ r \in Asked("state")
        /\ r.job \in Jobs
    BY <2>1, <2>2, TakeQueued, TakeAsked DEF Sockets
  <2>4. job[r.job].op = r.op /\ job[r.job].peer = r.peer
    BY <2>3 DEF AskInv, Matched, Matches, Sockets
  <2>5. \A i \in Jobs \ {r.job} : Accepted(i)' <=> Accepted(i)
    BY <2>3, <1>0 DEF Accepted, Running
  <2>6. Accepted(r.job)' => Accepted(r.job) \/ r.op = "auth"
    BY <2>4, <1>0 DEF Accepted, Running
  <2> QED BY <2>2, <2>3, <2>4, <2>5, <2>6, <1>0 DEF Keyed
<1> QED BY <1>1, <1>2

LEMMA NextKeyed ==
    TypeInv /\ CallInv /\ AskInv /\ OrderInv /\ KeyedInv /\ [Next]_vars => KeyedInv'
<1> SUFFICES ASSUME TypeInv, CallInv, AskInv, OrderInv, KeyedInv, [Next]_vars, Calm'
             PROVE  Keyed'
  BY DEF KeyedInv
<1>0. Keyed /\ Orderly
  BY CalmBefore DEF KeyedInv, OrderInv
<1>1. CASE UNCHANGED vars
  BY <1>0, <1>1 DEF vars, jobVars, socketVars, loopVars, Keyed, Accepted, Running, Queued
<1> QED BY <1>0, <1>1, EnvironmentKeyed, ProceedKeyed, ListenKeyed DEF Next, Work

LEMMA InitKeyed == Init => KeyedInv
<1> SUFFICES ASSUME Init PROVE Keyed
  BY DEF KeyedInv
<1>1. \A j \in Jobs : ~Running(j)
  BY DEF Init, NoJob, Running
<1> QED BY <1>1 DEF Init, Keyed, Accepted

-----------------------------------------------------------------------------
(* What the sockets are connected to.                                       *)

\* The call j, which removes or leaves, has let go of its peers at socket s.
Released(s, j) ==
    \/ job[j].op = "unsubAll" /\ j \notin Queued(s)
    \/ s = "state" /\ job[j].op = "disconnect" /\ j \notin Queued(s)
    \/ job[j].op = "unsubData" /\ (s = "state" \/ j \notin Queued(s))

\* Socket s is connected to p for the call j: s has been connected and j not
\* read both replies yet, or s is still to be disconnected.
Holds(s, j, t, p) ==
    /\ Running(j) /\ job[j].topic = t
    /\ \/ job[j].op = "connect" /\ j \in Waiting \ Queued(s) /\ p = job[j].peer
       \/ job[j].kind = "remove" /\ p \in job[j].peers /\ ~Released(s, j)
       \/ job[j].kind = "leave" /\ p \in members[t] /\ ~Released(s, j)

Leaves(s, j, t) ==
    Running(j) /\ job[j].topic = t /\ job[j].kind = "leave" /\ Released(s, j)

Held(s, t) ==
    {p \in Peers :
        /\ Uses(s, p)
        /\ \/ p \in linked[t] /\ \A j \in Jobs : ~Leaves(s, j, t)
           \/ \E j \in Jobs : Holds(s, j, t, p)}

Tied ==
    \A s \in Sockets, p \in Peers :
        conn[s][p] # {} <=> \E t \in Topics : p \in Held(s, t)

Counted ==
    \A t \in Topics, l \in Labels :
        dataRefs[t][l] = Cardinality({p \in Held("data", t) : DataTopic(t, p) = l})

Filtered == \A t \in Topics : Held("state", t) # {} => refs[t] > 0

\* A member is linked unless it is being removed, or the agent leaves.
Known ==
    \A t \in Topics : \A p \in members[t] \ {Me} :
        \/ p \in linked[t]
        \/ \E j \in Jobs : /\ Takes(j) /\ job[j].topic = t
                           /\ job[j].kind = "leave" \/ p \in job[j].peers

\* A peer that has been added is linked.
AddedLinked ==
    \A j \in Jobs : Running(j) /\ job[j].kind \in Adders =>
        job[j].peers \ job[j].todo \subseteq linked[job[j].topic]

Follows == Tied /\ Counted /\ Filtered /\ Known /\ AddedLinked

NoHung == \A j \in Jobs : job[j].pc # "hung"

NoneFailed ==
    /\ up /\ Failed = {}
    /\ \A s \in Sockets : busy[s] # Idle => busy[s].ok

\* What is still to be disconnected is connected.
Sure ==
    \A s \in Sockets, j \in Jobs : j \in Queued(s) =>
        /\ job[j].op = "disconnect" /\ s = "state" => conn[s][job[j].peer] # {}
        /\ job[j].op = "unsubData" /\ s = "data" => conn[s][job[j].peer] # {}
        /\ job[j].op = "unsubAll" =>
               \A p \in members[job[j].topic] \ {Me} : Uses(s, p) => conn[s][p] # {}

HungInv == "connector" \in open => NoHung
SureInv == Calm => NoneFailed /\ Sure
FollowInv == Calm /\ NoHung => Follows

\* A request in a queue is one of a call that runs.
LEMMA QueuedRuns ==
    ASSUME CallInv, Failed = {}, NEW s \in Sockets, NEW j \in Jobs, j \in Queued(s)
    PROVE  Running(j) /\ job[j].pc \in {"state", "data"}
BY DEF CallInv, NoneBetween, Waiting, Running

LEMMA SureStep ==
    ASSUME Sure, UNCHANGED conn,
           \A s \in Sockets, i \in Jobs : i \in Queued(s)' =>
               /\ i \in Queued(s)
               /\ job'[i].op = job[i].op /\ job'[i].peer = job[i].peer
               /\ job'[i].topic = job[i].topic
               /\ job[i].op = "unsubAll" =>
                      members'[job[i].topic] \subseteq members[job[i].topic] \cup {Me}
    PROVE  Sure'
BY DEF Sure, Uses

LEMMA EnvironmentSure ==
    ASSUME TypeInv, CallInv, AskInv, Orderly, NoneFailed, Sure, Environment
    PROVE  NoneFailed' /\ Sure'
<1>1. UNCHANGED <<queue, busy, up, conn>>
  BY EnvironmentStays DEF socketVars
<1>2. \A i \in Jobs : i \notin Failed' /\ (job[i] # NoJob => job'[i] = job[i])
  <2>1. CASE UNCHANGED job
    BY <2>1 DEF NoneFailed, Failed
  <2>2. ASSUME NEW j \in Jobs, NEW k \in Kinds, NEW t \in Topics,
               NEW ps \in SUBSET Peers, NEW pc \in {"asking", "ready"}, Begin(j, k, t, ps, pc)
        PROVE  \A i \in Jobs : i \notin Failed' /\ (job[i] # NoJob => job'[i] = job[i])
    <3>1. Becomes(j, k, t, ps, ps, "none", Me, pc) /\ job[j] = NoJob
      BY <2>2, BeginBecomes DEF Steps
    <3> QED BY <3>1 DEF Becomes, NoneFailed, Failed
  <2> QED BY <2>1, <2>2, EnvironmentStays
<1>3. ASSUME NEW s \in Sockets, NEW i \in Jobs, i \in Queued(s)'
      PROVE  /\ i \in Queued(s) /\ job'[i] = job[i]
             /\ job[i].op = "unsubAll" =>
                    members'[job[i].topic] \subseteq members[job[i].topic] \cup {Me}
  <2>1. i \in Queued(s)
    BY <1>1, <1>3 DEF Queued
  <2>2. Running(i)
    BY <2>1, QueuedRuns DEF NoneFailed
  <2>3. job'[i] = job[i] /\ job[i] \in Job /\ job[i].topic \in Topics
    BY <2>2, <1>2, RunningTyped DEF Running, NoJob, Job
  <2>4. ASSUME job[i].op = "unsubAll",
               ~(members'[job[i].topic] \subseteq members[job[i].topic] \cup {Me})
        PROVE  FALSE
    <3>0. ASSUME UNCHANGED members \/ \E t \in Topics : Create(t) PROVE FALSE
      BY <3>0, <2>3, <2>4 DEF Create, TypeInv, TypeOK
    <3>1. PICK t \in Topics, p \in Peers : AddMember(t, p)
      BY <3>0 DEF Environment, StartJoin, StartLeave, StartSubscription,
         Depart, CloseConnector, ClosePublisher, storeVars
    <3>2. /\ p \in linked[t] /\ p \notin members[t] /\ job[i].topic = t
      BY <3>1, <2>3, <2>4 DEF AddMember, Receives, TypeInv, TypeOK
    <3>3. job[i].kind = "leave"
      BY <2>3, <2>4 DEF AskInv, Shaped, Shape
    <3> QED BY <3>2, <3>3, <2>2 DEF Orderly, Unshared
  <2> QED BY <2>1, <2>3, <2>4
<1>4. Sure'
  BY <1>1, <1>3, SureStep
<1> QED BY <1>1, <1>2, <1>4 DEF NoneFailed, Failed

LEMMA AskSure ==
    ASSUME TypeInv, CallInv, AskInv, NoneFailed, Sure, "connector" \in open => Tied,
           NEW j \in Jobs, NEW op \in Ops, NEW p \in Labels, Ask(j, op, p)
    PROVE  NoneFailed' /\ Sure'
<1>1. PICK pc \in {"state", "hung"} :
          /\ job[j] \in Job /\ job[j].pc = "ready" /\ NextRequest(j, op, p)
          /\ Becomes(j, job[j].kind, job[j].topic, job[j].peers, job[j].todo,
                     op, p, pc)
          /\ pc = "state" => "connector" \in open
          /\ pc = "hung" => UNCHANGED queue
          /\ UNCHANGED <<busy, up, conn, members, linked>>
  BY AskBecomes DEF Ask, socketVars, storeVars
<1>2. NoneFailed'
  BY <1>1 DEF NoneFailed, Failed, Becomes
<1>3. \A s \in Sockets : j \notin Queued(s)
  BY <1>1 DEF CallInv, NoneBetween, Waiting, Failed
<1>4. CASE pc = "hung"
  <2>1. \A s \in Sockets : Queued(s)' = Queued(s)
    BY <1>1, <1>4 DEF Queued
  <2> QED BY <2>1, <1>1, <1>2, <1>3, SureStep DEF Becomes
<1>5. CASE pc = "state"
  <2>1. \A s \in Sockets : Queued(s)' = Queued(s) \cup {j}
    BY <1>1, <1>5, AppendQueued
  <2>2. /\ Running(j) /\ Tied /\ Shape(job[j]) /\ job[j].topic \in Topics
        /\ job[j].peers \subseteq Peers
    BY <1>1, <1>5 DEF Running, AskInv, Shaped, Job
  <2>3. ASSUME NEW s \in Sockets, NEW q \in Peers, Uses(s, q),
               Holds(s, j, job[j].topic, q)
        PROVE  conn[s][q] # {}
    <3>1. q \in Held(s, job[j].topic)
      BY <2>3 DEF Held
    <3> QED BY <3>1, <2>2 DEF Tied
  <2>4. job'[j].op = op /\ job'[j].peer = p /\ job'[j].topic = job[j].topic
    BY <1>1 DEF Becomes
  <2>5. op = "disconnect" => conn["state"][p] # {}
    <3>1. op = "disconnect" => /\ job[j].kind = "remove" /\ job[j].op = "none"
                               /\ p \in job[j].peers
      BY <1>1 DEF NextRequest
    <3>2. op = "disconnect" => Holds("state", j, job[j].topic, p) /\ p \in Peers
      BY <3>1, <2>2 DEF Holds, Released
    <3> QED BY <3>2, <2>3 DEF Uses, Sockets
  <2>6. op = "unsubData" => conn["data"][p] # {}
    <3>1. op = "unsubData" => /\ job[j].kind = "remove" /\ job[j].op = "disconnect"
                              /\ p \in job[j].peers /\ p \in Publishers
      BY <1>1, <2>2 DEF NextRequest, Shape
    <3>2. op = "unsubData" => Holds("data", j, job[j].topic, p) /\ p \in Peers
      BY <3>1, <2>2 DEF Holds, Released
    <3> QED BY <3>1, <3>2, <2>3 DEF Uses, Sockets
  <2>7. ASSUME op = "unsubAll", NEW s \in Sockets,
               NEW q \in members[job[j].topic] \ {Me}, Uses(s, q)
        PROVE  conn[s][q] # {}
    <3>1. job[j].kind = "leave" /\ job[j].op = "none"
      BY <1>1, <2>7 DEF NextRequest
    <3>2. q \in Peers
      BY <2>2, <2>7 DEF TypeInv, TypeOK, Labels
    <3>3. Holds(s, j, job[j].topic, q)
      BY <3>1, <2>2, <2>7 DEF Holds, Released
    <3> QED BY <3>2, <3>3, <2>3, <2>7
  <2>8. ASSUME NEW s \in Sockets, NEW i \in Jobs, i \in Queued(s)'
        PROVE  /\ job'[i].op = "disconnect" /\ s = "state" => conn'[s][job'[i].peer] # {}
               /\ job'[i].op = "unsubData" /\ s = "data" => conn'[s][job'[i].peer] # {}
               /\ job'[i].op = "unsubAll" =>
                      \A q \in members'[job'[i].topic] \ {Me} :
                          Uses(s, q) => conn'[s][q] # {}
    <3>1. CASE i = j
      BY <3>1, <1>1, <2>4, <2>5, <2>6, <2>7
    <3>2. CASE i # j
      <4>1. i \in Queued(s) /\ job'[i] = job[i]
        BY <3>2, <2>1, <2>8, <1>1 DEF Becomes
      <4> QED BY <4>1, <1>1 DEF Sure
    <3> QED BY <3>1, <3>2
  <2>9. Sure'
    BY <2>8 DEF Sure, Uses
  <2> QED BY <2>9, <1>2
<1> QED BY <1>1, <1>4, <1>5

\* Whose request a listener takes.
LEMMA Taken ==
    ASSUME TypeInv, CallInv, AskInv, NoneFailed, NEW s \in Sockets, queue[s] # <<>>,
           Receive(s), NEW r, r = Head(queue[s])
    PROVE  /\ r.job \in Jobs /\ job[r.job] \in Job /\ Shape(job[r.job])
           /\ Running(r.job) /\ r.job \in Waiting /\ job[r.job].pc \in {"state", "data"}
           /\ job[r.job].op = r.op /\ job[r.job].topic = r.topic
           /\ job[r.job].peer = r.peer
           /\ r.topic \in Topics /\ (r.op \notin {"none", "unsubAll"} => r.peer \in Peers)
           /\ r.job \in Queued(s)
           /\ \A u \in Sockets :
                  Queued(u)' = IF u = s THEN Queued(s) \ {r.job} ELSE Queued(u)
<1>1. /\ r.job \in Queued(s) /\ r.job \in Jobs /\ r \in Asked(s)
      /\ \A u \in Sockets :
             Queued(u)' = IF u = s THEN Queued(s) \ {r.job} ELSE Queued(u)
  BY TakeQueued, TakeAsked
<1>2. Matches(r)
  BY <1>1 DEF AskInv, Matched
<1>3. Running(r.job) /\ job[r.job].pc \in {"state", "data"}
  BY <1>1, QueuedRuns DEF NoneFailed
<1>4. r \in Request /\ NamesPeer(r)
  BY ReceiveTyped
<1>5. Shape(job[r.job])
  BY <1>1, <1>2 DEF Matches, AskInv, Shaped
<1> QED BY <1>1, <1>2, <1>3, <1>4, <1>5 DEF Matches, Request, NamesPeer, Waiting

\* A listener connects or disconnects the peers of one call only.
LEMMA TakenSure ==
    ASSUME TypeInv, CallInv, AskInv, Alone, NoneFailed, Sure, NEW s \in Sockets,
           queue[s] # <<>>, Receive(s), NEW r, r = Head(queue[s]),
           UNCHANGED <<job, members>>,
           \A u \in Sockets \ {s} : conn'[u] = conn[u]
    PROVE  Sure'
<1>1. /\ r.job \in Jobs /\ Running(r.job)
      /\ \A u \in Sockets :
             Queued(u)' = IF u = s THEN Queued(s) \ {r.job} ELSE Queued(u)
  BY Taken
<1> SUFFICES ASSUME NEW u \in Sockets, NEW i \in Jobs, i \in Queued(u)'
             PROVE  /\ job[i].op = "disconnect" /\ u = "state"
                           => conn'[u][job[i].peer] # {}
                    /\ job[i].op = "unsubData" /\ u = "data"
                           => conn'[u][job[i].peer] # {}
                    /\ job[i].op = "unsubAll" =>
                           \A p \in members[job[i].topic] \ {Me} :
                               Uses(u, p) => conn'[u][p] # {}
  BY DEF Sure, Uses
<1>2. i \in Queued(u) /\ Running(i) /\ job[i] \in Job /\ Shape(job[i])
  <2>1. i \in Queued(u)
    BY <1>1
  <2>2. Running(i)
    BY <2>1, QueuedRuns DEF NoneFailed
  <2> QED BY <2>1, <2>2, RunningTyped DEF Running, AskInv, Shaped
<1>3. CASE u # s
  BY <1>2, <1>3 DEF Sure
<1>4. CASE u = s
  <2>1. i # r.job
    BY <1>1, <1>4
  <2>2. ~Takes(i)
    BY <2>1, <1>1 DEF Alone
  <2> QED BY <2>2, <1>2 DEF Takes, Shape
<1> QED BY <1>3, <1>4

LEMMA ListenStateSure ==
    ASSUME TypeInv, CallInv, AskInv, Orderly, NoneFailed, Sure, ListenState
    PROVE  NoneFailed' /\ Sure'
<1>0. UNCHANGED job /\ UNCHANGED members /\ "state" \in Sockets
  BY ListenStays DEF jobVars, storeVars, Sockets
<1>1. PICK r : r = Head(queue["state"])
  OBVIOUS
<1>2. /\ queue["state"] # <<>> /\ Receive("state") /\ UNCHANGED up
      /\ StateAuth(r) \/ StateConnect(r) \/ StateDisconnect(r)
         \/ StateUnsubAll(r) \/ StatePass(r)
  BY <1>1 DEF ListenState, StateAuth, StateConnect, StateDisconnect, StateUnsubAll,
     StatePass
<1>3. \/ conn' = conn
      \/ \E ps : conn' = Disconnected("state", ps)
      \/ conn' = Connected("state", r.peer)
  BY <1>2 DEF StateAuth, StateConnect, StateDisconnect, StateUnsubAll, StatePass, socketVars
<1>4. \A u \in Sockets \ {"state"} : conn'[u] = conn[u]
  BY <1>3 DEF Disconnected, Connected, TypeInv, TypeOK
<1>5. Sure'
  BY <1>0, <1>1, <1>2, <1>4, TakenSure DEF Orderly
<1>6. /\ r.job \in Jobs /\ job[r.job].op = r.op /\ job[r.job].topic = r.topic
      /\ job[r.job].peer = r.peer /\ r.job \in Queued("state")
  BY <1>0, <1>1, <1>2, Taken
<1>7. PICK ok \in BOOLEAN : Answers("state", r, ok) /\ ok
  <2>1. CASE StateAuth(r) \/ StateConnect(r) \/ StatePass(r)
    BY <2>1 DEF StateAuth, StateConnect, StatePass
  <2>2. CASE StateDisconnect(r)
    BY <2>2, <1>0, <1>6 DEF StateDisconnect, Sure
  <2>3. CASE StateUnsubAll(r)
    <3>1. \A p \in members[r.topic] \ {Me} : conn["state"][p] # {}
      BY <2>3, <1>0, <1>6 DEF StateUnsubAll, Sure, Uses
    <3>2. On("state", members[r.topic] \ {Me}) = members[r.topic] \ {Me}
      BY <3>1 DEF On
    <3> QED BY <3>2, <2>3 DEF StateUnsubAll
  <2> QED BY <2>1, <2>2, <2>3, <1>2
<1>8. NoneFailed'
  BY <1>0, <1>2, <1>7 DEF NoneFailed, Failed, Answers, TypeInv, TypeOK
<1> QED BY <1>5, <1>8

\* The mode of a topic is known when it is asked for.
LEMMA NoPanic ==
    ASSUME TypeInv, CallInv, AskInv, Orderly, NoneFailed,
           queue["data"] # <<>>, Receive("data"), NEW r, r = Head(queue["data"])
    PROVE  /\ r.op \in {"connect", "unsubData"} => params[r.topic]
           /\ r.op = "unsubAll" /\ members[r.topic] # {} => params[r.topic]
<1>1. /\ r.job \in Jobs /\ job[r.job] \in Job /\ Shape(job[r.job])
      /\ Running(r.job) /\ job[r.job].pc \in {"state", "data"}
      /\ job[r.job].op = r.op /\ job[r.job].topic = r.topic /\ r.topic \in Topics
  BY Taken DEF Sockets
<1>2. /\ r.op = "connect" => job[r.job].kind \in {"join", "conn"}
      /\ r.op = "unsubData" => job[r.job].kind = "remove"
  BY <1>1 DEF Shape
<1> QED BY <1>1, <1>2 DEF Orderly, Moded

LEMMA ListenDataSure ==
    ASSUME TypeInv, CallInv, AskInv, Orderly, NoneFailed, Sure, ListenData
    PROVE  NoneFailed' /\ Sure'
<1>0. UNCHANGED job /\ UNCHANGED members /\ "data" \in Sockets
  BY ListenStays DEF jobVars, storeVars, Sockets
<1>1. PICK r : r = Head(queue["data"])
  OBVIOUS
<1>2. /\ queue["data"] # <<>> /\ Receive("data")
      /\ DataAuth(r) \/ DataConnect(r) \/ DataPass(r) \/ DataUnsub(r)
         \/ DataUnsubAll(r)
  BY <1>1 DEF ListenData, DataAuth, DataConnect, DataPass, DataUnsub, DataUnsubAll
<1>3. \/ conn' = conn
      \/ \E ps : conn' = Disconnected("data", ps)
      \/ conn' = Connected("data", r.peer)
  BY <1>2 DEF DataAuth, DataConnect, DataPass, DataUnsub, DataUnsubAll, Panic, socketVars
<1>4. \A u \in Sockets \ {"data"} : conn'[u] = conn[u]
  BY <1>3 DEF Disconnected, Connected, TypeInv, TypeOK
<1>5. Sure'
  BY <1>0, <1>1, <1>2, <1>4, TakenSure DEF Orderly
<1>6. /\ r.job \in Jobs /\ job[r.job].op = r.op /\ job[r.job].topic = r.topic
      /\ job[r.job].peer = r.peer /\ r.job \in Queued("data")
  BY <1>0, <1>1, <1>2, Taken
<1>7. /\ r.op \in {"connect", "unsubData"} => ~ModePanics(r.topic)
      /\ r.op = "unsubAll" /\ members[r.topic] # {} => ~ModePanics(r.topic)
  BY <1>1, <1>2, NoPanic DEF ModePanics
<1>8. PICK ok \in BOOLEAN : Answers("data", r, ok) /\ ok /\ UNCHANGED up
  <2>1. CASE DataAuth(r) \/ DataPass(r)
    BY <2>1 DEF DataAuth, DataPass
  <2>2. CASE DataConnect(r)
    BY <2>2, <1>7 DEF DataConnect
  <2>3. CASE DataUnsub(r)
    <3>1. conn["data"][r.peer] # {}
      BY <2>3, <1>0, <1>6 DEF DataUnsub, Sure
    <3> QED BY <3>1, <2>3, <1>7 DEF DataUnsub
  <2>4. CASE DataUnsubAll(r)
    <3>1. \A p \in (members[r.topic] \ {Me}) \cap Publishers : conn["data"][p] # {}
      BY <2>4, <1>0, <1>6 DEF DataUnsubAll, Sure, Uses
    <3>2. On("data", (members[r.topic] \ {Me}) \cap Publishers)
              = (members[r.topic] \ {Me}) \cap Publishers
      BY <3>1 DEF On
    <3>3. ~((members[r.topic] \ {Me}) \cap Publishers # {} /\ ModePanics(r.topic))
      BY <2>4, <1>7 DEF DataUnsubAll
    <3> QED BY <3>2, <3>3, <2>4 DEF DataUnsubAll
  <2> QED BY <2>1, <2>2, <2>3, <2>4, <1>2
<1>9. NoneFailed'
  BY <1>0, <1>8 DEF NoneFailed, Failed, Answers, TypeInv, TypeOK
<1> QED BY <1>5, <1>9

LEMMA ProceedSure ==
    ASSUME TypeInv, CallInv, AskInv, Orderly, "publisher" \in open, NoneFailed, Sure,
           "connector" \in open => Tied, NEW j \in Jobs, Proceed(j)
    PROVE  NoneFailed' /\ Sure'
<1>1. ASSUME NEW op \in Ops, NEW p \in Labels, Ask(j, op, p)
      PROVE  NoneFailed' /\ Sure'
  BY <1>1, AskSure
<1>2. ASSUME \/ \E g \in SUBSET Peers : ReceiveGroup(j, g)
             \/ Answer(j) \/ ReadState(j) \/ ReadData(j) \/ Finish(j)
      PROVE  NoneFailed' /\ Sure'
  <2>1. /\ job[j] \in Job /\ Running(j) /\ UNCHANGED <<queue, up, conn>>
        /\ \A i \in Jobs \ {j} : job'[i] = job[i]
        /\ j \notin Failed'
        /\ \/ job'[j] = DoneJob /\ job[j].pc = "ready"
           \/ /\ job'[j].op = job[j].op /\ job'[j].peer = job[j].peer
              /\ job'[j].topic = job[j].topic
    <3>1. ASSUME NEW g \in SUBSET Peers, ReceiveGroup(j, g)
          PROVE  /\ job[j] \in Job /\ Running(j) /\ UNCHANGED <<queue, up, conn>>
                 /\ \A i \in Jobs \ {j} : job'[i] = job[i]
                 /\ j \notin Failed'
                 /\ job'[j].op = job[j].op /\ job'[j].peer = job[j].peer
                 /\ job'[j].topic = job[j].topic
      BY <3>1, ReceiveGroupBecomes
         DEF Becomes, ReceiveGroup, Running, Failed, loopVars, socketVars
    <3>2. CASE Answer(j)
      <4>1. job[j].topic \in Topics /\ Running(j) /\ UNCHANGED <<queue, up, conn>>
            /\ job[j] \in Job /\ job[j].kind = "sub"
        BY <3>2, AnswerBecomes DEF Answer, Running, loopVars, socketVars, Job
      <4>2. Me \in members[job[j].topic]
        BY <4>1 DEF Orderly, Moded
      <4> QED BY <4>1, <4>2, <3>2, AnswerBecomes DEF Becomes, Failed
    <3>3. CASE ReadState(j)
      <4>1. busy["state"].ok /\ Running(j) /\ UNCHANGED <<queue, up, conn>>
        BY <3>3 DEF ReadState, NoneFailed, Sockets, Running, socketVars
      <4> QED BY <4>1, <3>3, ReadStateBecomes DEF Becomes, Failed
    <3>4. CASE ReadData(j)
      <4>1. busy["data"].ok /\ Running(j) /\ UNCHANGED <<queue, up, conn>>
        BY <3>4 DEF ReadData, NoneFailed, Sockets, Running, socketVars
      <4> QED BY <4>1, <3>4, ReadDataBecomes DEF Becomes, Failed
    <3>5. CASE Finish(j)
      <4>1. Running(j) /\ UNCHANGED <<queue, up, conn>>
        BY <3>5 DEF Finish, Running, loopVars
      <4> QED BY <4>1, <3>5, FinishBecomes DEF Ends, Failed, DoneJob
    <3> QED BY <1>2, <3>1, <3>2, <3>3, <3>4, <3>5
  <2>2. busy' = busy \/ \E s \in Sockets : busy' = [busy EXCEPT ![s] = Idle]
    <3>1. CASE UNCHANGED busy
      BY <3>1
    <3>2. ASSUME ReadState(j)
          PROVE  busy' = [busy EXCEPT !["state"] = Idle] /\ "state" \in Sockets
      BY <3>2 DEF ReadState, Sockets
    <3>3. ASSUME ReadData(j)
          PROVE  busy' = [busy EXCEPT !["data"] = Idle] /\ "data" \in Sockets
      BY <3>3 DEF ReadData, Sockets
    <3> QED BY <3>1, <3>2, <3>3, <1>2 DEF ReceiveGroup, Answer, Finish, loopVars
  <2>3. NoneFailed'
    <3>1. Failed' = {}
      BY <2>1 DEF NoneFailed, Failed
    <3>2. \A s \in Sockets : busy'[s] = busy[s] \/ busy'[s] = Idle
      BY <2>2 DEF TypeInv, TypeOK
    <3> QED BY <3>1, <3>2, <2>1 DEF NoneFailed
  <2>4. ASSUME NEW s \in Sockets, NEW i \in Jobs, i \in Queued(s)'
        PROVE  /\ i \in Queued(s)
               /\ job'[i].op = job[i].op /\ job'[i].peer = job[i].peer
               /\ job'[i].topic = job[i].topic
               /\ job[i].op = "unsubAll" =>
                      members'[job[i].topic] \subseteq members[job[i].topic] \cup {Me}
    <3>1. i \in Queued(s)
      BY <2>1, <2>4 DEF Queued
    <3>2. Running(i) /\ job[i].pc \in {"state", "data"}
      BY <3>1, QueuedRuns DEF NoneFailed
    <3>3. /\ job'[i].op = job[i].op /\ job'[i].peer = job[i].peer
          /\ job'[i].topic = job[i].topic
      BY <3>2, <2>1
    <3>4. ASSUME job[i].op = "unsubAll" PROVE UNCHANGED members
      <4>1. job[i] \in Job
        BY <3>2, RunningTyped
      <4>2. Takes(i)
        BY <3>2, <3>4, <4>1 DEF AskInv, Shaped, Shape, Takes
      <4>3. i = j
        BY <4>2, <2>1 DEF Orderly, Alone
      <4> QED BY <4>3, <1>2, <3>2 DEF ReceiveGroup, Answer, ReadState, ReadData, Finish,
              storeVars
    <3> QED BY <3>1, <3>3, <3>4
  <2>5. Sure'
    BY <2>1, <2>4, SureStep
  <2> QED BY <2>3, <2>5
<1> QED BY <1>1, <1>2 DEF Proceed

LEMMA NextSure ==
    TypeInv /\ CallInv /\ AskInv /\ OrderInv /\ HungInv /\ SureInv /\ FollowInv
        /\ [Next]_vars => SureInv'
<1> SUFFICES ASSUME TypeInv, CallInv, AskInv, OrderInv, HungInv, SureInv, FollowInv,
                    [Next]_vars, Calm'
             PROVE  NoneFailed' /\ Sure'
  BY DEF SureInv
<1>0. /\ Orderly /\ NoneFailed /\ Sure /\ "publisher" \in open
      /\ "connector" \in open => Tied
  BY CalmBefore DEF SureInv, OrderInv, HungInv, FollowInv, Follows, Calm
<1>1. CASE UNCHANGED vars
  BY <1>0, <1>1 DEF vars, jobVars, storeVars, socketVars, loopVars, Sure, NoneFailed,
     Failed, Queued, Uses
<1>2. CASE Environment
  BY <1>0, <1>2, EnvironmentSure
<1>3. CASE ListenState \/ ListenData
  BY <1>0, <1>3, ListenStateSure, ListenDataSure
<1>4. ASSUME NEW j \in Jobs, Proceed(j) PROVE NoneFailed' /\ Sure'
  BY <1>0, <1>4, ProceedSure
<1> QED BY <1>1, <1>2, <1>3, <1>4 DEF Next, Work

-----------------------------------------------------------------------------
(* What each step does to the peers that are held.                          *)

\* A hung call stays so.
LEMMA NextHung == TypeInv /\ [Next]_vars => (NoHung' => NoHung) /\ (HungInv => HungInv')
<1> SUFFICES ASSUME TypeInv, [Next]_vars
             PROVE  (NoHung' => NoHung) /\ (HungInv => HungInv')
  OBVIOUS
<1>1. ASSUME UNCHANGED job PROVE NoHung' <=> NoHung
  BY <1>1 DEF NoHung
<1>2. ASSUME NEW j \in Jobs, job[j].pc # "hung",
             \A i \in Jobs \ {j} : job'[i] = job[i]
      PROVE  (NoHung' => NoHung) /\ (job'[j].pc # "hung" => (NoHung => NoHung'))
  BY <1>2 DEF NoHung
<1>3. CASE UNCHANGED vars \/ ListenState \/ ListenData
  <2>1. UNCHANGED job /\ UNCHANGED open
    BY <1>3, ListenStays DEF vars, jobVars, loopVars
  <2> QED BY <2>1, <1>1 DEF HungInv
<1>4. CASE Environment
  <2>1. "connector" \in open' => "connector" \in open
    BY OpenKept
  <2>2. CASE UNCHANGED job
    BY <2>1, <2>2, <1>1 DEF HungInv
  <2>3. ASSUME NEW j \in Jobs, NEW k \in Kinds, NEW t \in Topics,
               NEW ps \in SUBSET Peers, NEW pc \in {"asking", "ready"}, Begin(j, k, t, ps, pc)
        PROVE  (NoHung' => NoHung) /\ (HungInv => HungInv')
    <3>1. Becomes(j, k, t, ps, ps, "none", Me, pc) /\ job[j] = NoJob
      BY <2>3, BeginBecomes DEF Steps
    <3> QED BY <3>1, <2>1, <1>2 DEF Becomes, NoJob, HungInv
  <2> QED BY <2>2, <2>3, <1>4, EnvironmentStays
<1>5. ASSUME NEW j \in Jobs, Proceed(j)
      PROVE  (NoHung' => NoHung) /\ (HungInv => HungInv')
  <2>1. job[j].pc # "hung" /\ ("connector" \in open' => "connector" \in open)
    BY <1>5, OpenKept DEF Proceed, ReceiveGroup, Answer, Ask, ReadState, ReadData, Finish
  <2>2. /\ \A i \in Jobs \ {j} : job'[i] = job[i]
        /\ "connector" \in open => job'[j].pc # "hung"
    <3>1. ASSUME NEW g \in SUBSET Peers, ReceiveGroup(j, g)
          PROVE  (\A i \in Jobs \ {j} : job'[i] = job[i]) /\ job'[j].pc # "hung"
      BY <3>1, ReceiveGroupBecomes DEF Becomes
    <3>2. ASSUME Answer(j)
          PROVE  (\A i \in Jobs \ {j} : job'[i] = job[i]) /\ job'[j].pc # "hung"
      BY <3>2, AnswerBecomes DEF Becomes
    <3>3. ASSUME ReadState(j)
          PROVE  (\A i \in Jobs \ {j} : job'[i] = job[i]) /\ job'[j].pc # "hung"
      BY <3>3, ReadStateBecomes DEF Becomes
    <3>4. ASSUME ReadData(j)
          PROVE  (\A i \in Jobs \ {j} : job'[i] = job[i]) /\ job'[j].pc # "hung"
      BY <3>4, ReadDataBecomes DEF Becomes
    <3>5. ASSUME Finish(j)
          PROVE  (\A i \in Jobs \ {j} : job'[i] = job[i]) /\ job'[j].pc # "hung"
      BY <3>5, FinishBecomes DEF Becomes, Ends, DoneJob
    <3>6. ASSUME NEW op \in Ops, NEW p \in Labels, Ask(j, op, p)
          PROVE  /\ \A i \in Jobs \ {j} : job'[i] = job[i]
                 /\ "connector" \in open => job'[j].pc # "hung"
      BY <3>6, AskBecomes DEF Becomes
    <3> QED BY <1>5, <3>1, <3>2, <3>3, <3>4, <3>5, <3>6 DEF Proceed
  <2> QED BY <2>1, <2>2, <1>2 DEF HungInv
<1> QED BY <1>3, <1>4, <1>5 DEF Next, Work

\* A step of j changes nothing of what other calls hold.
LEMMA OthersHold ==
    ASSUME NEW j \in Jobs, NEW s \in Sockets, NEW t \in Topics,
           \A i \in Jobs \ {j} :
               /\ job'[i] = job[i] /\ (i \in Queued(s)' <=> i \in Queued(s))
               /\ Running(i) /\ job[i].kind = "leave" /\ job[i].topic = t =>
                      members'[t] \cap Peers = members[t] \cap Peers
    PROVE  \A i \in Jobs \ {j} :
               /\ Leaves(s, i, t)' <=> Leaves(s, i, t)
               /\ \A p \in Peers : Holds(s, i, t, p)' <=> Holds(s, i, t, p)
<1> SUFFICES ASSUME NEW i \in Jobs \ {j}
             PROVE  /\ Leaves(s, i, t)' <=> Leaves(s, i, t)
                    /\ \A p \in Peers : Holds(s, i, t, p)' <=> Holds(s, i, t, p)
  OBVIOUS
<1>1. /\ Running(i)' <=> Running(i)
      /\ Released(s, i)' <=> Released(s, i)
      /\ i \in Waiting' <=> i \in Waiting
  BY DEF Running, Released, Waiting
<1>2. Leaves(s, i, t)' <=> Leaves(s, i, t)
  BY <1>1 DEF Leaves
<1>3. ASSUME NEW p \in Peers PROVE Holds(s, i, t, p)' <=> Holds(s, i, t, p)
  <2>1. Running(i) /\ job[i].kind = "leave" /\ job[i].topic = t
            => (p \in members'[t] <=> p \in members[t])
    OBVIOUS
  <2> QED BY <2>1, <1>1 DEF Holds
<1> QED BY <1>2, <1>3

LEMMA HeldSame ==
    ASSUME NEW j \in Jobs, NEW s \in Sockets, NEW t \in Topics,
           \A i \in Jobs \ {j} :
               /\ job'[i] = job[i] /\ (i \in Queued(s)' <=> i \in Queued(s))
               /\ Running(i) /\ job[i].kind = "leave" /\ job[i].topic = t =>
                      members'[t] \cap Peers = members[t] \cap Peers,
           linked'[t] = linked[t],
           \A p \in Peers : Uses(s, p) => (Holds(s, j, t, p)' <=> Holds(s, j, t, p)),
           Leaves(s, j, t)' <=> Leaves(s, j, t)
    PROVE  Held(s, t)' = Held(s, t)
<1>1. \A i \in Jobs : Leaves(s, i, t)' <=> Leaves(s, i, t)
  BY OthersHold
<1>2. \A i \in Jobs : \A p \in Peers :
          Uses(s, p) => (Holds(s, i, t, p)' <=> Holds(s, i, t, p))
  BY OthersHold
<1> QED BY <1>1, <1>2 DEF Held, Uses

\* The sockets follow when nothing changes for them.
LEMMA SocketsStay ==
    ASSUME Follows, UNCHANGED <<conn, refs, dataRefs>>,
           \A s \in Sockets, t \in Topics : Held(s, t)' = Held(s, t)
    PROVE  Tied' /\ Counted' /\ Filtered'
<1>1. Tied'
  BY DEF Follows, Tied
<1>2. Filtered'
  BY DEF Follows, Filtered, Sockets
<1>3. ASSUME NEW t \in Topics, NEW l \in Labels
      PROVE  dataRefs'[t][l] =
                 Cardinality({p \in Held("data", t)' : DataTopic(t, p) = l})
  <2>1. Held("data", t)' = Held("data", t)
    BY DEF Sockets
  <2> QED BY <2>1 DEF Follows, Counted
<1>4. Counted'
  BY <1>3 DEF Counted, DataTopic
<1> QED BY <1>1, <1>2, <1>4

\* A member is as it was, or linked, or removed by the same call.
LEMMA KnownStep ==
    ASSUME Known, NEW j \in Jobs, \A i \in Jobs \ {j} : job'[i] = job[i],
           \A t \in Topics : linked[t] \subseteq linked'[t],
           \A t \in Topics : members'[t] \subseteq members[t] \cup {Me} \cup linked'[t],
           Takes(j) => /\ Takes(j)' /\ job'[j].topic = job[j].topic
                       /\ job'[j].kind = job[j].kind /\ job'[j].peers = job[j].peers
    PROVE  Known'
<1> SUFFICES ASSUME NEW t \in Topics, NEW p \in members'[t] \ {Me}, p \notin linked'[t]
             PROVE  \E i \in Jobs : /\ Takes(i)' /\ job'[i].topic = t
                                    /\ job'[i].kind = "leave" \/ p \in job'[i].peers
  BY DEF Known
<1>1. p \in members[t] \ {Me} /\ p \notin linked[t]
  OBVIOUS
<1>2. PICK i \in Jobs : /\ Takes(i) /\ job[i].topic = t
                        /\ job[i].kind = "leave" \/ p \in job[i].peers
  BY <1>1 DEF Known
<1>3. CASE i = j
  BY <1>2, <1>3
<1>4. CASE i # j
  BY <1>2, <1>4 DEF Takes, Running
<1> QED BY <1>3, <1>4

\* A call goes on and holds what it held.
LEMMA GoesOnFollows ==
    ASSUME Follows, NEW j \in Jobs, \A i \in Jobs \ {j} : job'[i] = job[i],
           UNCHANGED <<members, linked, conn, refs, dataRefs>>,
           \A s \in Sockets, i \in Jobs \ {j} : i \in Queued(s)' <=> i \in Queued(s),
           \A s \in Sockets, t \in Topics :
               /\ Leaves(s, j, t)' <=> Leaves(s, j, t)
               /\ \A p \in Peers : Uses(s, p) => (Holds(s, j, t, p)' <=> Holds(s, j, t, p)),
           Takes(j) => /\ Takes(j)' /\ job'[j].topic = job[j].topic
                       /\ job'[j].kind = job[j].kind /\ job'[j].peers = job[j].peers,
           Running(j)' /\ job'[j].kind \in Adders =>
               job'[j].peers \ job'[j].todo \subseteq linked[job'[j].topic]
    PROVE  Follows'
<1>1. ASSUME NEW s \in Sockets, NEW t \in Topics PROVE Held(s, t)' = Held(s, t)
  BY HeldSame
<1>2. Tied' /\ Counted' /\ Filtered'
  BY <1>1, SocketsStay
<1>3. Known'
  BY KnownStep DEF Follows
<1>4. AddedLinked'
  <2>1. \A i \in Jobs \ {j} : Running(i)' <=> Running(i)
    BY DEF Running
  <2> QED BY <2>1 DEF Follows, AddedLinked
<1> QED BY <1>2, <1>3, <1>4 DEF Follows

LEMMA ReceiveGroupFollows ==
    ASSUME TypeInv, AskInv, Follows, NEW j \in Jobs, NEW g \in SUBSET Peers,
           ReceiveGroup(j, g)
    PROVE  Follows'
<1>1. /\ job[j] \in Job /\ job[j].pc = "asking"
      /\ Becomes(j, job[j].kind, job[j].topic, g, g, job[j].op, job[j].peer, "ready")
      /\ UNCHANGED <<members, linked, queue, conn, refs, dataRefs>>
  BY ReceiveGroupBecomes DEF ReceiveGroup, socketVars, loopVars
<1>2. job[j].kind = "join" /\ job[j].op = "none"
  BY <1>1 DEF AskInv, Shaped, Shape
<1>3. /\ job'[j].kind = "join" /\ job'[j].op = "none"
      /\ job'[j].peers = g /\ job'[j].todo = g
      /\ \A i \in Jobs \ {j} : job'[i] = job[i]
      /\ \A s \in Sockets : Queued(s)' = Queued(s)
  BY <1>1, <1>2 DEF Becomes, Queued
<1>4. ~Takes(j)
  BY <1>2 DEF Takes
<1>5. \A s \in Sockets, t \in Topics :
          /\ ~Leaves(s, j, t)' /\ ~Leaves(s, j, t)
          /\ \A p \in Peers : ~Holds(s, j, t, p)' /\ ~Holds(s, j, t, p)
  BY <1>2, <1>3 DEF Leaves, Holds
<1> QED BY <1>1, <1>3, <1>4, <1>5, GoesOnFollows

LEMMA AnswerFollows ==
    ASSUME TypeInv, Orderly, Follows, NEW j \in Jobs, Answer(j)
    PROVE  Follows'
<1>1. /\ job[j] \in Job /\ job[j].kind = "sub" /\ job[j].op = "auth" /\ Running(j)
      /\ job[j].topic \in Topics
      /\ UNCHANGED <<members, linked, queue, conn, refs, dataRefs>>
  BY AnswerBecomes DEF Answer, socketVars, loopVars, storeVars, Running, Job
<1>2. Me \in members[job[j].topic]
  BY <1>1 DEF Orderly, Moded
<1>3. Becomes(j, "conn", job[j].topic, job[j].peers, job[j].todo, "auth", job[j].peer,
              "ready")
  BY <1>1, <1>2, AnswerBecomes
<1>4. /\ job'[j].kind = "conn" /\ job'[j].op = "auth" /\ job'[j].topic = job[j].topic
      /\ job'[j].peers = job[j].peers /\ job'[j].todo = job[j].todo
      /\ \A i \in Jobs \ {j} : job'[i] = job[i]
      /\ \A s \in Sockets : Queued(s)' = Queued(s)
  BY <1>1, <1>3 DEF Becomes, Queued
<1>5. ~Takes(j)
  BY <1>1 DEF Takes
<1>6. \A s \in Sockets, t \in Topics :
          /\ ~Leaves(s, j, t)' /\ ~Leaves(s, j, t)
          /\ \A p \in Peers : ~Holds(s, j, t, p)' /\ ~Holds(s, j, t, p)
  BY <1>1, <1>4 DEF Leaves, Holds
<1>7. job[j].peers \ job[j].todo \subseteq linked[job[j].topic]
  BY <1>1 DEF Follows, AddedLinked, Adders
<1> QED BY <1>1, <1>4, <1>5, <1>6, <1>7, GoesOnFollows

LEMMA AskFollows ==
    ASSUME TypeInv, CallInv, AskInv, Follows, NoHung', NEW j \in Jobs, NEW op \in Ops,
           NEW p \in Labels, Ask(j, op, p)
    PROVE  Follows'
<1>1. /\ job[j] \in Job /\ job[j].pc = "ready" /\ NextRequest(j, op, p)
      /\ Becomes(j, job[j].kind, job[j].topic, job[j].peers, job[j].todo,
                 op, p, "state")
      /\ "connector" \in open
      /\ UNCHANGED <<members, linked, conn, refs, dataRefs>>
  BY AskBecomes DEF Ask, storeVars, socketVars, NoHung, Becomes
<1>2. \A s \in Sockets : Queued(s)' = Queued(s) \cup {j}
  BY <1>1, AppendQueued
<1>3. \A s \in Sockets : j \notin Queued(s)
  BY <1>1 DEF CallInv, NoneBetween, Waiting, Failed
<1>4. /\ job'[j].kind = job[j].kind /\ job'[j].topic = job[j].topic
      /\ job'[j].peers = job[j].peers /\ job'[j].todo = job[j].todo
      /\ job'[j].op = op /\ job'[j].pc = "state" /\ Running(j) /\ Running(j)'
      /\ \A i \in Jobs \ {j} : job'[i] = job[i]
  BY <1>1 DEF Becomes, Running
<1>5. j \notin Waiting /\ \A s \in Sockets : j \in Queued(s)'
  BY <1>1, <1>2 DEF Waiting
<1>6. ASSUME NEW s \in Sockets, job[j].kind \in {"remove", "leave"}
      PROVE  Released(s, j)' <=> Released(s, j)
  BY <1>1, <1>3, <1>4, <1>5, <1>6 DEF Released, NextRequest, Sockets
<1>7. ASSUME NEW s \in Sockets, NEW t \in Topics
      PROVE  Leaves(s, j, t)' <=> Leaves(s, j, t)
  BY <1>4, <1>6 DEF Leaves
<1>8. ASSUME NEW s \in Sockets, NEW t \in Topics, NEW q \in Peers
      PROVE  Holds(s, j, t, q)' <=> Holds(s, j, t, q)
  BY <1>1, <1>4, <1>5, <1>6 DEF Holds
<1>9. Takes(j) => Takes(j)'
  BY <1>4 DEF Takes
<1>10. job[j].kind \in Adders => job[j].peers \ job[j].todo \subseteq linked[job[j].topic]
  BY <1>4 DEF Follows, AddedLinked
<1> QED BY <1>1, <1>2, <1>4, <1>7, <1>8, <1>9, <1>10, GoesOnFollows

\* A reply is read that does not end the connection of a peer.
LEMMA ReadFollows ==
    ASSUME TypeInv, Follows, NEW j \in Jobs, NEW pc \in {"data", "ready"},
           job[j] \in Job, job[j].pc \in {"state", "data"},
           Becomes(j, job[j].kind, job[j].topic, job[j].peers, job[j].todo,
                   job[j].op, job[j].peer, pc),
           pc = "ready" => job[j].op # "connect",
           UNCHANGED <<queue, members, linked, conn, refs, dataRefs>>
    PROVE  Follows'
<1>1. /\ job'[j].kind = job[j].kind /\ job'[j].topic = job[j].topic
      /\ job'[j].peers = job[j].peers /\ job'[j].todo = job[j].todo
      /\ job'[j].op = job[j].op /\ job'[j].peer = job[j].peer
      /\ job'[j].pc = pc /\ Running(j) /\ Running(j)'
      /\ \A i \in Jobs \ {j} : job'[i] = job[i]
      /\ \A s \in Sockets : Queued(s)' = Queued(s)
  BY DEF Becomes, Running, Queued
<1>2. \A s \in Sockets : Released(s, j)' <=> Released(s, j)
  BY <1>1 DEF Released
<1>3. job[j].op = "connect" => j \in Waiting /\ j \in Waiting'
  BY <1>1 DEF Waiting
<1>4. ASSUME NEW s \in Sockets, NEW t \in Topics
      PROVE  Leaves(s, j, t)' <=> Leaves(s, j, t)
  BY <1>1, <1>2 DEF Leaves
<1>5. ASSUME NEW s \in Sockets, NEW t \in Topics, NEW q \in Peers
      PROVE  Holds(s, j, t, q)' <=> Holds(s, j, t, q)
  BY <1>1, <1>2, <1>3 DEF Holds
<1>6. Takes(j) => Takes(j)'
  BY <1>1 DEF Takes
<1>7. job[j].kind \in Adders => job[j].peers \ job[j].todo \subseteq linked[job[j].topic]
  BY <1>1 DEF Follows, AddedLinked
<1> QED BY <1>1, <1>4, <1>5, <1>6, <1>7, GoesOnFollows

\* Both replies to the request to connect to p are read: p is linked.
LEMMA ConnectedFollows ==
    ASSUME TypeInv, CallInv, AskInv, Orderly, NoneFailed, Follows, NEW j \in Jobs,
           ReadData(j), job[j].op = "connect"
    PROVE  Follows'
<1>1. PICK t \in Topics, p \in Peers :
          /\ job[j] \in Job /\ job[j].topic = t /\ job[j].peer = p
          /\ Running(j) /\ job[j].pc = "data" /\ Replying("data", j)
          /\ \A u \in Topics : linked'[u] = IF u = t THEN linked[u] \cup {p}
                                            ELSE linked[u]
          /\ UNCHANGED <<queue, members, conn, refs, dataRefs>>
          /\ Becomes(j, job[j].kind, t, job[j].peers, job[j].todo \ {p}, "connect", p,
                     "ready")
  <2>1. /\ job[j] \in Job /\ Running(j) /\ job[j].pc = "data" /\ job[j].topic \in Topics
        /\ Replying("data", j) /\ busy["data"].ok
    BY ReadDataBecomes DEF Running, Job, NoneFailed, Replying, Sockets
  <2>2. \A u \in Topics : linked'[u] = IF u = job[j].topic THEN linked[u] \cup {job[j].peer}
                                       ELSE linked[u]
    BY <2>1 DEF ReadData, TypeInv, TypeOK
  <2>3. job[j].peer \in Peers
    BY <2>1 DEF TypeInv, PeerInv, NamesPeer
  <2>4. UNCHANGED <<queue, members, conn, refs, dataRefs>>
    BY DEF ReadData, storeVars, socketVars
  <2>5. Becomes(j, job[j].kind, job[j].topic, job[j].peers, job[j].todo \ {job[j].peer},
                "connect", job[j].peer, "ready")
    BY <2>1, ReadDataBecomes
  <2> QED BY <2>1, <2>2, <2>3, <2>4, <2>5
<1>2. job[j].kind \in {"join", "conn"} /\ j \in Waiting
  BY <1>1 DEF AskInv, Shaped, Shape, Waiting
<1>3. /\ job'[j].kind = job[j].kind /\ job'[j].topic = t
      /\ job'[j].peers = job[j].peers /\ job'[j].todo = job[j].todo \ {p}
      /\ job'[j].op = "connect" /\ j \notin Waiting'
      /\ \A i \in Jobs \ {j} : job'[i] = job[i]
      /\ \A s \in Sockets : Queued(s)' = Queued(s)
  BY <1>1 DEF Becomes, Waiting, Queued
<1>4. \A s \in Sockets : j \notin Queued(s)
  BY <1>1 DEF CallInv, NotBoth, StateDone, Sockets
<1>5. \A i \in Jobs : Running(i) => job[i].kind \notin {"remove", "leave"}
  BY <1>1, <1>2, NoTaker DEF Orderly
<1>6. ASSUME NEW s \in Sockets, NEW u \in Topics
      PROVE  Held(s, u)' = Held(s, u)
  <2>1. \A i \in Jobs \ {j} :
            /\ Leaves(s, i, u)' <=> Leaves(s, i, u)
            /\ \A q \in Peers : Holds(s, i, u, q)' <=> Holds(s, i, u, q)
    BY <1>1, <1>3, OthersHold
  <2>2. \A i \in Jobs : ~Leaves(s, i, u)
    BY <1>5 DEF Leaves
  <2>3. ~Leaves(s, j, u)' /\ \A q \in Peers : ~Holds(s, j, u, q)'
    BY <1>2, <1>3 DEF Leaves, Holds
  <2>4. \A q \in Peers : Holds(s, j, u, q) <=> u = t /\ q = p
    BY <1>1, <1>2, <1>4 DEF Holds
  <2>5. \A q \in Peers : q \in linked'[u] <=> q \in linked[u] \/ (u = t /\ q = p)
    BY <1>1
  <2>6. \A q \in Peers : q \in Held(s, u)' <=>
            Uses(s, q) /\ (q \in linked'[u] \/ \E i \in Jobs \ {j} : Holds(s, i, u, q))
    BY <2>1, <2>2, <2>3 DEF Held, Uses
  <2>7. \A q \in Peers : q \in Held(s, u) <=>
            Uses(s, q) /\ (q \in linked[u] \/ \E i \in Jobs : Holds(s, i, u, q))
    BY <2>2 DEF Held
  <2>8. Held(s, u) \subseteq Peers /\ Held(s, u)' \subseteq Peers
    BY DEF Held
  <2> QED BY <2>4, <2>5, <2>6, <2>7, <2>8
<1>7. Tied' /\ Counted' /\ Filtered'
  BY <1>1, <1>6, SocketsStay
<1>8. ~Takes(j)
  BY <1>5 DEF Takes
<1>9. Known'
  <2>1. \A u \in Topics : linked[u] \subseteq linked'[u]
    BY <1>1
  <2> QED BY <1>1, <1>3, <1>8, <2>1, KnownStep DEF Follows
<1>10. AddedLinked'
  <2> SUFFICES ASSUME NEW i \in Jobs, Running(i)', job'[i].kind \in Adders
               PROVE  job'[i].peers \ job'[i].todo \subseteq linked'[job'[i].topic]
    BY DEF AddedLinked
  <2>1. CASE i = j
    <3>1. job[j].peers \ job[j].todo \subseteq linked[t]
      BY <1>1, <1>3, <2>1 DEF Follows, AddedLinked
    <3> QED BY <3>1, <2>1, <1>1, <1>3
  <2>2. CASE i # j
    <3>1. Running(i) /\ job'[i] = job[i]
      BY <2>2, <1>3 DEF Running
    <3>2. job[i].topic \in Topics
      BY <3>1, RunningTyped DEF Running, Job
    <3>3. job[i].peers \ job[i].todo \subseteq linked[job[i].topic]
      BY <3>1 DEF Follows, AddedLinked
    <3> QED BY <3>1, <3>2, <3>3, <1>1
  <2> QED BY <2>1, <2>2
<1> QED BY <1>7, <1>9, <1>10 DEF Follows

\* A call that has nothing more to ask.
LEMMA FinishedCall ==
    ASSUME TypeInv, AskInv, NEW j \in Jobs, Finish(j)
    PROVE  /\ job[j].kind \in {"join", "conn"} => job[j].op \in {"none", "connect"}
           /\ job[j].kind = "join" => job[j].todo = {}
           /\ job[j].kind = "remove" =>
                  \/ job[j].op = "unsubData"
                  \/ job[j].op = "disconnect" /\ job[j].peers \cap Publishers = {}
           /\ job[j].kind = "leave" => job[j].op = "unsubAll"
<1>1. /\ job[j] \in Job /\ Shape(job[j])
      /\ \A op \in Ops, p \in Labels : ~NextRequest(j, op, p)
  BY FinishBecomes DEF AskInv, Shaped
<1>2. /\ {"auth", "connect", "disconnect", "unsubData", "unsubAll"} \subseteq Ops
      /\ Me \in Labels /\ job[j].peer \in Labels
      /\ job[j].todo \subseteq Labels /\ job[j].peers \subseteq Labels
      /\ job[j].op \in Ops
  BY <1>1 DEF Ops, Job, Labels
<1>3. job[j].kind \in {"join", "conn"} => job[j].op \in {"none", "connect"}
  BY <1>1, <1>2 DEF NextRequest, Shape, Ops, Adders
<1>4. job[j].kind = "join" => job[j].todo = {}
  BY <1>1, <1>2, <1>3 DEF NextRequest
<1>5. job[j].kind = "remove" => \/ job[j].op = "unsubData"
                                \/ job[j].op = "disconnect" /\ job[j].peers \cap Publishers = {}
  <2> SUFFICES ASSUME job[j].kind = "remove", job[j].op # "unsubData"
               PROVE  job[j].op = "disconnect" /\ job[j].peers \cap Publishers = {}
    OBVIOUS
  <2>1. job[j].op \in {"none", "disconnect"} /\ job[j].peers # {}
        /\ \A p, q \in job[j].peers : p = q
    BY <1>1 DEF Shape
  <2>2. job[j].op = "disconnect" /\ job[j].peer \in job[j].peers
    BY <2>1, <1>1, <1>2 DEF NextRequest, Shape
  <2>3. job[j].peer \notin Publishers
    BY <2>2, <1>1, <1>2 DEF NextRequest
  <2> QED BY <2>1, <2>2, <2>3
<1>6. job[j].kind = "leave" => job[j].op = "unsubAll"
  BY <1>1, <1>2 DEF NextRequest, Shape
<1> QED BY <1>3, <1>4, <1>5, <1>6

LEMMA FinishFollows ==
    ASSUME TypeInv, CallInv, AskInv, Orderly, Follows, "publisher" \in open,
           NEW j \in Jobs, Finish(j)
    PROVE  Follows'
<1>1. PICK t \in Topics, k \in Kinds :
          /\ job[j] \in Job /\ Running(j) /\ job[j].topic = t /\ job[j].kind = k
          /\ job[j].pc = "ready" /\ Shape(job[j])
  BY FinishBecomes DEF Running, Job, AskInv, Shaped
<1>2. /\ ~Running(j)' /\ \A i \in Jobs \ {j} : job'[i] = job[i]
      /\ UNCHANGED <<queue, conn, refs, dataRefs>>
  <2>1. ~Running(j)' /\ \A i \in Jobs \ {j} : job'[i] = job[i]
    BY FinishBecomes DEF Becomes, Ends, DoneJob, Running
  <2> QED BY <2>1 DEF Finish, loopVars
<1>3. \A s \in Sockets : Queued(s)' = Queued(s) /\ j \notin Queued(s)
  BY <1>1, <1>2 DEF Queued, CallInv, NoneBetween, Waiting, Failed
<1>4. /\ \A u \in Topics \ {t} : members'[u] = members[u] /\ linked'[u] = linked[u]
      /\ k # "leave" => linked'[t] = linked[t]
      /\ k = "join" => members'[t] = members[t] \cup job[j].peers \cup {Me}
      /\ k = "remove" => members'[t] = members[t] \ job[j].peers
      /\ k = "conn" => members'[t] = members[t]
      /\ k = "leave" => /\ members'[t] = {}
                        /\ \/ members[t] = {} /\ linked'[t] = linked[t]
                           \/ linked'[t] = linked[t] \ members[t]
      /\ k # "sub"
  BY <1>1 DEF Finish, TypeInv, TypeOK
<1>5. \A s \in Sockets, u \in Topics :
          ~Leaves(s, j, u)' /\ \A p \in Peers : ~Holds(s, j, u, p)'
  BY <1>2 DEF Leaves, Holds
<1>6. \A i \in Jobs : Running(i) => job[i].topic \in Topics
  BY RunningTyped DEF Running, Job
<1>7. /\ k = "join" => job[j].todo = {}
      /\ k = "remove" => \/ job[j].op = "unsubData"
                         \/ job[j].op = "disconnect" /\ job[j].peers \cap Publishers = {}
      /\ k = "leave" => job[j].op = "unsubAll"
  BY <1>1, FinishedCall
<1>8. CASE k \in {"join", "conn"}
  <2>1. \A i \in Jobs : Running(i) => job[i].kind \notin {"remove", "leave"}
    BY <1>1, <1>8, NoTaker DEF Orderly
  <2>2. \A s \in Sockets, u \in Topics :
            ~Leaves(s, j, u) /\ \A p \in Peers : ~Holds(s, j, u, p)
    BY <1>1, <1>8 DEF Leaves, Holds, Waiting
  <2>3. \A u \in Topics : linked'[u] = linked[u]
    BY <1>4, <1>8
  <2>4. ASSUME NEW s \in Sockets, NEW u \in Topics PROVE Held(s, u)' = Held(s, u)
    BY <2>1, <2>2, <2>3, <1>2, <1>3, <1>5, HeldSame
  <2>5. Tied' /\ Counted' /\ Filtered'
    BY <2>4, <1>2, SocketsStay
  <2>6. k = "join" => job[j].peers \subseteq linked[t]
    BY <1>1, <1>7 DEF Follows, AddedLinked, Adders
  <2>7. \A u \in Topics : members'[u] \subseteq members[u] \cup {Me} \cup linked'[u]
    BY <2>3, <2>6, <1>4, <1>8
  <2>8. ~Takes(j)
    BY <1>1, <1>8 DEF Takes
  <2>9. Known'
    BY <2>3, <2>7, <2>8, <1>2, KnownStep DEF Follows
  <2>10. AddedLinked'
    BY <2>3, <1>2, <1>6 DEF AddedLinked, Follows, Running
  <2> QED BY <2>5, <2>9, <2>10 DEF Follows
<1>9. CASE k \in {"remove", "leave"}
  <2>1. Takes(j) /\ \A i \in Jobs \ {j} : ~Running(i)
    BY <1>1, <1>9 DEF Takes, Orderly, Alone
  <2>2. \A i \in Jobs : ~Running(i)'
    BY <2>1, <1>2 DEF Running
  <2>3. AddedLinked'
    BY <2>2 DEF AddedLinked
  <2>4. \A u \in Topics : \A p \in members[u] \ {Me} :
            p \in linked[u] \/ (u = t /\ (k = "leave" \/ p \in job[j].peers))
    BY <2>1, <1>1 DEF Follows, Known, Takes
  <2>5. Known'
    <3> SUFFICES ASSUME NEW u \in Topics, NEW p \in members'[u] \ {Me}
                 PROVE  p \in linked'[u]
      BY DEF Known
    <3>1. CASE u # t
      BY <3>1, <2>4, <1>4
    <3>2. CASE u = t
      BY <3>2, <2>4, <1>4, <1>9
    <3> QED BY <3>1, <3>2
  <2>6. ASSUME NEW s \in Sockets, NEW u \in Topics PROVE Held(s, u)' = Held(s, u)
    <3>1. \A i \in Jobs : ~Leaves(s, i, u)' /\ \A p \in Peers : ~Holds(s, i, u, p)'
      BY <2>2 DEF Leaves, Holds
    <3>2. Held(s, u)' = {p \in Peers : Uses(s, p) /\ p \in linked'[u]}
      BY <3>1 DEF Held, Uses
    <3>3. \A i \in Jobs \ {j} : ~Leaves(s, i, u) /\ \A p \in Peers : ~Holds(s, i, u, p)
      BY <2>1 DEF Leaves, Holds
    <3>4. Released(s, j) \/ (s = "data" /\ k = "remove" /\ job[j].peers \cap Publishers = {})
      BY <1>3, <1>7, <1>9 DEF Released, Sockets
    <3>5. \A p \in Peers : Uses(s, p) => ~Holds(s, j, u, p)
      BY <3>4, <1>1, <1>9 DEF Holds, Waiting, Uses
    <3>6. CASE k = "remove" \/ u # t
      <4>1. ~Leaves(s, j, u) /\ linked'[u] = linked[u]
        BY <3>6, <1>1, <1>4, <1>9 DEF Leaves
      <4> QED BY <4>1, <3>2, <3>3, <3>5 DEF Held
    <3>7. CASE k = "leave" /\ u = t
      <4>1. Leaves(s, j, u)
        BY <3>4, <3>7, <1>1 DEF Leaves
      <4>2. Held(s, u) = {}
        BY <4>1, <3>3, <3>5 DEF Held
      <4>3. linked[t] \subseteq members[t]
        BY <3>7, <1>1 DEF Orderly, Unshared
      <4>4. linked'[t] = {}
        BY <4>3, <3>7, <1>4
      <4> QED BY <4>2, <4>4, <3>2, <3>7
    <3> QED BY <3>6, <3>7, <1>9
  <2>7. Tied' /\ Counted' /\ Filtered'
    BY <2>6, <1>2, SocketsStay
  <2> QED BY <2>3, <2>5, <2>7 DEF Follows
<1> QED BY <1>8, <1>9, <1>1, <1>4 DEF Kinds

LEMMA ProceedFollows ==
    ASSUME TypeInv, CallInv, AskInv, Orderly, NoneFailed, Follows, "publisher" \in open,
           NoHung', NEW j \in Jobs, Proceed(j)
    PROVE  Follows'
<1>1. ASSUME NEW g \in SUBSET Peers, ReceiveGroup(j, g) PROVE Follows'
  BY <1>1, ReceiveGroupFollows
<1>2. CASE Answer(j)
  BY <1>2, AnswerFollows
<1>3. ASSUME NEW op \in Ops, NEW p \in Labels, Ask(j, op, p) PROVE Follows'
  BY <1>3, AskFollows
<1>4. CASE ReadState(j)
  <2>1. PICK pc \in {"data", "ready"} : pc = "data"
    OBVIOUS
  <2>2. /\ busy["state"].ok
        /\ UNCHANGED <<queue, members, linked, conn, refs, dataRefs>>
    BY <1>4 DEF ReadState, NoneFailed, Sockets, storeVars, socketVars
  <2>3. /\ job[j] \in Job /\ job[j].pc = "state"
        /\ Becomes(j, job[j].kind, job[j].topic, job[j].peers, job[j].todo,
                   job[j].op, job[j].peer, pc)
    BY <2>1, <2>2, <1>4, ReadStateBecomes
  <2> QED BY <2>1, <2>2, <2>3, ReadFollows
<1>5. CASE ReadData(j)
  <2>1. CASE job[j].op = "connect"
    BY <2>1, <1>5, ConnectedFollows
  <2>2. CASE job[j].op # "connect"
    <3>1. PICK pc \in {"data", "ready"} : pc = "ready"
      OBVIOUS
    <3>2. busy["data"].ok /\ UNCHANGED <<queue, members, conn, refs, dataRefs>>
      BY <1>5 DEF ReadData, NoneFailed, Sockets, storeVars, socketVars
    <3>3. UNCHANGED linked
      BY <1>5, <2>2 DEF ReadData, TypeInv, TypeOK
    <3>4. /\ job[j] \in Job /\ job[j].pc = "data"
          /\ Becomes(j, job[j].kind, job[j].topic, job[j].peers, job[j].todo,
                     job[j].op, job[j].peer, pc)
      BY <2>2, <3>1, <3>2, <1>5, ReadDataBecomes
    <3> QED BY <2>2, <3>1, <3>2, <3>3, <3>4, ReadFollows
  <2> QED BY <2>1, <2>2
<1>6. CASE Finish(j)
  BY <1>6, FinishFollows
<1> QED BY <1>1, <1>2, <1>3, <1>4, <1>5, <1>6 DEF Proceed

LEMMA StartFollows ==
    ASSUME TypeInv, Follows, NEW j \in Jobs, NEW k \in {"join", "sub"}, NEW t \in Topics,
           NEW ps \in SUBSET Peers, NEW pc \in {"asking", "ready"},
           Begin(j, k, t, ps, pc),
           UNCHANGED <<members, linked, queue, conn, refs, dataRefs>>
    PROVE  Follows'
<1>1. Becomes(j, k, t, ps, ps, "none", Me, pc) /\ job[j] = NoJob
  BY BeginBecomes DEF Kinds, Steps
<1>2. /\ ~Running(j) /\ job'[j].kind = k /\ job'[j].op = "none"
      /\ job'[j].peers = ps /\ job'[j].todo = ps
      /\ \A i \in Jobs \ {j} : job'[i] = job[i]
      /\ \A s \in Sockets : Queued(s)' = Queued(s)
  BY <1>1 DEF Becomes, Running, NoJob, Queued
<1>3. \A s \in Sockets, u \in Topics :
          /\ ~Leaves(s, j, u)' /\ ~Leaves(s, j, u)
          /\ \A p \in Peers : ~Holds(s, j, u, p)' /\ ~Holds(s, j, u, p)
  BY <1>2 DEF Leaves, Holds
<1>4. ~Takes(j)
  BY <1>2 DEF Takes
<1>5. job'[j].peers \ job'[j].todo \subseteq linked[job'[j].topic]
  BY <1>2
<1> QED BY <1>2, <1>3, <1>4, <1>5, GoesOnFollows

\* Who is held when the call j that begins is the only one.
LEMMA HeldAlone ==
    ASSUME NEW j \in Jobs, \A i \in Jobs \ {j} : ~Running(i), NEW s, NEW t
    PROVE  Held(s, t) = {p \in Peers : /\ Uses(s, p)
                                      /\ \/ p \in linked[t] /\ ~Leaves(s, j, t)
                                         \/ Holds(s, j, t, p)}
<1>1. \A i \in Jobs \ {j} : ~Leaves(s, i, t) /\ \A p \in Peers : ~Holds(s, i, t, p)
  BY DEF Leaves, Holds
<1>2. /\ (\A i \in Jobs : ~Leaves(s, i, t)) <=> ~Leaves(s, j, t)
      /\ \A p \in Peers : (\E i \in Jobs : Holds(s, i, t, p)) <=> Holds(s, j, t, p)
  BY <1>1
<1> QED BY <1>2 DEF Held

LEMMA StartLeaveFollows ==
    ASSUME TypeInv, Orderly, Follows, Calm', NEW t \in Topics, StartLeave(t)
    PROVE  Follows'
<1>1. PICK j \in Jobs :
          /\ Begin(j, "leave", t, {}, "ready")
          /\ seen' = Note(j, "leave", t, members[t] \cup linked[t]) \cup
                         {c \in {"early"} : ~(linked[t] \subseteq members[t])}
          /\ UNCHANGED <<members, linked, queue, conn, refs, dataRefs>>
  BY DEF StartLeave, storeVars, socketVars, loopVars
<1>2. Becomes(j, "leave", t, {}, {}, "none", Me, "ready") /\ job[j] = NoJob
  BY <1>1, BeginBecomes DEF Kinds, Steps
<1>3. /\ ~Running(j) /\ Running(j)' /\ Takes(j)' /\ job'[j].kind = "leave"
      /\ job'[j].op = "none" /\ job'[j].topic = t
      /\ \A i \in Jobs \ {j} : job'[i] = job[i]
  BY <1>2 DEF Becomes, Running, NoJob, Takes
<1>4. \A i \in Jobs : ~Running(i)
  <2>1. PICK noted : noted = members[t] \cup linked[t]
    OBVIOUS
  <2>2. "clash" \notin Note(j, "leave", t, noted)
    BY <2>1, <1>1 DEF Calm
  <2>3. \A i \in Jobs \ {j} : Running(i) =>
            {"leave", job[i].kind} \cap {"remove", "leave"} = {}
    BY <2>2, NoteClash
  <2> QED BY <2>3, <1>3
<1>5. \A i \in Jobs \ {j} : ~Running(i)'
  BY <1>3, <1>4 DEF Running
<1>6. \A u \in Topics : members[u] \ {Me} \subseteq linked[u]
  BY <1>4 DEF Follows, Known, Takes
<1>7. ASSUME NEW s \in Sockets, NEW u \in Topics PROVE Held(s, u)' = Held(s, u)
  <2>1. Held(s, u) = {p \in Peers : Uses(s, p) /\ p \in linked[u]}
    BY <1>3, <1>4, HeldAlone DEF Leaves, Holds
  <2>2. ~Leaves(s, j, u)' /\ \A p \in Peers : Holds(s, j, u, p)' => p \in linked[u]
    <3>1. ~Leaves(s, j, u)'
      BY <1>3 DEF Leaves, Released
    <3>2. \A p \in Peers : Holds(s, j, u, p)' => p \in members[u]
      BY <1>1, <1>3 DEF Holds
    <3>3. Me \notin Peers
      BY ConstantsAssumption
    <3> QED BY <3>1, <3>2, <3>3, <1>6
  <2>3. \A i \in Jobs \ {j} : ~Leaves(s, i, u)' /\ \A p \in Peers : ~Holds(s, i, u, p)'
    BY <1>5 DEF Leaves, Holds
  <2>4. \A p \in Peers : p \in Held(s, u)' <=>
            Uses(s, p) /\ (p \in linked[u] \/ Holds(s, j, u, p)')
    BY <2>2, <2>3, <1>1 DEF Held, Uses
  <2>5. Held(s, u)' \subseteq Peers
    BY DEF Held
  <2> QED BY <2>1, <2>2, <2>4, <2>5
<1>8. Tied' /\ Counted' /\ Filtered'
  BY <1>1, <1>7, SocketsStay
<1>9. Known'
  BY <1>1, <1>6 DEF Known
<1>10. AddedLinked'
  BY <1>3, <1>5 DEF AddedLinked, Adders
<1> QED BY <1>8, <1>9, <1>10 DEF Follows

LEMMA JoinedFollows ==
    ASSUME TypeInv, Orderly, Follows, NEW t \in Topics,
           Create(t) \/ \E p \in Peers : AddMember(t, p)
    PROVE  Follows'
<1>1. PICK l \in Labels :
          /\ l = Me \/ (l \in linked[t] /\ l \notin members[t])
          /\ \A u \in Topics : members'[u] = IF u = t THEN members[u] \cup {l}
                                             ELSE members[u]
          /\ UNCHANGED <<job, linked, queue, conn, refs, dataRefs>>
  <2>1. CASE Create(t)
    <3>1. \A u \in Topics : members'[u] = IF u = t THEN members[u] \cup {Me}
                                          ELSE members[u]
      BY <2>1 DEF Create, TypeInv, TypeOK
    <3> QED BY <2>1, <3>1 DEF Create, Labels, jobVars, socketVars, loopVars
  <2>2. CASE \E p \in Peers : AddMember(t, p)
    <3>1. PICK p \in Peers : AddMember(t, p)
      BY <2>2
    <3>2. \A u \in Topics : members'[u] = IF u = t THEN members[u] \cup {p}
                                          ELSE members[u]
      BY <3>1 DEF AddMember, TypeInv, TypeOK
    <3> QED BY <3>1, <3>2 DEF AddMember, Labels, jobVars, socketVars, loopVars, Receives
  <2> QED BY <2>1, <2>2
<1>2. \A s \in Sockets : Queued(s)' = Queued(s)
  BY <1>1 DEF Queued
<1>3. ASSUME NEW i \in Jobs, NEW u \in Topics, Running(i), job[i].kind = "leave",
             job[i].topic = u
      PROVE  members'[u] \cap Peers = members[u] \cap Peers
  <2>1. linked[u] \subseteq members[u]
    BY <1>3 DEF Orderly, Unshared
  <2>2. Me \notin Peers
    BY ConstantsAssumption
  <2> QED BY <2>1, <2>2, <1>1
<1>4. ASSUME NEW s \in Sockets, NEW u \in Topics PROVE Held(s, u)' = Held(s, u)
  <2>1. ASSUME NEW i \in Jobs
        PROVE  /\ Leaves(s, i, u)' <=> Leaves(s, i, u)
               /\ \A p \in Peers : Holds(s, i, u, p)' <=> Holds(s, i, u, p)
    <3>1. /\ Running(i)' <=> Running(i)
          /\ Released(s, i)' <=> Released(s, i)
          /\ i \in Waiting' <=> i \in Waiting
          /\ job' = job /\ Queued(s)' = Queued(s)
      BY <1>1, <1>2 DEF Running, Released, Waiting
    <3>2. Running(i) /\ job[i].kind = "leave" /\ job[i].topic = u
              => \A p \in Peers : p \in members'[u] <=> p \in members[u]
      BY <1>3
    <3> QED BY <3>1, <3>2 DEF Leaves, Holds
  <2> QED BY <2>1, <1>1 DEF Held, Uses
<1>5. Tied' /\ Counted' /\ Filtered'
  BY <1>1, <1>4, SocketsStay
<1>6. Known'
  <2> SUFFICES ASSUME NEW u \in Topics, NEW p \in members'[u] \ {Me}, p \notin linked[u]
               PROVE  \E i \in Jobs : /\ Takes(i)' /\ job[i].topic = u
                                      /\ job[i].kind = "leave" \/ p \in job[i].peers
    BY <1>1 DEF Known
  <2>1. p \in members[u] \ {Me}
    BY <1>1
  <2> QED BY <2>1, <1>1 DEF Follows, Known, Takes, Running
<1>7. AddedLinked'
  BY <1>1 DEF Follows, AddedLinked, Running
<1> QED BY <1>5, <1>6, <1>7 DEF Follows

\* A peer departs: its status is received and it is removed, or the agent is
\* leaving the group.
LEMMA DepartFollows ==
    ASSUME TypeInv, Orderly, Follows, Calm', NEW t \in Topics, NEW p \in Peers,
           Depart(t, p)
    PROVE  Follows'
<1>1. /\ p \in linked[t]
      /\ \A u \in Topics : linked'[u] = IF u = t THEN linked[u] \ {p} ELSE linked[u]
      /\ UNCHANGED <<members, queue, conn, refs, dataRefs>>
  BY DEF Depart, storeVars, socketVars, loopVars, TypeInv, TypeOK
<1>2. \A s \in Sockets : Queued(s)' = Queued(s)
  BY <1>1 DEF Queued
<1>3. ASSUME NEW j \in Jobs, Begin(j, "remove", t, {p}, "ready"),
             seen' = Note(j, "remove", t, {p})
      PROVE  Follows'
  <2>1. Becomes(j, "remove", t, {p}, {p}, "none", Me, "ready") /\ job[j] = NoJob
    BY <1>3, BeginBecomes DEF Kinds, Steps
  <2>2. /\ ~Running(j) /\ Running(j)' /\ Takes(j)' /\ job'[j].kind = "remove"
        /\ job'[j].op = "none" /\ job'[j].topic = t /\ job'[j].peers = {p}
        /\ \A i \in Jobs \ {j} : job'[i] = job[i]
    BY <2>1 DEF Becomes, Running, NoJob, Takes
  <2>3. \A i \in Jobs : ~Running(i)
    <3>1. "clash" \notin Note(j, "remove", t, {p})
      BY <1>3 DEF Calm
    <3>2. \A i \in Jobs \ {j} : Running(i) =>
              {"remove", job[i].kind} \cap {"remove", "leave"} = {}
      BY <3>1, NoteClash
    <3> QED BY <3>2, <2>2
  <2>4. \A i \in Jobs \ {j} : ~Running(i)'
    BY <2>2, <2>3 DEF Running
  <2>5. ASSUME NEW s \in Sockets, NEW u \in Topics PROVE Held(s, u)' = Held(s, u)
    <3>1. Held(s, u) = {q \in Peers : Uses(s, q) /\ q \in linked[u]}
      BY <2>2, <2>3, HeldAlone DEF Leaves, Holds
    <3>2. ~Leaves(s, j, u)' /\ \A q \in Peers : Holds(s, j, u, q)' <=> u = t /\ q = p
      BY <2>2 DEF Leaves, Holds, Released
    <3>3. \A i \in Jobs \ {j} : ~Leaves(s, i, u)' /\ \A q \in Peers : ~Holds(s, i, u, q)'
      BY <2>4 DEF Leaves, Holds
    <3>4. \A q \in Peers : q \in Held(s, u)' <=>
              Uses(s, q) /\ (q \in linked'[u] \/ (u = t /\ q = p))
      BY <3>2, <3>3 DEF Held, Uses
    <3>5. Held(s, u)' \subseteq Peers
      BY DEF Held
    <3> QED BY <3>1, <3>4, <3>5, <1>1
  <2>6. Tied' /\ Counted' /\ Filtered'
    BY <1>1, <2>5, SocketsStay
  <2>7. Known'
    <3>1. \A u \in Topics : members[u] \ {Me} \subseteq linked[u]
      BY <2>3 DEF Follows, Known, Takes
    <3> QED BY <3>1, <2>2, <1>1 DEF Known
  <2>8. AddedLinked'
    BY <2>2, <2>4 DEF AddedLinked, Adders
  <2> QED BY <2>6, <2>7, <2>8 DEF Follows
<1>4. ASSUME UNCHANGED job, ~Receives(t, p),
             seen' = seen \cup {c \in {"missed"} : conn["state"][p] \ {p} # {}}
      PROVE  Follows'
  <2>1. PICK j \in Jobs : Leaves("state", j, t)
    <3> SUFFICES ASSUME \A j \in Jobs : ~Leaves("state", j, t) PROVE FALSE
      OBVIOUS
    <3>1. p \in Held("state", t)
      BY <1>1 DEF Held, Uses
    <3>2. conn["state"][p] # {} /\ refs[t] > 0
      BY <3>1 DEF Follows, Tied, Filtered, Sockets
    <3>3. conn["state"][p] # {p}
      BY <3>2, <1>1, <1>4 DEF Receives
    <3>4. conn["state"][p] \ {p} # {}
      BY <3>2, <3>3
    <3> QED BY <3>4, <1>4 DEF Calm
  <2>2. /\ Takes(j) /\ job[j].topic = t /\ job[j].kind = "leave" /\ Running(j)
        /\ \A i \in Jobs \ {j} : ~Running(i)
    BY <2>1 DEF Leaves, Takes, Orderly, Alone
  <2>3. linked[t] \subseteq members[t]
    BY <2>2 DEF Orderly, Unshared
  <2>4. ASSUME NEW s \in Sockets, NEW u \in Topics PROVE Held(s, u)' = Held(s, u)
    <3>1. \A i \in Jobs : /\ Leaves(s, i, u)' <=> Leaves(s, i, u)
                         /\ \A q \in Peers : Holds(s, i, u, q)' <=> Holds(s, i, u, q)
      BY <1>1, <1>2, <1>4 DEF Leaves, Holds, Running, Released, Waiting
    <3>2. CASE u # t
      BY <3>1, <3>2, <1>1 DEF Held, Uses
    <3>3. CASE u = t /\ Leaves(s, j, t)
      BY <3>1, <3>3 DEF Held, Uses
    <3>4. CASE u = t /\ ~Leaves(s, j, t)
      <4>1. ~Released(s, j)
        BY <2>2, <3>4 DEF Leaves
      <4>2. Uses(s, p) => Holds(s, j, t, p)
        BY <4>1, <2>2, <2>3, <1>1 DEF Holds
      <4>3. \A q \in Peers : q \in Held(s, t)' <=> q \in Held(s, t)
        BY <3>1, <3>4, <4>2, <1>1 DEF Held, Uses
      <4> QED BY <4>3, <3>4 DEF Held
    <3> QED BY <3>2, <3>3, <3>4
  <2>5. Tied' /\ Counted' /\ Filtered'
    BY <1>1, <2>4, SocketsStay
  <2>6. Known'
    <3> SUFFICES ASSUME NEW u \in Topics, NEW q \in members[u] \ {Me}, q \notin linked'[u]
                 PROVE  \E i \in Jobs : /\ Takes(i)' /\ job[i].topic = u
                                        /\ job[i].kind = "leave" \/ q \in job[i].peers
      BY <1>1, <1>4 DEF Known
    <3>1. \A i \in Jobs : Takes(i)' <=> Takes(i)
      BY <1>4 DEF Takes, Running
    <3>2. CASE u = t
      BY <3>1, <3>2, <2>2
    <3>3. CASE u # t
      BY <3>1, <3>3, <1>1 DEF Follows, Known
    <3> QED BY <3>2, <3>3
  <2>7. AddedLinked'
    BY <2>2, <1>4 DEF AddedLinked, Running, Adders
  <2> QED BY <2>5, <2>6, <2>7 DEF Follows
<1> QED BY <1>3, <1>4 DEF Depart

LEMMA StutterFollows ==
    ASSUME Follows, UNCHANGED <<job, queue, members, linked, conn, refs, dataRefs>>
    PROVE  Follows'
<1>1. ASSUME NEW s \in Sockets, NEW t \in Topics PROVE Held(s, t)' = Held(s, t)
  BY DEF Held, Uses, Leaves, Holds, Running, Released, Waiting, Queued
<1>2. Tied' /\ Counted' /\ Filtered'
  BY <1>1, SocketsStay
<1>3. Known' /\ AddedLinked'
  BY DEF Follows, Known, AddedLinked, Takes, Running
<1> QED BY <1>2, <1>3 DEF Follows

LEMMA EnvironmentFollows ==
    ASSUME TypeInv, Orderly, Follows, Calm', Environment
    PROVE  Follows'
<1>1. CASE CloseConnector \/ ClosePublisher
  <2>1. UNCHANGED <<job, queue, members, linked, conn, refs, dataRefs>>
    BY <1>1 DEF CloseConnector, ClosePublisher, jobVars, storeVars, socketVars
  <2> QED BY <2>1, StutterFollows
<1>2. ASSUME NEW t \in Topics, StartJoin(t) PROVE Follows'
  <2>1. PICK j \in Jobs, k \in {"join", "sub"}, pc \in {"asking", "ready"} :
            /\ Begin(j, k, t, {}, pc)
            /\ UNCHANGED <<members, linked, queue, conn, refs, dataRefs>>
    BY <1>2 DEF StartJoin, storeVars, socketVars, loopVars
  <2> QED BY <2>1, StartFollows
<1>3. ASSUME NEW t \in Topics, NEW p \in Peers, StartSubscription(t, p) PROVE Follows'
  <2>1. PICK j \in Jobs, k \in {"join", "sub"}, pc \in {"asking", "ready"} :
            /\ Begin(j, k, t, {p}, pc)
            /\ UNCHANGED <<members, linked, queue, conn, refs, dataRefs>>
    BY <1>3 DEF StartSubscription, storeVars, socketVars, loopVars
  <2>2. {p} \in SUBSET Peers
    OBVIOUS
  <2> QED BY <2>1, <2>2, StartFollows
<1> QED BY <1>1, <1>2, <1>3, StartLeaveFollows, JoinedFollows, DepartFollows
        DEF Environment

-----------------------------------------------------------------------------
(* What the listeners do to the peers that are held.                        *)

\* What listener s takes is a request of the call r.job; the other calls and the
\* other socket hold what they held.
LEMMA TakenHeld ==
    ASSUME TypeInv, CallInv, AskInv, NoneFailed, UNCHANGED <<job, members, linked>>,
           NEW s \in Sockets, queue[s] # <<>>, Receive(s), NEW r, r = Head(queue[s]),
           NEW t \in Topics
    PROVE  /\ \A u \in Sockets \ {s} : Held(u, t)' = Held(u, t)
           /\ \A i \in Jobs \ {r.job} :
                  /\ Leaves(s, i, t)' <=> Leaves(s, i, t)
                  /\ \A p \in Peers : Holds(s, i, t, p)' <=> Holds(s, i, t, p)
           /\ t # r.topic \/ r.op = "auth" => Held(s, t)' = Held(s, t)
<1>1. /\ r.job \in Jobs /\ job[r.job].topic = r.topic /\ job[r.job].op = r.op
      /\ Shape(job[r.job])
      /\ \A u \in Sockets :
             Queued(u)' = IF u = s THEN Queued(s) \ {r.job} ELSE Queued(u)
  BY Taken
<1>2. \A u \in Sockets, i \in Jobs \ {r.job} : i \in Queued(u)' <=> i \in Queued(u)
  BY <1>1
<1>3. \A i \in Jobs \ {r.job} :
          /\ Leaves(s, i, t)' <=> Leaves(s, i, t)
          /\ \A p \in Peers : Holds(s, i, t, p)' <=> Holds(s, i, t, p)
  BY <1>1, <1>2, OthersHold
<1>4. ASSUME NEW u \in Sockets \ {s} PROVE Held(u, t)' = Held(u, t)
  <2>1. Released(u, r.job)' <=> Released(u, r.job)
    BY <1>1 DEF Released
  <2>2. /\ Leaves(u, r.job, t)' <=> Leaves(u, r.job, t)
        /\ \A p \in Peers : Holds(u, r.job, t, p)' <=> Holds(u, r.job, t, p)
    BY <1>1, <2>1 DEF Leaves, Holds, Running, Waiting
  <2> QED BY <1>1, <1>2, <2>2, HeldSame
<1>5. ASSUME t # r.topic \/ r.op = "auth" PROVE Held(s, t)' = Held(s, t)
  <2>1. /\ Leaves(s, r.job, t)' <=> Leaves(s, r.job, t)
        /\ \A p \in Peers : Holds(s, r.job, t, p)' <=> Holds(s, r.job, t, p)
    <3>1. CASE t # r.topic
      BY <3>1, <1>1 DEF Leaves, Holds
    <3>2. CASE r.op = "auth"
      BY <3>2, <1>1 DEF Leaves, Holds, Shape, Adders
    <3> QED BY <3>1, <3>2, <1>5
  <2> QED BY <1>1, <1>2, <2>1, HeldSame
<1> QED BY <1>3, <1>4, <1>5

\* The groups and the peers of calls stay while a listener works.
LEMMA ListenKnown ==
    ASSUME Follows, UNCHANGED <<job, members, linked>>, Tied', Counted', Filtered'
    PROVE  Follows'
<1>1. Known' /\ AddedLinked'
  BY DEF Follows, Known, AddedLinked, Takes, Running
<1> QED BY <1>1 DEF Follows

\* A request that changes no connection.
LEMMA PassFollows ==
    ASSUME TypeInv, CallInv, AskInv, NoneFailed, Follows,
           NEW s \in Sockets, queue[s] # <<>>, Receive(s), NEW r, r = Head(queue[s]),
           UNCHANGED <<job, members, linked, conn, refs, dataRefs>>,
           \/ r.op = "auth"
           \/ s = "state" /\ r.op = "unsubData"
           \/ s = "data" /\ r.op = "disconnect"
           \/ r.op = "connect" /\ ~Uses(s, r.peer)
    PROVE  Follows'
<1>1. ASSUME NEW u \in Sockets, NEW t \in Topics PROVE Held(u, t)' = Held(u, t)
  <2>1. CASE u # s \/ r.op = "auth"
    BY <2>1, TakenHeld
  <2>2. CASE u = s /\ r.op # "auth"
    <3>1. /\ r.job \in Jobs /\ job[r.job].op = r.op /\ Shape(job[r.job])
          /\ job[r.job].peer = r.peer
          /\ \A i \in Jobs \ {r.job} : i \in Queued(s)' <=> i \in Queued(s)
      BY Taken
    <3>2. /\ Leaves(s, r.job, t)' <=> Leaves(s, r.job, t)
          /\ \A p \in Peers : Uses(s, p) =>
                 (Holds(s, r.job, t, p)' <=> Holds(s, r.job, t, p))
      <4>1. CASE r.op = "connect"
        BY <3>1, <2>2, <4>1 DEF Leaves, Holds, Shape, Uses
      <4>2. CASE r.op # "connect"
        <5>1. Released(s, r.job)' <=> Released(s, r.job)
          BY <3>1, <2>2, <4>2 DEF Released
        <5> QED BY <5>1, <3>1, <4>2 DEF Leaves, Holds, Running
      <4> QED BY <4>1, <4>2
    <3> QED BY <2>2, <3>1, <3>2, HeldSame
  <2> QED BY <2>1, <2>2
<1>2. Tied' /\ Counted' /\ Filtered'
  BY <1>1, SocketsStay
<1> QED BY <1>2, ListenKnown

\* Socket s connects to a peer, which it then holds for the topic.
LEMMA ConnectHeld ==
    ASSUME TypeInv, CallInv, AskInv, KeySet, Orderly, NoneFailed, Follows,
           UNCHANGED <<job, members, linked>>,
           NEW s \in Sockets, queue[s] # <<>>, Receive(s), NEW r, r = Head(queue[s]),
           r.op = "connect", Uses(s, r.peer), conn' = Connected(s, r.peer)
    PROVE  /\ r.peer \in Peers /\ r.topic \in Topics
           /\ r.peer \notin Held(s, r.topic)
           /\ Held(s, r.topic)' = Held(s, r.topic) \cup {r.peer}
           /\ \A u \in Sockets, t \in Topics :
                  u # s \/ t # r.topic => Held(u, t)' = Held(u, t)
           /\ Tied'
<1>1. /\ r.job \in Jobs /\ job[r.job].topic = r.topic /\ job[r.job].op = "connect"
      /\ job[r.job].peer = r.peer /\ Shape(job[r.job]) /\ r.job \in Waiting
      /\ job[r.job].pc \in {"state", "data"}
      /\ Running(r.job) /\ r.topic \in Topics /\ r.peer \in Peers
      /\ r.job \in Queued(s) /\ r.job \notin Queued(s)'
  BY Taken
<1>2. job[r.job].kind \in {"join", "conn"} /\ r.peer \in job[r.job].todo
  BY <1>1 DEF Shape
<1>3. \A i \in Jobs : Running(i) => job[i].kind \notin {"remove", "leave"}
  BY <1>1, <1>2, NoTaker DEF Orderly
<1>4. \A u \in Sockets, t \in Topics :
          u # s \/ t # r.topic => Held(u, t)' = Held(u, t)
  BY TakenHeld
<1>5. /\ \A i \in Jobs : ~Leaves(s, i, r.topic) /\ ~Leaves(s, i, r.topic)'
      /\ \A p \in Peers : /\ ~Holds(s, r.job, r.topic, p)
                          /\ Holds(s, r.job, r.topic, p)' <=> p = r.peer
  BY <1>1, <1>2, <1>3 DEF Leaves, Holds, Running, Waiting
<1>6. \A i \in Jobs \ {r.job} : \A p \in Peers :
          Holds(s, i, r.topic, p)' <=> Holds(s, i, r.topic, p)
  BY <1>1, TakenHeld
<1>7. \A p \in Peers : p \in Held(s, r.topic)' <=> p \in Held(s, r.topic) \/ p = r.peer
  BY <1>1, <1>5, <1>6 DEF Held, Uses
<1>8. Held(s, r.topic)' = Held(s, r.topic) \cup {r.peer}
  BY <1>1, <1>7 DEF Held
<1>9. r.peer \notin Held(s, r.topic)
  <2>1. r.peer \notin linked[r.topic]
    BY <1>1, <1>2 DEF Orderly, Fresh, Adders
  <2>2. ASSUME NEW i \in Jobs \ {r.job}, Holds(s, i, r.topic, r.peer) PROVE FALSE
    <3>1. /\ Running(i) /\ job[i].topic = r.topic /\ job[i].op = "connect"
          /\ job[i].peer = r.peer
      BY <2>2, <1>3 DEF Holds
    <3>2. r.peer \in Adding(i) /\ r.peer \in Adding(r.job)
      BY <3>1, <1>1, AddsPeer
    <3> QED BY <3>1, <3>2, <1>1 DEF Orderly, Apart
  <2> QED BY <2>1, <2>2, <1>5 DEF Held
<1>10. curve[s] # {}
  BY <1>1 DEF KeySet, Prepared
<1>11. Tied'
  <2> SUFFICES ASSUME NEW u \in Sockets, NEW p \in Peers
               PROVE  conn'[u][p] # {} <=> \E t \in Topics : p \in Held(u, t)'
    BY DEF Tied
  <2>1. conn'[u][p] = IF u = s /\ p = r.peer /\ conn[u][p] = {} THEN curve[s]
                      ELSE conn[u][p]
    BY <1>1, ConnectedAt DEF TypeInv
  <2>2. conn[u][p] # {} <=> \E t \in Topics : p \in Held(u, t)
    BY DEF Follows, Tied
  <2>3. CASE u = s /\ p = r.peer
    BY <2>1, <2>3, <1>1, <1>8, <1>10
  <2>4. CASE ~(u = s /\ p = r.peer)
    <3>1. \A t \in Topics : p \in Held(u, t)' <=> p \in Held(u, t)
      BY <2>4, <1>4, <1>8
    <3> QED BY <3>1, <2>1, <2>2, <2>4
  <2> QED BY <2>3, <2>4
<1> QED BY <1>1, <1>4, <1>8, <1>9, <1>11

LEMMA StateConnectFollows ==
    ASSUME TypeInv, CallInv, AskInv, KeySet, Orderly, NoneFailed, Follows,
           queue["state"] # <<>>, NEW r, r = Head(queue["state"]), StateConnect(r)
    PROVE  Follows'
<1>1. /\ "state" \in Sockets /\ "data" \in Sockets /\ Receive("state")
      /\ r.op = "connect" /\ Uses("state", r.peer) /\ conn' = Connected("state", r.peer)
      /\ UNCHANGED <<job, members, linked, dataRefs>>
  BY DEF StateConnect, Sockets, Uses, storeVars, jobVars
<1>2. /\ r.topic \in Topics
      /\ Held("state", r.topic)' = Held("state", r.topic) \cup {r.peer}
      /\ \A u \in Sockets, t \in Topics :
             u # "state" \/ t # r.topic => Held(u, t)' = Held(u, t)
      /\ Tied'
  <2> DEFINE s == "state"
  <2>1. /\ s \in Sockets /\ Receive(s) /\ queue[s] # <<>> /\ r = Head(queue[s])
        /\ r.op = "connect" /\ Uses(s, r.peer) /\ conn' = Connected(s, r.peer)
        /\ UNCHANGED <<job, members, linked>>
    BY <1>1
  <2> HIDE DEF s
  <2>2. /\ r.topic \in Topics
        /\ Held(s, r.topic)' = Held(s, r.topic) \cup {r.peer}
        /\ \A u \in Sockets, t \in Topics :
               u # s \/ t # r.topic => Held(u, t)' = Held(u, t)
        /\ Tied'
    BY <2>1, ConnectHeld
  <2> QED BY <2>2 DEF s
<1>3. Counted'
  <2> SUFFICES ASSUME NEW t \in Topics, NEW l \in Labels
               PROVE  dataRefs'[t][l] =
                          Cardinality({p \in Held("data", t)' : DataTopic(t, p) = l})
    BY DEF Counted, DataTopic
  <2>1. Held("data", t)' = Held("data", t)
    BY <1>1, <1>2
  <2> QED BY <2>1, <1>1 DEF Follows, Counted
<1>4. Filtered'
  <2>1. \A t \in Topics : refs'[t] = IF t = r.topic /\ ~TopicExists(t)
                                     THEN refs[t] + 1 ELSE refs[t]
    BY DEF StateConnect, TypeInv, TypeOK
  <2>2. TopicExists(r.topic) => refs[r.topic] > 0
    <3> SUFFICES ASSUME TopicExists(r.topic) PROVE Held("state", r.topic) # {}
      BY <1>2 DEF Follows, Filtered
    <3>1. PICK q \in members[r.topic] : q # Me
      <4> SUFFICES ASSUME members[r.topic] \subseteq {Me} PROVE FALSE
        OBVIOUS
      <4>1. IsFiniteSet({Me}) /\ Cardinality({Me}) = 1
        BY FS_Singleton
      <4>2. Cardinality(members[r.topic]) <= 1 /\ Cardinality(members[r.topic]) \in Nat
        BY <4>1, FS_Subset, FS_CardinalityType
      <4> QED BY <4>2 DEF TopicExists
    <3>2. r.job \in Jobs /\ Running(r.job) /\ job[r.job].op = "connect" /\ Shape(job[r.job])
      BY <1>1, Taken
    <3>3. \A i \in Jobs : Running(i) => job[i].kind \notin {"remove", "leave"}
      BY <3>2, NoTaker DEF Orderly, Shape
    <3>4. q \in linked[r.topic] /\ q \in Peers
      <4>1. r.topic \in Topics
        BY <1>2
      <4>2. Known
        BY DEF Follows
      <4>3. ~\E j \in Jobs : Takes(j)
        BY <3>3 DEF Takes
      <4>4. members \in [Topics -> SUBSET Labels]
        BY DEF TypeInv, TypeOK
      <4>5. q \in members[r.topic] \ {Me}
        BY <3>1
      <4>6. q \in linked[r.topic]
        BY <4>1, <4>2, <4>3, <4>5 DEF Known
      <4>7. members[r.topic] \subseteq Labels
        BY <4>1, <4>4
      <4> QED BY <4>5, <4>6, <4>7 DEF Labels
    <3>5. q \in Held("state", r.topic)
      BY <3>3, <3>4 DEF Held, Leaves, Uses
    <3> QED BY <3>5
  <2> SUFFICES ASSUME NEW t \in Topics, Held("state", t)' # {} PROVE refs'[t] > 0
    BY DEF Filtered
  <2>3. refs[t] \in Nat
    BY DEF TypeInv, TypeOK
  <2>4. CASE t = r.topic
    BY <2>1, <2>2, <2>3, <2>4
  <2>5. CASE t # r.topic
    BY <2>1, <2>3, <2>5, <1>1, <1>2 DEF Follows, Filtered
  <2> QED BY <2>4, <2>5
<1> QED BY <1>1, <1>2, <1>3, <1>4, ListenKnown

\* Those of A that publish to the data topic l of the group t.
Served(A, t, l) == {p \in A : DataTopic(t, p) = l}

\* One peer more, and some peers less, of them.
LEMMA CountAdd ==
    ASSUME NEW A \in SUBSET Peers, NEW p \in Peers \ A, NEW t, NEW l
    PROVE  Cardinality(Served(A \cup {p}, t, l)) =
               IF DataTopic(t, p) = l THEN Cardinality(Served(A, t, l)) + 1
               ELSE Cardinality(Served(A, t, l))
<1> DEFINE B == {q \in A : DataTopic(t, q) = l}
<1>1. IsFiniteSet(B) /\ p \notin B
  BY FS_Subset, ConstantsAssumption
<1>2. {q \in A \cup {p} : DataTopic(t, q) = l} =
          IF DataTopic(t, p) = l THEN B \cup {p} ELSE B
  OBVIOUS
<1>3. Cardinality(B \cup {p}) = Cardinality(B) + 1
  BY <1>1, FS_AddElement
<1> QED BY <1>2, <1>3 DEF Served

LEMMA CountRemove ==
    ASSUME NEW A \in SUBSET Peers, NEW P \in SUBSET A, NEW t, NEW l
    PROVE  Minus(Cardinality(Served(A, t, l)), Cardinality(Served(P, t, l))) =
               Cardinality(Served(A \ P, t, l))
<1> DEFINE B == {q \in A : DataTopic(t, q) = l}
           C == {q \in P : DataTopic(t, q) = l}
<1>1. IsFiniteSet(B)
  BY FS_Subset, ConstantsAssumption
<1>2. C \in SUBSET B /\ B \cap C = C /\ {q \in A \ P : DataTopic(t, q) = l} = B \ C
  OBVIOUS
<1>3. /\ IsFiniteSet(C) /\ Cardinality(C) \in Nat /\ Cardinality(B) \in Nat
      /\ Cardinality(C) <= Cardinality(B)
  BY <1>1, <1>2, FS_Subset, FS_CardinalityType
<1> HIDE DEF B, C
<1>4. Cardinality(B \ C) = Cardinality(B) - Cardinality(C)
  BY <1>1, <1>2, FS_Difference
<1>5. Minus(Cardinality(B), Cardinality(C)) = Cardinality(B \ C)
  BY <1>3, <1>4 DEF Minus
<1> QED BY <1>2, <1>5 DEF B, C, Served

\* Socket s lets go of the peers of a call that removes or leaves.
LEMMA ReleaseHeld ==
    ASSUME TypeInv, CallInv, AskInv, Orderly, NoneFailed,
           UNCHANGED <<job, members, linked>>,
           NEW s \in Sockets, queue[s] # <<>>, Receive(s), NEW r, r = Head(queue[s]),
           NEW P,
           \/ r.op = "disconnect" /\ s = "state" /\ P = {r.peer}
           \/ r.op = "unsubData" /\ s = "data" /\ P = {r.peer}
           \/ /\ r.op = "unsubAll"
              /\ P = {p \in members[r.topic] \ {Me} : Uses(s, p)}
    PROVE  /\ r.topic \in Topics /\ P \subseteq Held(s, r.topic)
           /\ r.op = "unsubAll" => P = Held(s, r.topic)
           /\ \A t \in Topics : Held(s, t)' = Held(s, t) \ P
           /\ \A t \in Topics \ {r.topic} : Held(s, t) \cap P = {}
<1>1. /\ r.job \in Jobs /\ job[r.job].topic = r.topic /\ job[r.job].op = r.op
      /\ job[r.job].peer = r.peer /\ Shape(job[r.job]) /\ Running(r.job)
      /\ r.topic \in Topics /\ r.job \in Queued(s) /\ r.job \notin Queued(s)'
  BY Taken
<1>2. \A i \in Jobs \ {r.job} : ~Running(i)
  BY <1>1 DEF Orderly, Alone, Takes, Shape
<1>3. \A i \in Jobs \ {r.job} : ~Running(i)'
  BY <1>2 DEF Running
<1>4. ~Released(s, r.job) /\ Released(s, r.job)' /\ Running(r.job)'
  BY <1>1 DEF Released, Running, Sockets
<1>5. /\ P \subseteq Peers /\ \A p \in P : Uses(s, p)
      /\ \/ job[r.job].kind = "remove" /\ P = job[r.job].peers
         \/ /\ job[r.job].kind = "leave"
            /\ P = {p \in members[r.topic] \cap Peers : Uses(s, p)}
  <2>1. CASE r.op \in {"disconnect", "unsubData"}
    <3>1. job[r.job].kind = "remove" /\ r.peer \in job[r.job].peers
      BY <1>1, <2>1 DEF Shape
    <3>2. job[r.job].peers = {r.peer}
      BY <1>1, <3>1 DEF Shape
    <3>3. r.peer \in Peers
      BY <2>1, Taken
    <3>4. P = {r.peer} /\ Uses(s, r.peer)
      BY <1>1, <2>1 DEF Shape, Uses
    <3> QED BY <3>1, <3>2, <3>3, <3>4
  <2>2. CASE r.op = "unsubAll"
    <3>1. members[r.topic] \ {Me} = members[r.topic] \cap Peers
      BY <1>1, ConstantsAssumption DEF TypeInv, TypeOK, Labels
    <3> QED BY <3>1, <2>2, <1>1 DEF Shape
  <2> QED BY <2>1, <2>2
<1>6. /\ \A t \in Topics \ {r.topic} : linked[t] \cap P = {}
      /\ job[r.job].kind = "remove" => linked[r.topic] \cap P = {}
      /\ job[r.job].kind = "leave" => linked[r.topic] \subseteq members[r.topic]
  BY <1>1, <1>5 DEF Orderly, Unshared
<1>7. ASSUME NEW t \in Topics
      PROVE  /\ Held(s, t) = {p \in Peers : Uses(s, p) /\ p \in linked[t]}
                                 \cup (IF t = r.topic THEN P ELSE {})
             /\ Held(s, t)' = {p \in Peers : Uses(s, p) /\ p \in linked[t]} \ P
  <2>1. Held(s, t) = {p \in Peers : /\ Uses(s, p)
                                   /\ \/ p \in linked[t] /\ ~Leaves(s, r.job, t)
                                      \/ Holds(s, r.job, t, p)}
    BY <1>1, <1>2, HeldAlone
  <2>2. ~Leaves(s, r.job, t)
    BY <1>4 DEF Leaves
  <2>3. \A p \in Peers : Uses(s, p) =>
            (Holds(s, r.job, t, p) <=> t = r.topic /\ p \in P)
    <3> SUFFICES ASSUME NEW p \in Peers, Uses(s, p)
                 PROVE  Holds(s, r.job, t, p) <=> t = r.topic /\ p \in P
      OBVIOUS
    <3>1. job[r.job].op # "connect"
      BY <1>1, <1>5 DEF Shape
    <3>2. CASE job[r.job].kind = "remove"
      BY <3>1, <3>2, <1>1, <1>4, <1>5 DEF Holds
    <3>3. CASE job[r.job].kind = "leave"
      BY <3>1, <3>3, <1>1, <1>4, <1>5 DEF Holds
    <3> QED BY <3>2, <3>3, <1>5
  <2>4. Held(s, t) = {p \in Peers : Uses(s, p) /\ p \in linked[t]}
                         \cup (IF t = r.topic THEN P ELSE {})
    BY <2>1, <2>2, <2>3, <1>5
  <2>5. /\ Leaves(s, r.job, t)' <=> t = r.topic /\ job[r.job].kind = "leave"
        /\ \A p \in Peers : ~Holds(s, r.job, t, p)'
    BY <1>1, <1>4 DEF Leaves, Holds, Shape
  <2>6. \A i \in Jobs \ {r.job} : ~Leaves(s, i, t)' /\ \A p \in Peers : ~Holds(s, i, t, p)'
    BY <1>3 DEF Leaves, Holds
  <2>7. \A p \in Peers : p \in Held(s, t)' <=>
            /\ Uses(s, p) /\ p \in linked[t]
            /\ ~(t = r.topic /\ job[r.job].kind = "leave")
    BY <1>1, <2>5, <2>6 DEF Held, Uses
  <2>8. Held(s, t)' \subseteq Peers
    BY DEF Held
  <2>9. \A p \in Peers : p \in Held(s, t)' <=> Uses(s, p) /\ p \in linked[t] /\ p \notin P
    <3>1. CASE t = r.topic /\ job[r.job].kind = "leave"
      BY <3>1, <2>7, <1>5, <1>6
    <3>2. CASE ~(t = r.topic /\ job[r.job].kind = "leave")
      BY <3>2, <2>7, <1>5, <1>6
    <3> QED BY <3>1, <3>2
  <2> QED BY <2>4, <2>8, <2>9
<1>8. r.op = "unsubAll" => P = Held(s, r.topic)
  <2> HAVE r.op = "unsubAll"
  <2>1. job[r.job].kind = "leave"
    BY <1>1 DEF Shape
  <2> QED BY <2>1, <1>1, <1>5, <1>6, <1>7
<1> QED BY <1>1, <1>5, <1>6, <1>7, <1>8

\* It is disconnected from them.
LEMMA ReleaseTied ==
    ASSUME TypeInv, Follows, NEW s \in Sockets, NEW P, conn' = Disconnected(s, P),
           \A t \in Topics : Held(s, t)' = Held(s, t) \ P,
           \A u \in Sockets \ {s}, t \in Topics : Held(u, t)' = Held(u, t)
    PROVE  Tied'
<1> SUFFICES ASSUME NEW u \in Sockets, NEW p \in Peers
             PROVE  conn'[u][p] # {} <=> \E t \in Topics : p \in Held(u, t)'
  BY DEF Tied
<1>1. conn'[u][p] = IF u = s /\ p \in P THEN {} ELSE conn[u][p]
  BY DisconnectedAt DEF TypeInv
<1>2. conn[u][p] # {} <=> \E t \in Topics : p \in Held(u, t)
  BY DEF Follows, Tied
<1>3. CASE u = s
  BY <1>1, <1>2, <1>3
<1>4. CASE u # s
  BY <1>1, <1>2, <1>4
<1> QED BY <1>3, <1>4

\* The state socket does not change what the data socket is subscribed for.
LEMMA CountedStays ==
    ASSUME Follows, UNCHANGED dataRefs, \A t \in Topics : Held("data", t)' = Held("data", t)
    PROVE  Counted'
<1> SUFFICES ASSUME NEW t \in Topics, NEW l \in Labels
             PROVE  dataRefs'[t][l] =
                        Cardinality({p \in Held("data", t)' : DataTopic(t, p) = l})
  BY DEF Counted, DataTopic
<1> QED BY DEF Follows, Counted

\* The subscriptions of the data socket are taken back with them.
LEMMA ReleaseCounted ==
    ASSUME TypeInv, Follows, NEW t \in Topics, NEW P \in SUBSET Held("data", t),
           dataRefs' = Unsubscribed(t, P),
           \A u \in Topics : Held("data", u)' = Held("data", u) \ P,
           \A u \in Topics \ {t} : Held("data", u) \cap P = {}
    PROVE  Counted'
<1> SUFFICES ASSUME NEW u \in Topics, NEW l \in Labels
             PROVE  dataRefs'[u][l] =
                        Cardinality({p \in Held("data", u)' : DataTopic(u, p) = l})
  BY DEF Counted, DataTopic
<1>1. dataRefs'[u][l] =
          IF u = t THEN Minus(dataRefs[u][l],
                              Cardinality({p \in P : DataTopic(t, p) = l}))
          ELSE dataRefs[u][l]
  BY DEF Unsubscribed, TypeInv, TypeOK
<1>2. dataRefs[u][l] = Cardinality({p \in Held("data", u) : DataTopic(u, p) = l})
  BY DEF Follows, Counted
<1>3. CASE u = t
  <2>1. Held("data", t) \in SUBSET Peers
    BY DEF Held
  <2>2. PICK A \in SUBSET Peers : A = Held("data", t)
    BY <2>1
  <2>3. Minus(Cardinality(Served(A, t, l)), Cardinality(Served(P, t, l))) =
            Cardinality(Served(A \ P, t, l))
    BY <2>2, CountRemove
  <2> QED BY <1>1, <1>2, <1>3, <2>2, <2>3 DEF Served
<1>4. CASE u # t
  <2>1. Held("data", u)' = Held("data", u)
    BY <1>4
  <2> QED BY <1>1, <1>2, <1>4, <2>1
<1> QED BY <1>3, <1>4

LEMMA StateReleaseFollows ==
    ASSUME TypeInv, CallInv, AskInv, Orderly, NoneFailed, Sure, Follows,
           queue["state"] # <<>>, NEW r, r = Head(queue["state"]),
           StateDisconnect(r) \/ StateUnsubAll(r)
    PROVE  Follows'
<1> DEFINE s == "state"
           P == IF r.op = "unsubAll" THEN {p \in members[r.topic] \ {Me} : Uses(s, p)}
                ELSE {r.peer}
<1>1. /\ s \in Sockets /\ Receive(s) /\ r = Head(queue[s]) /\ queue[s] # <<>>
      /\ UNCHANGED <<job, members, linked>> /\ UNCHANGED dataRefs
      /\ r.op \in {"disconnect", "unsubAll"}
  BY DEF StateDisconnect, StateUnsubAll, storeVars, jobVars, Sockets
<1>2. /\ r.job \in Jobs /\ job[r.job].op = r.op /\ job[r.job].topic = r.topic
      /\ r.topic \in Topics /\ r.job \in Queued(s)
  BY <1>1, Taken
<1>3. conn' = Disconnected(s, P)
  <2>1. CASE StateDisconnect(r)
    BY <2>1 DEF StateDisconnect
  <2>2. CASE StateUnsubAll(r)
    <3>1. r.op = "unsubAll" /\ P = members[r.topic] \ {Me}
      BY <2>2 DEF StateUnsubAll, Uses
    <3>2. \A p \in P : conn["state"][p] # {}
      BY <3>1, <1>1, <1>2 DEF Sure, Uses
    <3>3. On("state", P) = P
      BY <3>2 DEF On
    <3> QED BY <2>2, <3>1, <3>3 DEF StateUnsubAll
  <2> QED BY <2>1, <2>2
<1>4. \/ r.op = "disconnect" /\ s = "state" /\ P = {r.peer}
      \/ /\ r.op = "unsubAll"
         /\ P = {p \in members[r.topic] \ {Me} : Uses(s, p)}
  BY <1>1
<1> HIDE DEF s, P
<1>5. /\ r.op = "unsubAll" => P = Held(s, r.topic)
      /\ \A t \in Topics : Held(s, t)' = Held(s, t) \ P
      /\ \A t \in Topics \ {r.topic} : Held(s, t) \cap P = {}
  BY <1>1, <1>4, ReleaseHeld
<1>6. \A u \in Sockets \ {s}, t \in Topics : Held(u, t)' = Held(u, t)
  BY <1>1, TakenHeld
<1>7. Tied'
  BY <1>1, <1>3, <1>5, <1>6, ReleaseTied
<1>8. Counted'
  <2>1. \A t \in Topics : Held("data", t)' = Held("data", t)
    BY <1>6 DEF s, Sockets
  <2> QED BY <1>1, <2>1, CountedStays
<1>9. Filtered'
  <2> SUFFICES ASSUME NEW t \in Topics, Held("state", t)' # {} PROVE refs'[t] > 0
    BY DEF Filtered
  <2>1. Held(s, t) # {} /\ ~(r.op = "unsubAll" /\ t = r.topic)
    BY <1>5 DEF s
  <2>2. refs[t] > 0
    BY <2>1 DEF Follows, Filtered, s
  <2>3. refs'[t] = refs[t]
    BY <2>1, <1>2 DEF StateDisconnect, StateUnsubAll, TypeInv, TypeOK
  <2> QED BY <2>2, <2>3
<1> QED BY <1>1, <1>7, <1>8, <1>9, ListenKnown

LEMMA DataReleaseFollows ==
    ASSUME TypeInv, CallInv, AskInv, Orderly, NoneFailed, Sure, Follows,
           queue["data"] # <<>>, NEW r, r = Head(queue["data"]),
           DataUnsub(r) \/ DataUnsubAll(r)
    PROVE  Follows'
<1> DEFINE s == "data"
           P == IF r.op = "unsubAll" THEN {p \in members[r.topic] \ {Me} : Uses(s, p)}
                ELSE {r.peer}
<1>1. /\ s \in Sockets /\ Receive(s) /\ r = Head(queue[s]) /\ queue[s] # <<>>
      /\ r.op \in {"unsubData", "unsubAll"}
  BY DEF DataUnsub, DataUnsubAll, Sockets
<1>2. /\ r.job \in Jobs /\ job[r.job].op = r.op /\ job[r.job].topic = r.topic
      /\ r.topic \in Topics /\ r.job \in Queued(s)
  BY <1>1, Taken
<1>3. /\ r.op \in {"connect", "unsubData"} => params[r.topic]
      /\ r.op = "unsubAll" /\ members[r.topic] # {} => params[r.topic]
  BY <1>1, NoPanic DEF s
<1>4. /\ conn' = Disconnected(s, P) /\ dataRefs' = Unsubscribed(r.topic, P)
      /\ UNCHANGED <<job, members, linked>> /\ UNCHANGED refs
  <2>1. CASE DataUnsub(r)
    BY <2>1, <1>3 DEF DataUnsub, ModePanics, storeVars, jobVars
  <2>2. CASE DataUnsubAll(r)
    <3>1. r.op = "unsubAll" /\ P = (members[r.topic] \ {Me}) \cap Publishers
      BY <2>2 DEF DataUnsubAll, Uses
    <3>2. \A p \in P : conn["data"][p] # {}
      BY <3>1, <1>1, <1>2 DEF Sure, Uses
    <3>3. On("data", P) = P
      BY <3>2 DEF On
    <3>4. ~(P # {} /\ ModePanics(r.topic))
      BY <3>1, <1>3 DEF ModePanics
    <3> QED BY <2>2, <3>1, <3>3, <3>4 DEF DataUnsubAll, storeVars, jobVars
  <2> QED BY <2>1, <2>2
<1>5. \/ r.op = "unsubData" /\ s = "data" /\ P = {r.peer}
      \/ /\ r.op = "unsubAll"
         /\ P = {p \in members[r.topic] \ {Me} : Uses(s, p)}
  BY <1>1
<1> HIDE DEF s, P
<1>6. /\ P \subseteq Held(s, r.topic)
      /\ \A t \in Topics : Held(s, t)' = Held(s, t) \ P
      /\ \A t \in Topics \ {r.topic} : Held(s, t) \cap P = {}
  BY <1>1, <1>4, <1>5, ReleaseHeld
<1>7. \A u \in Sockets \ {s}, t \in Topics : Held(u, t)' = Held(u, t)
  BY <1>1, <1>4, TakenHeld
<1>8. Tied'
  BY <1>1, <1>4, <1>6, <1>7, ReleaseTied
<1>9. Counted'
  <2>1. /\ P \in SUBSET Held("data", r.topic)
        /\ \A t \in Topics : Held("data", t)' = Held("data", t) \ P
        /\ \A t \in Topics \ {r.topic} : Held("data", t) \cap P = {}
    BY <1>6 DEF s
  <2> QED BY <1>2, <1>4, <2>1, ReleaseCounted
<1>10. Filtered'
  <2>1. \A t \in Topics : Held("state", t)' = Held("state", t)
    BY <1>7 DEF s, Sockets
  <2> QED BY <2>1, <1>4 DEF Follows, Filtered
<1> QED BY <1>4, <1>8, <1>9, <1>10, ListenKnown

LEMMA DataConnectFollows ==
    ASSUME TypeInv, CallInv, AskInv, KeySet, Orderly, NoneFailed, Follows,
           queue["data"] # <<>>, NEW r, r = Head(queue["data"]), DataConnect(r)
    PROVE  Follows'
<1> DEFINE s == "data"
<1>1. /\ s \in Sockets /\ Receive(s) /\ r = Head(queue[s]) /\ queue[s] # <<>>
      /\ r.op = "connect"
  BY DEF DataConnect, Sockets
<1>2. r.topic \in Topics /\ r.peer \in Peers
  BY <1>1, Taken
<1>3. params[r.topic]
  BY <1>1, NoPanic DEF s
<1>4. UNCHANGED <<job, members, linked>> /\ UNCHANGED refs
  BY <1>3 DEF DataConnect, ModePanics, storeVars, jobVars
<1>5. CASE r.peer \notin Publishers
  <2> DEFINE counts == dataRefs[r.topic]
             l == DataTopic(r.topic, r.peer)
  <2>0. dataRefs \in [Topics -> [Labels -> Nat]] /\ counts \in [Labels -> Nat]
    BY <1>2 DEF TypeInv, TypeOK
  <2>3. /\ conn' = conn
        /\ dataRefs' = [dataRefs EXCEPT ![r.topic] = [@ EXCEPT ![l] = counts[l]]]
    BY <1>3, <1>5 DEF DataConnect, ModePanics
  <2>4. [counts EXCEPT ![l] = counts[l]] = counts
    BY <2>0
  <2>5. dataRefs' = dataRefs
    BY <2>0, <2>3, <2>4
  <2>1. UNCHANGED <<job, members, linked, conn, refs, dataRefs>>
    BY <1>4, <2>3, <2>5
  <2>2. ~Uses(s, r.peer)
    BY <1>5 DEF Uses
  <2> HIDE DEF s
  <2> QED BY <1>1, <2>1, <2>2, PassFollows
<1>6. CASE r.peer \in Publishers
  <2>1. /\ Uses(s, r.peer) /\ conn' = Connected(s, r.peer)
        /\ dataRefs' = [dataRefs EXCEPT ![r.topic][DataTopic(r.topic, r.peer)] = @ + 1]
    BY <1>3, <1>6 DEF DataConnect, ModePanics, Uses
  <2> HIDE DEF s
  <2>2. /\ r.peer \notin Held(s, r.topic)
        /\ Held(s, r.topic)' = Held(s, r.topic) \cup {r.peer}
        /\ \A u \in Sockets, t \in Topics :
               u # s \/ t # r.topic => Held(u, t)' = Held(u, t)
        /\ Tied'
    BY <1>1, <1>4, <2>1, ConnectHeld
  <2>3. Filtered'
    <3>1. \A t \in Topics : Held("state", t)' = Held("state", t)
      BY <2>2 DEF s, Sockets
    <3> QED BY <3>1, <1>4 DEF Follows, Filtered
  <2>4. Counted'
    <3> SUFFICES ASSUME NEW t \in Topics, NEW l \in Labels
                 PROVE  dataRefs'[t][l] =
                            Cardinality({p \in Held("data", t)' : DataTopic(t, p) = l})
      BY DEF Counted, DataTopic
    <3>1. dataRefs'[t][l] =
              IF t = r.topic /\ DataTopic(r.topic, r.peer) = l THEN dataRefs[t][l] + 1
              ELSE dataRefs[t][l]
      BY <1>2, <2>1 DEF TypeInv, TypeOK
    <3>2. dataRefs[t][l] = Cardinality({p \in Held("data", t) : DataTopic(t, p) = l})
      BY DEF Follows, Counted
    <3>3. CASE t = r.topic
      <4>1. PICK A \in SUBSET Peers : A = Held("data", t)
        BY DEF Held
      <4>2. r.peer \in Peers \ A /\ Held("data", t)' = A \cup {r.peer}
        BY <1>2, <2>2, <3>3, <4>1 DEF s
      <4>3. Cardinality(Served(A \cup {r.peer}, t, l)) =
                IF DataTopic(t, r.peer) = l THEN Cardinality(Served(A, t, l)) + 1
                ELSE Cardinality(Served(A, t, l))
        BY <4>2, CountAdd
      <4> QED BY <3>1, <3>2, <3>3, <4>1, <4>2, <4>3 DEF Served
    <3>4. CASE t # r.topic
      <4>1. Held("data", t)' = Held("data", t)
        BY <2>2, <3>4 DEF s, Sockets
      <4> QED BY <3>1, <3>2, <3>4, <4>1
    <3> QED BY <3>3, <3>4
  <2> QED BY <1>4, <2>2, <2>3, <2>4, ListenKnown
<1> QED BY <1>5, <1>6

LEMMA ListenFollows ==
    ASSUME TypeInv, CallInv, AskInv, KeySet, Orderly, NoneFailed, Sure, Follows,
           ListenState \/ ListenData
    PROVE  Follows'
<1>1. CASE ListenState
  <2>1. PICK r : r = Head(queue["state"])
    OBVIOUS
  <2>2. /\ queue["state"] # <<>>
        /\ StateAuth(r) \/ StateConnect(r) \/ StateDisconnect(r)
           \/ StateUnsubAll(r) \/ StatePass(r)
    BY <1>1, <2>1 DEF ListenState
  <2>3. CASE StateAuth(r) \/ StatePass(r)
    <3>1. PICK s \in Sockets : s = "state"
      BY DEF Sockets
    <3>2. /\ Receive(s) /\ queue[s] # <<>> /\ r = Head(queue[s])
          /\ UNCHANGED <<job, members, linked, conn, refs, dataRefs>>
          /\ r.op = "auth" \/ (s = "state" /\ r.op = "unsubData")
      BY <2>1, <2>2, <2>3, <3>1 DEF StateAuth, StatePass, storeVars, jobVars, socketVars
    <3> QED BY <3>2, PassFollows
  <2> QED BY <2>1, <2>2, <2>3, StateConnectFollows, StateReleaseFollows
<1>2. CASE ListenData
  <2>1. PICK r : r = Head(queue["data"])
    OBVIOUS
  <2>2. /\ queue["data"] # <<>>
        /\ DataAuth(r) \/ DataConnect(r) \/ DataPass(r) \/ DataUnsub(r)
           \/ DataUnsubAll(r)
    BY <1>2, <2>1 DEF ListenData
  <2>3. CASE DataAuth(r) \/ DataPass(r)
    <3>1. PICK s \in Sockets : s = "data"
      BY DEF Sockets
    <3>2. /\ Receive(s) /\ queue[s] # <<>> /\ r = Head(queue[s])
          /\ UNCHANGED <<job, members, linked, conn, refs, dataRefs>>
          /\ r.op = "auth" \/ (s = "data" /\ r.op = "disconnect")
      BY <2>1, <2>2, <2>3, <3>1 DEF DataAuth, DataPass, storeVars, jobVars, socketVars
    <3> QED BY <3>2, PassFollows
  <2> QED BY <2>1, <2>2, <2>3, DataConnectFollows, DataReleaseFollows
<1> QED BY <1>1, <1>2

LEMMA NextFollows ==
    TypeInv /\ CallInv /\ AskInv /\ KeyInv /\ OrderInv /\ SureInv /\ FollowInv
        /\ [Next]_vars => FollowInv'
<1> SUFFICES ASSUME TypeInv, CallInv, AskInv, KeyInv, OrderInv, SureInv, FollowInv,
                    [Next]_vars, Calm', NoHung'
             PROVE  Follows'
  BY DEF FollowInv
<1>1. Calm /\ NoHung
  BY CalmBefore, NextHung
<1>2. /\ KeySet /\ Orderly /\ NoneFailed /\ Sure /\ Follows /\ "publisher" \in open
  BY <1>1 DEF KeyInv, OrderInv, SureInv, FollowInv, Calm
<1>3. CASE UNCHANGED vars
  <2>1. UNCHANGED <<job, queue, members, linked, conn, refs, dataRefs>>
    BY <1>3 DEF vars, jobVars, storeVars, socketVars, loopVars
  <2> QED BY <1>2, <2>1, StutterFollows
<1>4. CASE Environment
  BY <1>2, <1>4, EnvironmentFollows
<1>5. CASE ListenState \/ ListenData
  BY <1>2, <1>5, ListenFollows
<1>6. ASSUME NEW j \in Jobs, Proceed(j) PROVE Follows'
  BY <1>2, <1>6, ProceedFollows
<1> QED BY <1>3, <1>4, <1>5, <1>6 DEF Next, Work

LEMMA InitFollows == Init => HungInv /\ SureInv /\ FollowInv
<1> SUFFICES ASSUME Init PROVE NoHung /\ NoneFailed /\ Sure /\ Follows
  BY DEF HungInv, SureInv, FollowInv
<1>1. \A j \in Jobs : ~Running(j) /\ job[j].pc = "free"
  BY DEF Init, NoJob, Running
<1>2. \A s \in Sockets : Queued(s) = {}
  BY DEF Init, Queued
<1>3. NoHung /\ NoneFailed /\ Sure
  BY <1>1, <1>2 DEF Init, NoHung, NoneFailed, Failed, Sure
<1>4. \A s \in Sockets, t \in Topics : Held(s, t) = {}
  BY <1>1 DEF Init, Held, Holds
<1>5. Tied /\ Filtered
  BY <1>4 DEF Init, Tied, Filtered, Sockets
<1>6. Counted
  <2> SUFFICES ASSUME NEW t \in Topics, NEW l \in Labels
               PROVE  dataRefs[t][l] =
                          Cardinality({p \in Held("data", t) : DataTopic(t, p) = l})
    BY DEF Counted
  <2>1. {p \in Held("data", t) : DataTopic(t, p) = l} = {}
    BY <1>4 DEF Sockets
  <2>2. dataRefs[t][l] = 0
    BY DEF Init
  <2> QED BY <2>1, <2>2, FS_EmptySet
<1>7. Known /\ AddedLinked
  BY <1>1 DEF Init, Known, AddedLinked
<1> QED BY <1>3, <1>5, <1>6, <1>7 DEF Follows

LEMMA FollowInvAlways ==
    Spec => [](TypeInv /\ CallInv /\ AskInv /\ KeyedInv /\ SureInv /\ FollowInv)
<1>1. /\ Init => TypeInv /\ CallInv /\ AskInv /\ KeyInv /\ KeysMatch /\ OrderInv
                     /\ KeyedInv /\ HungInv /\ SureInv /\ FollowInv
  BY InitTypeInv, InitCalls, InitAsks, InitKeys, InitOrder, InitKeyed, InitFollows
<1>2. TypeInv /\ CallInv /\ AskInv /\ KeyInv /\ KeysMatch /\ [Next]_vars
          => KeyInv' /\ KeysMatch'
  BY NextKeys
<1>3. TypeInv /\ AskInv /\ OrderInv /\ [Next]_vars => OrderInv'
  BY NextOrder
<1>4. TypeInv /\ [Next]_vars => (HungInv => HungInv')
  BY NextHung
<1> QED BY <1>1, <1>2, <1>3, <1>4, NextKeyed, NextSure, NextFollows, CallInvAlways,
           PTL DEF Spec

\* Requests fail, replies are abandoned (processor.go sendConnect and
\* sendSubscribe) and the process panics (group.go Mode) only after calls
\* overlapped, or a subscriber was not a member yet or not heard, in one of the
\* ways named, or the agent was closed.
THEOREM OnlyClashesFailAlways == Spec => []OnlyClashesFail
<1>1. SureInv => OnlyClashesFail
  BY DEF SureInv, Calm, NoneFailed, Failed, Abandoned, OnlyClashesFail
<1> QED BY <1>1, FollowInvAlways, PTL

\* When no call runs and nothing clashed, the SUB sockets are connected to the
\* linked peers and subscribed for each once, the state filter is set, and the
\* client keys of the peers are accepted (zmq.go, auth.go).
THEOREM SocketsFollowAlways == Spec => []SocketsFollow
<1>1. TypeInv /\ KeyedInv /\ FollowInv => SocketsFollow
  <2> SUFFICES ASSUME TypeInv, KeyedInv, FollowInv, Quiet, "publisher" \in open, seen = {}
               PROVE  /\ \A p \in Peers :
                          LET used == \E t \in Topics : p \in linked[t]
                          IN /\ conn["state"][p] # {} <=> used
                             /\ conn["data"][p] # {} <=> used /\ p \in Publishers
                             /\ used => p \in keys
                      /\ \A t \in Topics :
                          /\ linked[t] # {} => refs[t] > 0
                          /\ \A l \in Labels :
                              dataRefs[t][l] =
                                  Cardinality({p \in linked[t] \cap Publishers :
                                                   DataTopic(t, p) = l})
    BY DEF SocketsFollow
  <2>1. Follows /\ Keyed /\ \A j \in Jobs : ~Running(j)
    BY DEF KeyedInv, FollowInv, Calm, NoHung, Quiet
  <2>2. \A t \in Topics : linked[t] \subseteq Peers
    BY DEF TypeInv, TypeOK
  <2>3. \A s \in Sockets, t \in Topics :
            Held(s, t) = {p \in linked[t] : Uses(s, p)}
    BY <2>1, <2>2 DEF Held, Leaves, Holds
  <2>4. ASSUME NEW p \in Peers
        PROVE  LET used == \E t \in Topics : p \in linked[t]
               IN /\ conn["state"][p] # {} <=> used
                  /\ conn["data"][p] # {} <=> used /\ p \in Publishers
                  /\ used => p \in keys
    <3>1. \A s \in Sockets : conn[s][p] # {} <=>
              \E t \in Topics : p \in linked[t] /\ Uses(s, p)
      BY <2>1, <2>3 DEF Follows, Tied
    <3> QED BY <2>1, <3>1 DEF Keyed, Sockets, Uses
  <2>5. ASSUME NEW t \in Topics, linked[t] # {} PROVE refs[t] > 0
    <3>1. Held("state", t) = linked[t]
      BY <2>3 DEF Sockets, Uses
    <3> QED BY <2>1, <2>5, <3>1 DEF Follows, Filtered
  <2>6. ASSUME NEW t \in Topics, NEW l \in Labels
        PROVE  dataRefs[t][l] =
                   Cardinality({p \in linked[t] \cap Publishers : DataTopic(t, p) = l})
    <3>1. Held("data", t) = linked[t] \cap Publishers
      BY <2>3 DEF Sockets, Uses
    <3> QED BY <2>1, <3>1 DEF Follows, Counted
  <2> QED BY <2>4, <2>5, <2>6
<1> QED BY <1>1, FollowInvAlways, PTL

=============================================================================
