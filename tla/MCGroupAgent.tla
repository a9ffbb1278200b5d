---------------------------- MODULE MCGroupAgent ----------------------------
(* Instances of GroupAgent for TLC: up to four agents, a1 the founder. *)
EXTENDS GroupAgent
CONSTANTS a1, a2, a3, a4

\* A state that GroupAgent reaches: a1 has created a consistent group, a2 has
\* joined it, both are publishers and all is settled.  A later joiner of it
\* receives a group of two and verifies one checksum against the other.
Pair == {a1, a2}
TwoMembers ==
    /\ joined = [a \in Agents |-> a \in Pair]
    /\ params = [a \in Agents |-> IF a \in Pair THEN "consistent" ELSE "none"]
    /\ view = [a \in Agents |-> [b \in Agents |->
                   IF {a, b} \subseteq Pair THEN 1 ELSE 0]]
    /\ subs = [a \in Agents |-> IF a \in Pair THEN Pair \ {a} ELSE {}]
    /\ pc = [a \in Agents |-> "idle"]
    /\ calls = [a \in Agents |-> IF a \in Pair THEN 1 ELSE 0]
    /\ leaves = [a \in Agents |-> 0]
    /\ acceptor = [a \in Agents |-> a]
    /\ group = [a \in Agents |-> NoGroup]
    /\ todo = [a \in Agents |-> {}]
    /\ sums = [a \in Agents |-> {}]
    /\ server = [a \in Agents |-> Free]
    /\ conning = [a \in Agents |-> {}]
    /\ adding = [a \in Agents |-> {}]
    /\ link = [a \in Agents |-> [b \in Agents |->
                   IF {a, b} = Pair THEN "live" ELSE "none"]]
    /\ refs = [a \in Agents |-> IF a \in Pair THEN 1 ELSE 0]
    /\ inbox = [a \in Agents |-> {}]
    /\ acked = [a \in Agents |-> IF a = a2 THEN {a1} ELSE {}]
    /\ wedged = [a \in Agents |-> FALSE]
    /\ up = [a \in Agents |-> TRUE]
    /\ entered = {<<a1, 1>>, <<a2, 1>>}

\* Some of GroupAgent's behaviours, enough to refute a property: a subscriber
\* is connected to and stored, and a connection completes, before anything else.
AtOnce ==
    \A a, b \in Agents :
        /\ conning[a] \cup adding[a] # {} =>
               <<conning, adding>>' # <<conning, adding>>
        /\ link[a][b] = "pending" /\ refs[a] > 0 =>
               \/ link' # link
               \/ <<conning, adding>>' # <<conning, adding>>

PairSpec == TwoMembers /\ [][Next /\ AtOnce]_vars
=============================================================================
