-------------------------------- MODULE Syncer --------------------------------
(***************************************************************************)
(* The ordering layer of group messages, pubsub/syncer.go: one Lamport     *)
(* timestamp per topic, taken from the wall clock when a group is created  *)
(* or joined, stamped on each message and moved forward by each message    *)
(* handled; with the calls of pubsub/agent.go and pubsub/processor.go that *)
(* use it.                                                                 *)
(*                                                                         *)
(* Abstractions.  One topic, with one group at a time: a group is created  *)
(* when nobody is in one.  Time is in seconds, the unit of Unix(), and     *)
(* each host has a clock of its own.  Packing and publishing work; what    *)
(* PUB drops is a message never handled.  Texts are no JSON objects.  Each *)
(* function of syncer.go holds its lock throughout, and is one step.       *)
(***************************************************************************)
EXTENDS Naturals

CONSTANTS
    Agents,
    Ids,        \* what newSyncer draws: nothing makes the draws distinct
    Orders,     \* values of OrderEnabled groups are created with
    MaxTime,    \* bound: the clocks stop at it
    MaxCalls,   \* bound: Create and Join calls of an agent
    MaxSends    \* bound: messages of an agent

ASSUME ConstantsAssumption ==
    /\ Orders \subseteq BOOLEAN
    /\ MaxTime \in Nat
    /\ MaxCalls \in Nat
    /\ MaxSends \in Nat

VARIABLES
    clock,   \* the host's Unix time
    id,      \* syncer.id
    ts,      \* syncer.tsMap of the topic; lamp = 0 when it has no entry
    params,  \* Group.groups: OrderEnabled of the group the agent is in
    calls, sends,   \* how many calls the user has made
    sent,    \* history: messages sent
    flight,  \* messages published and not handled yet
    past,    \* history: greatest timestamp the agent sent or handled as member
    shown    \* history: how messages of either kind were handed to the user

vars == <<clock, id, ts, params, calls, sends, sent, flight, past, shown>>

-----------------------------------------------------------------------------

Ts == [sid : Ids, lamp : Nat]

Message == [by : Agents, n : Nat, ordered : BOOLEAN,
            wrapped : BOOLEAN,   \* a groupMsg, or the text itself
            ts : Ts,
            past : Nat,          \* history: past of the sender
            at : Nat]            \* history: clock of the sender

TypeOK ==
    /\ clock \in [Agents -> Nat]
    /\ id \in [Agents -> Ids]
    /\ ts \in [Agents -> Ts]
    /\ params \in [Agents -> {"none", "plain", "ordered"}]
    /\ calls \in [Agents -> Nat]
    /\ sends \in [Agents -> Nat]
    /\ sent \subseteq Message
    /\ flight \subseteq [to : Agents, msg : Message]
    /\ past \in [Agents -> Nat]
    /\ shown \subseteq [ordered : BOOLEAN, how : {"text", "raw", "dropped"}]

Init ==
    /\ clock \in [Agents -> 1..2]
    /\ id \in [Agents -> Ids]
    /\ ts = [a \in Agents |-> [sid |-> id[a], lamp |-> 0]]
    /\ params = [a \in Agents |-> "none"]
    /\ calls = [a \in Agents |-> 0]
    /\ sends = [a \in Agents |-> 0]
    /\ sent = {} /\ flight = {}
    /\ past = [a \in Agents |-> 0]
    /\ shown = {}

Ordered(a) == ts[a].lamp > 0
Later(m, n) == IF m < n THEN n ELSE m

-----------------------------------------------------------------------------

Tick(a) ==
    /\ clock[a] < MaxTime
    /\ clock' = [clock EXCEPT ![a] = @ + 1]
    /\ UNCHANGED <<id, ts, params, calls, sends, sent, flight, past, shown>>

\* syncer.init, called by Create and Join only when the group is ordered.
Enter(a, p) ==
    /\ calls[a] < MaxCalls /\ params[a] = "none"
    /\ calls' = [calls EXCEPT ![a] = @ + 1]
    /\ params' = [params EXCEPT ![a] = p]
    /\ ts' = IF p = "ordered"
             THEN [ts EXCEPT ![a] = [sid |-> id[a], lamp |-> clock[a]]]
             ELSE ts
    /\ past' = [past EXCEPT ![a] = 0]
    /\ UNCHANGED <<clock, id, sends, sent, flight, shown>>

\* agent.go Create.
Create(a) ==
    /\ \A b \in Agents : params[b] = "none"
    /\ \E o \in Orders : Enter(a, IF o THEN "ordered" ELSE "plain")

\* Mutant: the timestamp is not initialised.
Join_NoInit(a) ==
    \E b \in Agents :
        /\ params[b] # "none" /\ params[a] = "none" /\ calls[a] < MaxCalls
        /\ calls' = [calls EXCEPT ![a] = @ + 1]
        /\ params' = [params EXCEPT ![a] = params[b]]
        /\ past' = [past EXCEPT ![a] = 0]
        /\ UNCHANGED <<clock, id, ts, sends, sent, flight, shown>>

\* agent.go Join, with the params of the acceptor's group.
Join(a) ==
    \E b \in Agents : params[b] # "none" /\ Enter(a, params[b])

\* agent.go Leave deletes the topic from the stores and leaves tsMap alone.
Leave(a) ==
    /\ params[a] # "none"
    /\ params' = [params EXCEPT ![a] = "none"]
    /\ UNCHANGED <<clock, id, ts, calls, sends, sent, flight, past, shown>>

\* Mutant: the stored timestamp does not count.
NextLamp_Clock(a) == clock[a]

\* syncer.message: the clock, unless the timestamp is ahead of it.
NextLamp(a) == IF clock[a] < ts[a].lamp THEN ts[a].lamp + 1 ELSE clock[a]

\* agent.go Send: the message is stamped if tsMap has an entry, and published
\* for each other member.
Send(a) ==
    LET stamp == IF Ordered(a) THEN [ts[a] EXCEPT !.lamp = NextLamp(a)]
                 ELSE ts[a]
        msg == [by |-> a, n |-> sends[a], ordered |-> params[a] = "ordered",
                wrapped |-> Ordered(a), ts |-> stamp, past |-> past[a],
                at |-> clock[a]]
    IN
    /\ params[a] # "none" /\ sends[a] < MaxSends
    /\ sends' = [sends EXCEPT ![a] = @ + 1]
    /\ ts' = [ts EXCEPT ![a] = stamp]
    /\ sent' = sent \cup {msg}
    /\ flight' = flight \cup
         {[to |-> b, msg |-> msg] : b \in {c \in Agents \ {a} : params[c] # "none"}}
    /\ past' = [past EXCEPT ![a] = Later(@, stamp.lamp)]
    /\ UNCHANGED <<clock, id, params, calls, shown>>

\* Mutant: the sender's id is left out.
Merge_NoSender(own, other) ==
    [sid |-> 0, lamp |-> Later(own.lamp, other.lamp)]

\* syncer.parse: a timestamp that is not behind is taken over, sender and all.
Merge(own, other) == IF own.lamp <= other.lamp THEN other ELSE own

\* processor.go data, run by a goroutine for each message.
Handle(f) ==
    LET a == f.to  m == f.msg
        Show(how) == shown' = shown \cup {[ordered |-> m.ordered, how |-> how]}
    IN
    /\ flight' = flight \ {f}
    /\ \/ /\ Ordered(a) /\ m.wrapped
          /\ ts' = [ts EXCEPT ![a] = Merge(@, m.ts)]
          /\ past' = [past EXCEPT ![a] = Later(@, m.ts.lamp)]
          /\ Show("text")
       \/ /\ Ordered(a) /\ ~m.wrapped          \* json.Unmarshal fails
          /\ Show("dropped")
          /\ UNCHANGED <<ts, past>>
       \/ /\ ~Ordered(a)
          /\ Show(IF m.wrapped THEN "raw" ELSE "text")
          /\ UNCHANGED <<ts, past>>
    /\ UNCHANGED <<clock, id, params, calls, sends, sent>>

Next ==
    \/ \E a \in Agents : Tick(a) \/ Create(a) \/ Join(a) \/ Leave(a) \/ Send(a)
    \/ \E f \in flight : Handle(f)

Spec == Init /\ [][Next]_vars

-----------------------------------------------------------------------------

\* A message sent after the sender has sent or handled others never sorts
\* before them, and sorts with them only if it is sent in the second their
\* timestamp names: through any hosts' clocks and any order of handling.
CausalUpToSecond ==
    \A m \in sent : m.wrapped =>
        m.past < m.ts.lamp \/ (m.past = m.ts.lamp /\ m.at = m.ts.lamp)

\* A message sent in an ordered group reaches the user as the sender's text,
\* whoever handles it, member still or again, or of a later group, or no longer.
\* Not so of other groups: the timestamp an agent keeps from an ordered one
\* wraps its messages, or drops those it handles.
Intact == \A s \in shown : s.ordered => s.how = "text"

\* Messages of equal timestamps can be sorted by sender id, as the comment on
\* ts says, if newSyncer has drawn different ids.  Not so: the id is taken over
\* with a timestamp, and then stands for two senders; see the run
\* syncer_sortable.
Sortable ==
    (\A a, b \in Agents : id[a] = id[b] => a = b) =>
        \A m, k \in sent : m.wrapped /\ k.wrapped /\ m.ts = k.ts => m.by = k.by

=============================================================================
