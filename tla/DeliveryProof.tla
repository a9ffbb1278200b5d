--------------------------- MODULE DeliveryProof ---------------------------
(***************************************************************************)
(* Theorems about Delivery for any subscribers and any number of messages, *)
(* writes to the store and callbacks.                                      *)
(***************************************************************************)
EXTENDS Delivery, SequenceTheorems, FiniteSetTheorems, TLAPS

-----------------------------------------------------------------------------
(* Sends and the store. *)

\* Send v is as it should be when the store holds the subscribers ss and has
\* been written n times: an entry it reaches again has been deleted meanwhile.
SendOK(v, ss, n) ==
    /\ \A s \in Subs : v.sent[s] <= n + (IF s \in v.done THEN 1 ELSE 0)
    /\ \A s \in Subs : v.sent[s] > 0 => s \in v.some /\ s \in v.done \cup v.again
    /\ \A s \in Subs : v.sent[s] > 1 => s \in v.again
    /\ \A s \in v.all : s \in v.due \/ v.sent[s] > 0
    /\ v.pc = "returned" => v.due = {}
    /\ v.pc = "iterating" => (IF v.live THEN ss ELSE v.held) \subseteq v.some

SendInv ==
    /\ subs = subscribed
    /\ \A j \in Sends : send[j] \in Send => SendOK(send[j], subs, changes)

\* The history that a Send keeps is what the property is about.
LEMMA SendInvComplete == TypeOK /\ SendInv => SendComplete
<1> SUFFICES ASSUME TypeOK, SendInv, NEW j \in Sends, send[j].pc # "none"
             PROVE  /\ send[j].pc = "returned" =>
                           \A s \in send[j].all : send[j].sent[s] > 0
                    /\ \A s \in Subs :
                         /\ send[j].sent[s] > 0 => s \in send[j].some
                         /\ send[j].sent[s] > 1 => s \in send[j].again
  BY DEF SendComplete
<1>1. send[j] \in Send
  BY DEF TypeOK, NoSend
<1>2. SendOK(send[j], subs, changes)
  BY <1>1 DEF SendInv
<1> QED BY <1>1, <1>2 DEF SendOK

\* The writes to the store, for one Send.
LEMMA AddSend ==
    ASSUME NEW v \in Send, NEW ss \in SUBSET Subs, NEW n \in Nat, NEW s \in Subs,
           SendOK(v, ss, n)
    PROVE  LET w == IF v.pc = "iterating" THEN [v EXCEPT !.some = @ \cup {s}] ELSE v
           IN  w \in Send /\ SendOK(w, ss \cup {s}, n + 1)
<1>1. CASE v.pc = "iterating"
  <2> DEFINE w == [v EXCEPT !.some = @ \cup {s}]
  <2>1. /\ w \in Send /\ w.pc = v.pc /\ w.live = v.live /\ w.held = v.held
        /\ w.done = v.done /\ w.due = v.due /\ w.sent = v.sent /\ w.all = v.all
        /\ w.some = v.some \cup {s} /\ w.again = v.again
    BY DEF Send
  <2> HIDE DEF w
  <2>2. \A u \in Subs : v.sent[u] \in Nat
    BY DEF Send
  <2>3. SendOK(w, ss \cup {s}, n + 1)
    BY <2>1, <2>2 DEF SendOK
  <2> QED BY <1>1, <2>1, <2>3 DEF w
<1>2. CASE v.pc # "iterating"
  <2>1. \A u \in Subs : v.sent[u] \in Nat
    BY DEF Send
  <2>2. SendOK(v, ss \cup {s}, n + 1)
    BY <1>2, <2>1 DEF SendOK
  <2> QED BY <1>2, <2>2
<1> QED BY <1>1, <1>2

LEMMA DeleteSend ==
    ASSUME NEW v \in Send, NEW ss \in SUBSET Subs, NEW n \in Nat, NEW s \in Subs,
           SendOK(v, ss, n)
    PROVE  LET w == IF v.pc = "iterating" /\ v.live
                    THEN [v EXCEPT !.due = @ \ {s}, !.all = @ \ {s},
                                   !.again = @ \cup ({s} \cap v.done),
                                   !.done = @ \ {s}]
                    ELSE v
           IN  w \in Send /\ SendOK(w, ss \ {s}, n + 1)
<1>1. \A u \in Subs : v.sent[u] \in Nat
  BY DEF Send
<1>2. CASE v.pc = "iterating" /\ v.live
  <2> DEFINE w == [v EXCEPT !.due = @ \ {s}, !.all = @ \ {s},
                            !.again = @ \cup ({s} \cap v.done), !.done = @ \ {s}]
  <2>1. /\ w \in Send /\ w.pc = v.pc /\ w.live = v.live /\ w.held = v.held
        /\ w.done = v.done \ {s} /\ w.due = v.due \ {s} /\ w.sent = v.sent
        /\ w.all = v.all \ {s} /\ w.some = v.some
        /\ w.again = v.again \cup ({s} \cap v.done)
    BY DEF Send
  <2> HIDE DEF w
  <2>2. SendOK(w, ss \ {s}, n + 1)
    BY <1>1, <2>1 DEF SendOK
  <2> QED BY <1>2, <2>1, <2>2 DEF w
<1>3. CASE ~(v.pc = "iterating" /\ v.live)
  <2>1. SendOK(v, ss \ {s}, n + 1)
    BY <1>1, <1>3 DEF SendOK
  <2> QED BY <1>3, <2>1
<1> QED BY <1>2, <1>3

LEMMA DropSend ==
    ASSUME NEW v \in Send, NEW ss \in SUBSET Subs, NEW n \in Nat, SendOK(v, ss, n)
    PROVE  LET w == IF v.pc = "iterating" /\ v.live
                    THEN [v EXCEPT !.live = FALSE, !.held = ss] ELSE v
           IN  w \in Send /\ SendOK(w, {}, n + 1)
<1>1. \A u \in Subs : v.sent[u] \in Nat
  BY DEF Send
<1>2. CASE v.pc = "iterating" /\ v.live
  <2> DEFINE w == [v EXCEPT !.live = FALSE, !.held = ss]
  <2>1. /\ w \in Send /\ w.pc = v.pc /\ w.live = FALSE /\ w.held = ss
        /\ w.done = v.done /\ w.due = v.due /\ w.sent = v.sent
        /\ w.all = v.all /\ w.some = v.some /\ w.again = v.again
    BY DEF Send
  <2> HIDE DEF w
  <2>2. SendOK(w, {}, n + 1)
    BY <1>1, <1>2, <2>1 DEF SendOK
  <2> QED BY <1>2, <2>1, <2>2 DEF w
<1>3. CASE ~(v.pc = "iterating" /\ v.live)
  <2>1. SendOK(v, {}, n + 1)
    BY <1>1, <1>3 DEF SendOK
  <2> QED BY <1>3, <2>1
<1> QED BY <1>2, <1>3

\* The iteration reaches an entry, or ends.
LEMMA PublishSend ==
    ASSUME NEW v \in Send, NEW ss \in SUBSET Subs, NEW n \in 0..MaxChanges,
           NEW s \in Subs, SendOK(v, ss, n), v.pc = "iterating",
           s \in (IF v.live THEN ss ELSE v.held) \ v.done
    PROVE  LET w == [v EXCEPT !.done = @ \cup {s}, !.due = @ \ {s}, !.sent[s] = @ + 1]
           IN  w \in Send /\ SendOK(w, ss, n) /\ v.sent[s] + 1 \in 1..(MaxChanges + 1)
<1> DEFINE w == [v EXCEPT !.done = @ \cup {s}, !.due = @ \ {s}, !.sent[s] = @ + 1]
<1>0. MaxChanges \in Nat
  BY ConstantsAssumption
<1>1. \A u \in Subs : v.sent[u] \in Nat
  BY DEF Send
<1>2. v.sent[s] <= n
  BY DEF SendOK
<1>3. v.sent[s] + 1 \in 0..(MaxChanges + 1) /\ v.sent[s] + 1 \in 1..(MaxChanges + 1)
  BY <1>0, <1>1, <1>2
<1>4. /\ w.pc = v.pc /\ w.live = v.live /\ w.held = v.held
      /\ w.done = v.done \cup {s} /\ w.due = v.due \ {s}
      /\ w.sent = [v.sent EXCEPT ![s] = v.sent[s] + 1]
      /\ w.all = v.all /\ w.some = v.some /\ w.again = v.again
  BY DEF Send
<1>5. w.sent \in [Subs -> 0..(MaxChanges + 1)]
  BY <1>3, <1>4 DEF Send
<1>6. w \in Send
  BY <1>4, <1>5 DEF Send
<1> HIDE DEF w
<1>7. /\ v.sent \in [Subs -> 0..(MaxChanges + 1)] /\ v.all \in SUBSET Subs
      /\ w.sent[s] = v.sent[s] + 1
      /\ \A u \in Subs : u # s => w.sent[u] = v.sent[u]
  BY <1>4 DEF Send
<1>8. SendOK(w, ss, n)
  BY <1>1, <1>2, <1>4, <1>7 DEF SendOK
<1> QED BY <1>3, <1>6, <1>8 DEF w

LEMMA EndOneSend ==
    ASSUME NEW v \in Send, NEW ss \in SUBSET Subs, NEW n \in Nat, SendOK(v, ss, n),
           v.due = {}
    PROVE  LET w == [v EXCEPT !.pc = "returned"]
           IN  w \in Send /\ SendOK(w, ss, n)
<1> DEFINE w == [v EXCEPT !.pc = "returned"]
<1>1. /\ w \in Send /\ w.pc = "returned" /\ w.live = v.live /\ w.held = v.held
      /\ w.done = v.done /\ w.due = v.due /\ w.sent = v.sent
      /\ w.all = v.all /\ w.some = v.some /\ w.again = v.again
  BY DEF Send
<1> HIDE DEF w
<1>2. SendOK(w, ss, n)
  BY <1>1 DEF SendOK
<1> QED BY <1>1, <1>2 DEF w

LEMMA NewSend ==
    ASSUME NEW ss \in SUBSET Subs, NEW n \in Nat, NEW c \in BOOLEAN
    PROVE  LET w == [pc |-> "iterating", counted |-> c, live |-> TRUE, held |-> {},
                     done |-> {}, due |-> ss, sent |-> [s \in Subs |-> 0],
                     all |-> ss, some |-> ss, again |-> {}]
           IN  w \in Send /\ SendOK(w, ss, n)
<1>1. MaxChanges \in Nat
  BY ConstantsAssumption
<1> QED BY <1>1 DEF Send, SendOK

\* The publisher's half of the state.
PublisherInv ==
    /\ member \in BOOLEAN /\ topicThere \in BOOLEAN
    /\ subs \subseteq Subs /\ subscribed \subseteq Subs
    /\ send \in [Sends -> Send \cup {NoSend}]
    /\ changes \in 0..MaxChanges
    /\ SendInv

LEMMA NoSendApart == NoSend \notin Send /\ NoSend.pc = "none"
BY DEF NoSend, Send

\* A write to the store updates each Send on its own.
LEMMA WriteSends ==
    ASSUME PublisherInv, NEW ss \in SUBSET Subs, Write, subs' = ss, subscribed' = ss,
           NEW next, send' = [j \in Sends |-> next[j]],
           \A j \in Sends : send[j] = NoSend => next[j] = NoSend,
           \A j \in Sends : send[j] \in Send /\ SendOK(send[j], subs, changes) =>
               next[j] \in Send /\ SendOK(next[j], ss, changes + 1)
    PROVE  /\ subs' \subseteq Subs /\ subscribed' \subseteq Subs
           /\ send' \in [Sends -> Send \cup {NoSend}]
           /\ changes' \in 0..MaxChanges
           /\ SendInv'
<1>1. changes' = changes + 1 /\ changes' \in 0..MaxChanges
  BY ConstantsAssumption DEF Write, PublisherInv
<1>2. ASSUME NEW j \in Sends
      PROVE  /\ send'[j] \in Send \cup {NoSend}
             /\ send'[j] \in Send => SendOK(send'[j], ss, changes + 1)
  <2>1. send'[j] = next[j]
    OBVIOUS
  <2>2. CASE send[j] \in Send
    BY <2>1, <2>2 DEF PublisherInv, SendInv
  <2>3. CASE send[j] = NoSend
    BY <2>1, <2>3, NoSendApart
  <2> QED BY <2>2, <2>3 DEF PublisherInv
<1>3. send' \in [Sends -> Send \cup {NoSend}]
  BY <1>2
<1>4. SendInv'
  BY <1>1, <1>2 DEF SendInv
<1> QED BY <1>1, <1>3, <1>4

\* One Send changes and the store does not.
LEMMA OneSend ==
    ASSUME PublisherInv, NEW j \in Sends, NEW w \in Send,
           send' = [send EXCEPT ![j] = w], SendOK(w, subs, changes),
           UNCHANGED <<member, topicThere, subs, changes, subscribed>>
    PROVE  PublisherInv'
BY DEF PublisherInv, SendInv

LEMMA PublisherSteps ==
    ASSUME PublisherInv, [Next]_vars
    PROVE  PublisherInv'
<1>0. changes \in Nat /\ subs \in SUBSET Subs /\ subs = subscribed
  BY ConstantsAssumption DEF PublisherInv, SendInv
<1>1. ASSUME NEW s \in Subs, AddSub(s) PROVE PublisherInv'
  <2> DEFINE W(v) == IF v.pc = "iterating" THEN [v EXCEPT !.some = @ \cup {s}] ELSE v
  <2>1. send' = [j \in Sends |-> W(send[j])] /\ W(NoSend) = NoSend
    BY <1>1, NoSendApart DEF AddSub, Iterating
  <2>2. \A v \in Send : SendOK(v, subs, changes) =>
            W(v) \in Send /\ SendOK(W(v), subs \cup {s}, changes + 1)
    BY <1>0, AddSend
  <2> DEFINE next == [j \in Sends |-> W(send[j])]
  <2> HIDE DEF W
  <2>3. /\ send' = [j \in Sends |-> next[j]]
        /\ \A j \in Sends : next[j] = W(send[j])
    BY <2>1
  <2> HIDE DEF next
  <2>4. /\ \A j \in Sends : send[j] = NoSend => next[j] = NoSend
        /\ \A j \in Sends : send[j] \in Send /\ SendOK(send[j], subs, changes) =>
              next[j] \in Send /\ SendOK(next[j], subs \cup {s}, changes + 1)
    BY <2>1, <2>2, <2>3
  <2>5. /\ subs' \subseteq Subs /\ subscribed' \subseteq Subs
        /\ send' \in [Sends -> Send \cup {NoSend}]
        /\ changes' \in 0..MaxChanges
        /\ SendInv'
    BY <1>0, <1>1, <2>3, <2>4, WriteSends DEF AddSub
  <2> QED BY <1>1, <2>5 DEF AddSub, PublisherInv
<1>2. ASSUME NEW s \in Subs, DeleteSub(s) PROVE PublisherInv'
  <2> DEFINE W(v) == IF v.pc = "iterating" /\ v.live
                     THEN [v EXCEPT !.due = @ \ {s}, !.all = @ \ {s},
                                    !.again = @ \cup ({s} \cap v.done),
                                    !.done = @ \ {s}]
                     ELSE v
  <2>1. send' = [j \in Sends |-> W(send[j])] /\ W(NoSend) = NoSend
    BY <1>2, NoSendApart DEF DeleteSub, OnStore, Iterating
  <2>2. \A v \in Send : SendOK(v, subs, changes) =>
            W(v) \in Send /\ SendOK(W(v), subs \ {s}, changes + 1)
    BY <1>0, DeleteSend
  <2> DEFINE next == [j \in Sends |-> W(send[j])]
  <2> HIDE DEF W
  <2>3. /\ send' = [j \in Sends |-> next[j]]
        /\ \A j \in Sends : next[j] = W(send[j])
    BY <2>1
  <2> HIDE DEF next
  <2>4. /\ \A j \in Sends : send[j] = NoSend => next[j] = NoSend
        /\ \A j \in Sends : send[j] \in Send /\ SendOK(send[j], subs, changes) =>
              next[j] \in Send /\ SendOK(next[j], subs \ {s}, changes + 1)
    BY <2>1, <2>2, <2>3
  <2>5. /\ subs' \subseteq Subs /\ subscribed' \subseteq Subs
        /\ send' \in [Sends -> Send \cup {NoSend}]
        /\ changes' \in 0..MaxChanges
        /\ SendInv'
    BY <1>0, <1>2, <2>3, <2>4, WriteSends DEF DeleteSub
  <2> QED BY <1>2, <2>5 DEF DeleteSub, PublisherInv
<1>3. ASSUME DeleteTopic PROVE PublisherInv'
  <2> DEFINE W(v) == IF v.pc = "iterating" /\ v.live
                     THEN [v EXCEPT !.live = FALSE, !.held = subs] ELSE v
  <2>1. send' = [j \in Sends |-> W(send[j])] /\ W(NoSend) = NoSend
    BY <1>3, NoSendApart DEF DeleteTopic, OnStore, Iterating
  <2>2. \A v \in Send : SendOK(v, subs, changes) =>
            W(v) \in Send /\ SendOK(W(v), {}, changes + 1)
    BY <1>0, DropSend
  <2> DEFINE next == [j \in Sends |-> W(send[j])]
  <2> HIDE DEF W
  <2>3. /\ send' = [j \in Sends |-> next[j]]
        /\ \A j \in Sends : next[j] = W(send[j])
    BY <2>1
  <2> HIDE DEF next
  <2>4. /\ \A j \in Sends : send[j] = NoSend => next[j] = NoSend
        /\ \A j \in Sends : send[j] \in Send /\ SendOK(send[j], subs, changes) =>
              next[j] \in Send /\ SendOK(next[j], {}, changes + 1)
    BY <2>1, <2>2, <2>3
  <2>5. /\ subs' \subseteq Subs /\ subscribed' \subseteq Subs
        /\ send' \in [Sends -> Send \cup {NoSend}]
        /\ changes' \in 0..MaxChanges
        /\ SendInv'
    BY <1>0, <1>3, <2>3, <2>4, WriteSends DEF DeleteTopic
  <2> QED BY <1>3, <2>5 DEF DeleteTopic, PublisherInv
<1>4. ASSUME NEW j \in Sends, NEW c \in BOOLEAN, StartSend(j, c) PROVE PublisherInv'
  BY <1>0, <1>4, NewSend, OneSend DEF StartSend
<1>5. ASSUME NEW j \in Sends, NEW s \in Subs, Publish(j, s) PROVE PublisherInv'
  <2> DEFINE w == [send[j] EXCEPT !.done = @ \cup {s}, !.due = @ \ {s},
                                  !.sent[s] = @ + 1]
  <2>1. send[j] \in Send /\ SendOK(send[j], subs, changes)
    BY <1>5 DEF Publish, Iterating, PublisherInv, SendInv, NoSend
  <2>2. w \in Send /\ SendOK(w, subs, changes)
    BY <1>0, <1>5, <2>1, PublishSend DEF Publish, Iterating, Entries, PublisherInv
  <2>3. send' = [send EXCEPT ![j] = w]
    BY <1>5 DEF Publish, PublisherInv
  <2> HIDE DEF w
  <2> QED BY <1>5, <2>2, <2>3, OneSend DEF Publish
<1>6. ASSUME NEW j \in Sends, EndSend(j) PROVE PublisherInv'
  <2> DEFINE w == [send[j] EXCEPT !.pc = "returned"]
  <2>1. send[j] \in Send /\ SendOK(send[j], subs, changes)
    BY <1>6 DEF EndSend, Iterating, PublisherInv, SendInv, NoSend
  <2>2. w \in Send /\ SendOK(w, subs, changes)
    BY <1>0, <1>6, <2>1, EndOneSend DEF EndSend
  <2>3. send' = [send EXCEPT ![j] = w]
    BY <1>6 DEF EndSend, PublisherInv
  <2> HIDE DEF w
  <2> QED BY <1>6, <2>2, <2>3, OneSend DEF EndSend
<1>7. CASE UNCHANGED publisherVars
  BY <1>7 DEF publisherVars, PublisherInv, SendInv
<1> QED BY <1>1, <1>2, <1>3, <1>4, <1>5, <1>6, <1>7 DEF Next, Work, vars,
        Register, Check, Lookup, Hear, Show, TimeOut, Finish

-----------------------------------------------------------------------------
(* Callbacks.                                                               *)

\* A callback waits below its target; a first report made by the timer was
\* below it too; and the one that ends it reports the target.
RegOK(v) ==
    /\ v.pc = "waiting" =>
         /\ v.count < v.target
         /\ Len(v.calls) = (IF v.fired THEN 1 ELSE 0)
    /\ v.pc = "reporting" =>
         /\ v.count = v.target
         /\ Len(v.calls) = (IF v.fired THEN 1 ELSE 0)
    /\ v.pc = "done" =>
         /\ Len(v.calls) = (IF v.fired THEN 2 ELSE 1)
         /\ v.calls[Len(v.calls)] = v.target
    /\ v.fired => v.calls[1] < v.target

RegInv == \A r \in Regs : reg[r] \in Reg => RegOK(reg[r])

SubscriberInv ==
    /\ copy \in [Copies -> Copy \cup {NoCopy}]
    /\ ackChan \in {0} \cup Regs
    /\ reg \in [Regs -> Reg \cup {NoReg}]
    /\ up \subseteq {"publisher", "subscriber"}
    /\ shown \in [Regs -> Nat]
    /\ RegInv

LEMMA RegInvReports == SubscriberInv => SecondOnlyAfterTimeout
<1> SUFFICES ASSUME SubscriberInv, NEW r \in Regs, reg[r].pc # "none"
             PROVE  /\ Len(reg[r].calls) <= 2
                    /\ Len(reg[r].calls) = 2 =>
                           /\ reg[r].fired
                           /\ reg[r].calls[1] < reg[r].target
                           /\ reg[r].calls[2] = reg[r].target
  BY DEF SecondOnlyAfterTimeout
<1>1. reg[r] \in Reg
  BY DEF SubscriberInv, NoReg
<1>2. RegOK(reg[r])
  BY <1>1 DEF SubscriberInv, RegInv
<1>3. reg[r].pc \in {"waiting", "reporting", "done"} /\ reg[r].fired \in BOOLEAN
  BY <1>1 DEF Reg
<1>4. CASE reg[r].pc # "done"
  <2>1. Len(reg[r].calls) = (IF reg[r].fired THEN 1 ELSE 0)
    BY <1>2, <1>3, <1>4 DEF RegOK
  <2> QED BY <2>1, <1>3
<1>5. CASE reg[r].pc = "done"
  <2>1. /\ Len(reg[r].calls) = (IF reg[r].fired THEN 2 ELSE 1)
        /\ reg[r].calls[Len(reg[r].calls)] = reg[r].target
        /\ reg[r].fired => reg[r].calls[1] < reg[r].target
    BY <1>2, <1>5 DEF RegOK
  <2> QED BY <2>1, <1>3
<1> QED BY <1>4, <1>5

LEMMA NoRegApart == NoReg \notin Reg /\ NoReg.pc = "none"
BY DEF NoReg, Reg

LEMMA NoCopyApart == NoCopy \notin Copy /\ NoCopy.pc = "none"
BY DEF NoCopy, Copy

\* The steps of one callback.
LEMMA FireReg ==
    ASSUME NEW v \in Reg, RegOK(v), v.pc = "waiting", ~v.fired
    PROVE  LET w == [v EXCEPT !.fired = TRUE, !.calls = Append(@, v.count)]
           IN  w \in Reg /\ RegOK(w)
<1> DEFINE w == [v EXCEPT !.fired = TRUE, !.calls = Append(@, v.count)]
<1>1. v.calls \in Seq(Nat) /\ v.count \in Nat /\ Len(v.calls) = 0
  BY DEF Reg, RegOK
<1>2. /\ Append(v.calls, v.count) \in Seq(Nat)
      /\ Len(Append(v.calls, v.count)) = 1
      /\ Append(v.calls, v.count)[1] = v.count
  BY <1>1, AppendProperties
<1>3. /\ w.pc = v.pc /\ w.count = v.count /\ w.target = v.target /\ w.fired = TRUE
      /\ w.calls = Append(v.calls, v.count)
  BY DEF Reg
<1>4. w \in Reg
  BY <1>2, <1>3 DEF Reg
<1> HIDE DEF w
<1>5. RegOK(w)
  BY <1>2, <1>3 DEF RegOK
<1> QED BY <1>4, <1>5 DEF w

LEMMA EndReg ==
    ASSUME NEW v \in Reg, RegOK(v), v.pc = "reporting"
    PROVE  LET w == [v EXCEPT !.pc = "done", !.calls = Append(@, v.count)]
           IN  w \in Reg /\ RegOK(w)
<1> DEFINE w == [v EXCEPT !.pc = "done", !.calls = Append(@, v.count)]
<1>1. /\ v.calls \in Seq(Nat) /\ v.count \in Nat /\ v.count = v.target
      /\ Len(v.calls) = (IF v.fired THEN 1 ELSE 0) /\ v.fired \in BOOLEAN
      /\ v.fired => v.calls[1] < v.target
  BY DEF Reg, RegOK
<1>2. /\ Append(v.calls, v.count) \in Seq(Nat)
      /\ Len(Append(v.calls, v.count)) = Len(v.calls) + 1
      /\ Append(v.calls, v.count)[Len(v.calls) + 1] = v.count
      /\ \A i \in 1..Len(v.calls) : Append(v.calls, v.count)[i] = v.calls[i]
  BY <1>1, AppendProperties
<1>3. /\ w.pc = "done" /\ w.count = v.count /\ w.target = v.target
      /\ w.fired = v.fired /\ w.calls = Append(v.calls, v.count)
  BY DEF Reg
<1>4. w \in Reg
  BY <1>2, <1>3 DEF Reg
<1>5. v.fired => 1 \in 1..Len(v.calls)
  BY <1>1
<1> HIDE DEF w
<1>6. RegOK(w)
  BY <1>1, <1>2, <1>3, <1>5 DEF RegOK
<1> QED BY <1>4, <1>6 DEF w

LEMMA HearReg ==
    ASSUME NEW v \in Reg, RegOK(v), v.pc = "waiting", NEW c \in BOOLEAN
    PROVE  LET last == c /\ v.count + 1 = v.target
               w == [v EXCEPT !.count = IF c THEN @ + 1 ELSE @,
                              !.pc = IF last THEN "reporting" ELSE @]
           IN  w \in Reg /\ RegOK(w)
<1> DEFINE last == c /\ v.count + 1 = v.target
           n == IF c THEN v.count + 1 ELSE v.count
           w == [v EXCEPT !.count = n, !.pc = IF last THEN "reporting" ELSE @]
<1>1. /\ v.count \in Nat /\ v.target \in Nat /\ v.count < v.target
      /\ Len(v.calls) = (IF v.fired THEN 1 ELSE 0)
      /\ v.fired => v.calls[1] < v.target
  BY ConstantsAssumption DEF Reg, RegOK
<1>2. n \in Nat /\ IF last THEN n = v.target ELSE n < v.target
  BY <1>1
<1>3. /\ w.pc = (IF last THEN "reporting" ELSE "waiting") /\ w.count = n
      /\ w.target = v.target /\ w.fired = v.fired /\ w.calls = v.calls
  BY DEF Reg
<1>4. w \in Reg
  BY <1>2 DEF Reg
<1>5. RegOK(w)
  <2> HIDE DEF w, n, last
  <2> QED BY <1>1, <1>2, <1>3 DEF RegOK
<1> QED BY <1>4, <1>5

LEMMA NewReg ==
    ASSUME NEW target \in Targets, NEW alone \in BOOLEAN
    PROVE  LET w == [pc |-> "waiting", target |-> target, count |-> 0,
                     fired |-> FALSE, calls |-> <<>>, alone |-> alone]
           IN  w \in Reg /\ RegOK(w)
<1>1. <<>> \in Seq(Nat) /\ Len(<<>>) = 0
  BY EmptySeq
<1>2. target \in Nat \ {0}
  BY ConstantsAssumption
<1> QED BY <1>1, <1>2 DEF Reg, RegOK

LEMMA BesideReg ==
    ASSUME NEW v \in Reg, RegOK(v)
    PROVE  LET w == [v EXCEPT !.alone = FALSE] IN w \in Reg /\ RegOK(w)
<1> DEFINE w == [v EXCEPT !.alone = FALSE]
<1>1. /\ w \in Reg /\ w.pc = v.pc /\ w.count = v.count /\ w.target = v.target
      /\ w.fired = v.fired /\ w.calls = v.calls
  BY DEF Reg
<1> HIDE DEF w
<1> QED BY <1>1 DEF RegOK, w

\* The copies of messages, with the callbacks that wait.  A callback that no
\* other runs beside is the one registered; a message it waits for goes to it
\* before it is shown.
CopyInv ==
    \A k \in Copies : copy[k] \in Copy =>
        /\ send[k[1]].pc # "none"
        /\ \A r \in copy[k].since : reg[r].pc # "none"

Lone(r) == reg[r].pc \in {"waiting", "reporting"} /\ reg[r].alone

LoneInv ==
    \A r \in Regs : Lone(r) =>
        /\ \A q \in Regs \ {r} : reg[q].pc \notin {"waiting", "reporting"}
        /\ reg[r].pc = "waiting" =>
             /\ ackChan = r
             /\ \A k \in Copies :
                  copy[k].pc = "blocked" /\ r \in copy[k].since => copy[k].to = r

\* Messages counted by r that are not shown yet.
Pending(r) ==
    {k \in Copies : /\ copy[k].pc = "acked" /\ send[k[1]].counted
                    /\ r \in copy[k].since}

CountInv ==
    \A r \in Regs :
        /\ reg[r].pc = "none" => shown[r] = 0
        /\ Lone(r) /\ reg[r].pc = "waiting" =>
               shown[r] + Cardinality(Pending(r)) <= reg[r].count
        /\ reg[r].pc # "none" /\ reg[r].alone => shown[r] <= reg[r].count

CallbackInv == CopyInv /\ LoneInv /\ CountInv

DeliveryInv == PublisherInv /\ SubscriberInv /\ CallbackInv

LEMMA CopiesFinite == IsFiniteSet(Copies)
<1>1. MaxSends \in Int /\ MaxChanges + 1 \in Int /\ 1 \in Int
  BY ConstantsAssumption
<1>2. IsFiniteSet(Sends) /\ IsFiniteSet(1..(MaxChanges + 1))
  BY <1>1, FS_Interval DEF Sends
<1> QED BY <1>2, FS_Product DEF Copies

LEMMA PendingFinite ==
    ASSUME NEW r PROVE  IsFiniteSet(Pending(r)) /\ Cardinality(Pending(r)) \in Nat
<1>1. Pending(r) \in SUBSET Copies
  BY DEF Pending
<1> QED BY <1>1, CopiesFinite, FS_Subset, FS_CardinalityType

LEMMA CopySend ==
    ASSUME NEW k \in Copies
    PROVE  k[1] \in Sends
BY DEF Copies

LEMMA InitDelivery == Init => DeliveryInv
<1> SUFFICES ASSUME Init PROVE DeliveryInv
  OBVIOUS
<1> USE NoSendApart, NoCopyApart, NoRegApart, ConstantsAssumption
<1>1. PublisherInv
  BY DEF Init, PublisherInv, SendInv
<1>2. SubscriberInv
  BY DEF Init, SubscriberInv, RegInv
<1>3. CallbackInv
  BY DEF Init, CallbackInv, CopyInv, LoneInv, CountInv, Lone
<1> QED BY <1>1, <1>2, <1>3 DEF DeliveryInv

\* Steps that leave the subscriber as it is.
Rest == UNCHANGED subscriberVars /\ up' \subseteq up

\* What a copy is after each of its steps.
LEMMA CopyTyped ==
    ASSUME NEW v \in Copy, NEW to \in {0} \cup Regs,
           NEW pc \in {"arrived", "checked", "blocked", "acked", "shown"}
    PROVE  /\ [v EXCEPT !.pc = pc] \in Copy
           /\ [v EXCEPT !.pc = pc, !.to = to] \in Copy
           /\ [v EXCEPT !.ended = TRUE] \in Copy
BY DEF Copy

LEMMA CopyThere ==
    ASSUME SubscriberInv, NEW k \in Copies, copy[k].pc # "none"
    PROVE  copy[k] \in Copy
BY NoCopyApart DEF SubscriberInv

LEMMA RegThere ==
    ASSUME SubscriberInv, NEW r \in Regs, reg[r].pc # "none"
    PROVE  reg[r] \in Reg /\ RegOK(reg[r])
BY NoRegApart DEF SubscriberInv, RegInv

LEMMA OneReg ==
    ASSUME SubscriberInv, NEW r \in Regs, NEW w \in Reg, RegOK(w),
           reg' = [reg EXCEPT ![r] = w]
    PROVE  reg' \in [Regs -> Reg \cup {NoReg}] /\ RegInv'
BY DEF SubscriberInv, RegInv

LEMMA SubscriberSteps ==
    ASSUME DeliveryInv, [Next]_vars
    PROVE  SubscriberInv'
<1> USE DEF DeliveryInv
<1>1. CASE Rest
  BY <1>1 DEF Rest, subscriberVars, SubscriberInv, RegInv
<1>2. ASSUME NEW j \in Sends, NEW s \in Subs, Publish(j, s) PROVE SubscriberInv'
  <2>1. CASE UNCHANGED copy
    BY <1>2, <2>1 DEF Publish, SubscriberInv, RegInv
  <2>2. CASE ~UNCHANGED copy
    <3> DEFINE w == [pc |-> "arrived", to |-> 0, since |-> InStep("waiting"),
                     ended |-> InStep("reporting") # {}]
               k == <<j, send[j].sent[Me] + 1>>
    <3>1. s = Me /\ copy' = [copy EXCEPT ![k] = w]
      BY <1>2, <2>2 DEF Publish
    <3>2. w \in Copy
      BY DEF Copy, InStep
    <3>3. send[j] \in Send /\ SendOK(send[j], subs, changes)
      BY <1>2 DEF Publish, Iterating, PublisherInv, SendInv, NoSend
    <3>4. send[j].sent[Me] + 1 \in 1..(MaxChanges + 1)
      BY <1>2, <3>1, <3>3, PublishSend
         DEF Publish, Iterating, Entries, PublisherInv, SendInv
    <3>5. k \in Copies
      BY <3>4 DEF Copies
    <3> HIDE DEF w, k
    <3> QED BY <1>2, <3>1, <3>2, <3>5 DEF Publish, SubscriberInv, RegInv
  <2> QED BY <2>1, <2>2
<1>3. ASSUME NEW k \in Copies, Check(k) \/ Lookup(k) PROVE SubscriberInv'
  <2>1. copy[k] \in Copy
    BY <1>3, CopyThere DEF Check, Lookup, InCopy
  <2>2. PICK w \in Copy : copy' = [copy EXCEPT ![k] = w]
    <3>1. \/ copy' = [copy EXCEPT ![k] = [copy[k] EXCEPT !.pc = "checked"]]
          \/ copy' = [copy EXCEPT ![k] = [copy[k] EXCEPT !.pc = "acked"]]
          \/ copy' = [copy EXCEPT ![k] = [copy[k] EXCEPT !.pc = "blocked", !.to = ackChan]]
      BY <1>3 DEF Check, Lookup
    <3>2. ackChan \in {0} \cup Regs
      BY DEF SubscriberInv
    <3> QED BY <2>1, <3>1, <3>2, CopyTyped
  <2> QED BY <1>3, <2>2 DEF Check, Lookup, SubscriberInv, RegInv
<1>4. ASSUME NEW k \in Copies, Hear(k) PROVE SubscriberInv'
  <2> DEFINE r == copy[k].to
             c == send[k[1]].counted
             last == c /\ reg[r].count + 1 = reg[r].target
             w == [reg[r] EXCEPT !.count = IF c THEN @ + 1 ELSE @,
                                 !.pc = IF last THEN "reporting" ELSE @]
  <2>1. copy[k] \in Copy /\ r \in Regs
    BY <1>4, CopyThere DEF Hear, InCopy, Copy
  <2>2. reg[r] \in Reg /\ RegOK(reg[r]) /\ reg[r].pc = "waiting"
    BY <1>4, <2>1, RegThere DEF Hear
  <2>3. c \in BOOLEAN
    <3>1. k[1] \in Sends /\ send[k[1]].pc # "none"
      BY <2>1, CopySend DEF CallbackInv, CopyInv
    <3>2. send[k[1]] \in Send
      BY <3>1 DEF PublisherInv, NoSend
    <3> QED BY <3>2 DEF Send
  <2>4. w \in Reg /\ RegOK(w)
    BY <2>2, <2>3, HearReg
  <2>5. reg' = [reg EXCEPT ![r] = w]
    BY <1>4, <2>1 DEF Hear, SubscriberInv
  <2>6. copy' \in [Copies -> Copy \cup {NoCopy}]
    <3>1. ASSUME NEW i \in Copies PROVE copy'[i] \in Copy \cup {NoCopy}
      <4>1. \/ i = k /\ copy'[i] = [copy[k] EXCEPT !.pc = "acked"]
            \/ copy[i].pc # "none" /\ copy'[i] = [copy[i] EXCEPT !.ended = TRUE]
            \/ copy'[i] = copy[i]
        BY <1>4 DEF Hear
      <4> QED BY <2>1, <4>1, CopyTyped, CopyThere DEF SubscriberInv
    <3>2. copy' = [i \in Copies |-> copy'[i]]
      BY <1>4 DEF Hear
    <3> QED BY <3>1, <3>2
  <2> HIDE DEF w
  <2> QED BY <1>4, <2>1, <2>4, <2>5, <2>6, OneReg DEF Hear, SubscriberInv
<1>5. ASSUME NEW k \in Copies, Show(k) PROVE SubscriberInv'
  <2>1. copy[k] \in Copy
    BY <1>5, CopyThere DEF Show, InCopy
  <2>2. [copy[k] EXCEPT !.pc = "shown"] \in Copy
    BY <2>1 DEF Copy
  <2>3. copy' = [copy EXCEPT ![k] = [copy[k] EXCEPT !.pc = "shown"]]
    BY <1>5 DEF Show
  <2>4. shown' \in [Regs -> Nat]
    BY <1>5 DEF Show, SubscriberInv
  <2> QED BY <1>5, <2>2, <2>3, <2>4 DEF Show, SubscriberInv, RegInv
<1>6. ASSUME NEW r \in Regs, NEW n \in Targets, Register(r, n) PROVE SubscriberInv'
  <2> DEFINE others == InStep("waiting") \cup InStep("reporting")
             new == [pc |-> "waiting", target |-> n, count |-> 0, fired |-> FALSE,
                     calls |-> <<>>, alone |-> others = {}]
  <2>1. new \in Reg /\ RegOK(new)
    BY NewReg
  <2>2. ASSUME NEW q \in Regs
        PROVE  /\ reg'[q] \in Reg \cup {NoReg}
               /\ reg'[q] \in Reg => RegOK(reg'[q])
    <3>1. \/ reg'[q] = new
          \/ q \in others /\ reg'[q] = [reg[q] EXCEPT !.alone = FALSE]
          \/ reg'[q] = reg[q]
      BY <1>6 DEF Register
    <3>2. q \in others => reg[q] \in Reg /\ RegOK(reg[q])
      BY RegThere DEF InStep
    <3> HIDE DEF new, others
    <3> QED BY <2>1, <3>1, <3>2, BesideReg DEF SubscriberInv, RegInv
  <2>3. reg' = [q \in Regs |-> reg'[q]]
    BY <1>6 DEF Register
  <2>4. up' \subseteq up
    BY <1>6 DEF Register, AckRace
  <2>5. reg' \in [Regs -> Reg \cup {NoReg}] /\ RegInv'
    BY <2>2, <2>3 DEF RegInv
  <2> QED BY <1>6, <2>4, <2>5 DEF Register, SubscriberInv
<1>7. ASSUME NEW r \in Regs, TimeOut(r) PROVE SubscriberInv'
  <2> DEFINE w == [reg[r] EXCEPT !.fired = TRUE, !.calls = Append(@, reg[r].count)]
  <2>1. reg[r] \in Reg /\ RegOK(reg[r])
    BY <1>7, RegThere DEF TimeOut
  <2>2. w \in Reg /\ RegOK(w)
    BY <1>7, <2>1, FireReg DEF TimeOut
  <2>3. reg' = [reg EXCEPT ![r] = w]
    BY <1>7 DEF TimeOut
  <2> HIDE DEF w
  <2> QED BY <1>7, <2>2, <2>3, OneReg DEF TimeOut, SubscriberInv
<1>8. ASSUME NEW r \in Regs, Finish(r) PROVE SubscriberInv'
  <2> DEFINE w == [reg[r] EXCEPT !.pc = "done", !.calls = Append(@, reg[r].count)]
  <2>1. reg[r] \in Reg /\ RegOK(reg[r])
    BY <1>8, RegThere DEF Finish
  <2>2. w \in Reg /\ RegOK(w)
    BY <1>8, <2>1, EndReg DEF Finish
  <2>3. reg' = [reg EXCEPT ![r] = w]
    BY <1>8 DEF Finish
  <2>4. up' \subseteq up
    BY <1>8 DEF Finish, AckRace
  <2> HIDE DEF w
  <2> QED BY <1>8, <2>2, <2>3, <2>4, OneReg DEF Finish, SubscriberInv
<1>9. CASE \E s \in Subs : AddSub(s) \/ DeleteSub(s)
  BY <1>1, <1>9 DEF AddSub, DeleteSub, WriteRace, Rest
<1>10. CASE \/ DeleteTopic \/ UNCHANGED vars
            \/ \E j \in Sends : EndSend(j) \/ \E c \in BOOLEAN : StartSend(j, c)
  BY <1>1, <1>10 DEF DeleteTopic, EndSend, StartSend, Rest, vars
<1> QED BY <1>2, <1>3, <1>4, <1>5, <1>6, <1>7, <1>8, <1>9, <1>10 DEF Next, Work

\* A Send that has begun keeps the text of its message.
LEMMA SendKept ==
    ASSUME DeliveryInv, [Next]_vars, NEW j \in Sends, send[j].pc # "none"
    PROVE  send'[j].pc # "none" /\ send'[j].counted = send[j].counted
<1>1. send[j] \in Send
  BY DEF DeliveryInv, PublisherInv, NoSend
<1>2. CASE UNCHANGED send
  BY <1>2
<1>3. ASSUME NEW s \in Subs, AddSub(s) \/ DeleteSub(s)
      PROVE  send'[j].pc # "none" /\ send'[j].counted = send[j].counted
  <2>1. \/ send'[j] = send[j]
        \/ send'[j] = [send[j] EXCEPT !.some = @ \cup {s}]
        \/ send'[j] = [send[j] EXCEPT !.due = @ \ {s}, !.all = @ \ {s},
                                      !.again = @ \cup ({s} \cap send[j].done),
                                      !.done = @ \ {s}]
    BY <1>3 DEF AddSub, DeleteSub
  <2> QED BY <1>1, <2>1 DEF Send
<1>4. CASE DeleteTopic
  BY <1>1, <1>4 DEF DeleteTopic, Send
<1>5. ASSUME NEW i \in Sends, NEW c \in BOOLEAN, StartSend(i, c)
      PROVE  send'[j].pc # "none" /\ send'[j].counted = send[j].counted
  BY <1>1, <1>5 DEF StartSend, DeliveryInv, PublisherInv
<1>6. ASSUME NEW i \in Sends, EndSend(i) \/ \E s \in Subs : Publish(i, s)
      PROVE  send'[j].pc # "none" /\ send'[j].counted = send[j].counted
  <2>1. CASE i # j
    BY <1>6, <2>1 DEF EndSend, Publish, DeliveryInv, PublisherInv
  <2>2. CASE i = j
    <3>1. CASE EndSend(i)
      <4>1. send' = [send EXCEPT ![j] = [send[j] EXCEPT !.pc = "returned"]]
        BY <2>2, <3>1 DEF EndSend
      <4> QED BY <1>1, <4>1 DEF Send, DeliveryInv, PublisherInv
    <3>2. ASSUME NEW s \in Subs, Publish(i, s)
          PROVE  send'[j].pc # "none" /\ send'[j].counted = send[j].counted
      <4> DEFINE w == [send[j] EXCEPT !.done = @ \cup {s}, !.due = @ \ {s},
                                      !.sent[s] = @ + 1]
      <4>0. Publish(j, s)
        BY <2>2, <3>2
      <4>1. send' = [send EXCEPT ![j] = w]
        BY <4>0 DEF Publish, DeliveryInv, PublisherInv
      <4>2. w.pc = send[j].pc /\ w.counted = send[j].counted
        BY <1>1 DEF Send
      <4> HIDE DEF w
      <4> QED BY <1>1, <4>1, <4>2 DEF DeliveryInv, PublisherInv
    <3> QED BY <1>6, <3>1, <3>2
  <2> QED BY <2>1, <2>2
<1> QED BY <1>2, <1>3, <1>4, <1>5, <1>6 DEF Next, Work, vars, publisherVars,
        Register, Check, Lookup, Hear, Show, TimeOut, Finish

\* A step in which no copy comes to be counted, and no callback hears.
LEMMA QuietCounts ==
    ASSUME DeliveryInv, [Next]_vars, SubscriberInv', UNCHANGED shown,
           \A r \in Regs : /\ reg'[r].pc = reg[r].pc
                           /\ reg[r].pc # "none" => reg'[r].alone = reg[r].alone
                                                   /\ reg'[r].count = reg[r].count,
           \A k \in Copies, r \in Regs :
               Lone(r) /\ reg[r].pc = "waiting" /\ k \in Pending(r)' => k \in Pending(r)
    PROVE  CountInv'
<1> SUFFICES ASSUME NEW r \in Regs
             PROVE  /\ reg'[r].pc = "none" => shown'[r] = 0
                    /\ Lone(r)' /\ reg'[r].pc = "waiting" =>
                           shown'[r] + Cardinality(Pending(r)') <= reg'[r].count
                    /\ reg'[r].pc # "none" /\ reg'[r].alone => shown'[r] <= reg'[r].count
  BY DEF CountInv
<1>1. /\ reg[r].pc = "none" => shown[r] = 0
      /\ Lone(r) /\ reg[r].pc = "waiting" =>
             shown[r] + Cardinality(Pending(r)) <= reg[r].count
      /\ reg[r].pc # "none" /\ reg[r].alone => shown[r] <= reg[r].count
  BY DEF DeliveryInv, CallbackInv, CountInv
<1>2. ASSUME Lone(r)', reg'[r].pc = "waiting"
      PROVE  shown'[r] + Cardinality(Pending(r)') <= reg'[r].count
  <2>1. Lone(r) /\ reg[r].pc = "waiting" /\ reg'[r].count = reg[r].count
    BY <1>2 DEF Lone
  <2>2. Pending(r)' \in SUBSET Pending(r)
    BY <2>1 DEF Pending
  <2>3. Cardinality(Pending(r)') <= Cardinality(Pending(r))
    BY <2>2, PendingFinite, FS_Subset
  <2>4. /\ Cardinality(Pending(r)) \in Nat
        /\ Cardinality(Pending(r)') \in Nat
    BY <2>2, PendingFinite, FS_Subset, FS_CardinalityType
  <2>5. shown[r] \in Nat /\ reg[r].count \in Nat
    BY <2>1, RegThere DEF DeliveryInv, SubscriberInv, Reg
  <2> QED BY <1>1, <2>1, <2>3, <2>4, <2>5
<1> QED BY <1>1, <1>2

\* Only the copies that k says have changed.
LEMMA CopyInvKept ==
    ASSUME DeliveryInv, [Next]_vars,
           \A r \in Regs : reg[r].pc # "none" => reg'[r].pc # "none",
           \A k \in Copies : copy'[k] \in Copy =>
               copy[k] \in Copy /\ copy'[k].since = copy[k].since
    PROVE  CopyInv'
<1> SUFFICES ASSUME NEW k \in Copies, copy'[k] \in Copy
             PROVE  /\ send'[k[1]].pc # "none"
                    /\ \A r \in copy'[k].since : reg'[r].pc # "none"
  BY DEF CopyInv
<1>1. copy[k] \in Copy /\ copy'[k].since = copy[k].since
  OBVIOUS
<1>2. copy[k].since \subseteq Regs
  BY <1>1 DEF Copy
<1>3. k[1] \in Sends /\ send[k[1]].pc # "none"
  BY <1>1, CopySend DEF DeliveryInv, CallbackInv, CopyInv
<1>4. \A r \in copy[k].since : reg[r].pc # "none"
  BY <1>1 DEF DeliveryInv, CallbackInv, CopyInv
<1> QED BY <1>1, <1>2, <1>3, <1>4, SendKept

\* A copy counted for r after a step belongs to a Send that had begun, and its
\* text is the same.
LEMMA CountedKept ==
    ASSUME DeliveryInv, [Next]_vars, NEW k \in Copies, copy[k] \in Copy
    PROVE  send'[k[1]].counted = send[k[1]].counted
<1>1. k[1] \in Sends /\ send[k[1]].pc # "none"
  BY CopySend DEF DeliveryInv, CallbackInv, CopyInv
<1> QED BY <1>1, SendKept

LEMMA StillCallbacks ==
    ASSUME DeliveryInv, [Next]_vars, SubscriberInv', UNCHANGED subscriberVars
    PROVE  CallbackInv'
<1>1. CopyInv'
  BY CopyInvKept DEF subscriberVars
<1>2. LoneInv'
  BY DEF subscriberVars, DeliveryInv, CallbackInv, LoneInv, Lone
<1>3. CountInv'
  <2>1. ASSUME NEW k \in Copies, NEW r \in Regs, k \in Pending(r)'
        PROVE  k \in Pending(r)
    <3>1. copy[k] \in Copy
      BY <2>1, CopyThere DEF Pending, subscriberVars, DeliveryInv
    <3> QED BY <2>1, <3>1, CountedKept DEF Pending, subscriberVars
  <2> QED BY <2>1, QuietCounts DEF subscriberVars
<1> QED BY <1>1, <1>2, <1>3 DEF CallbackInv

LEMMA PublishCallbacks ==
    ASSUME DeliveryInv, [Next]_vars, SubscriberInv',
           NEW j \in Sends, NEW s \in Subs, Publish(j, s)
    PROVE  CallbackInv'
<1>1. CASE UNCHANGED copy
  BY <1>1, StillCallbacks DEF Publish, subscriberVars
<1>2. CASE ~UNCHANGED copy
  <2> DEFINE w == [pc |-> "arrived", to |-> 0, since |-> InStep("waiting"),
                   ended |-> InStep("reporting") # {}]
             i == <<j, send[j].sent[Me] + 1>>
  <2>1. copy' = [copy EXCEPT ![i] = w] /\ UNCHANGED <<ackChan, reg, shown>>
    BY <1>2 DEF Publish
  <2>2. w.pc = "arrived" /\ w.since = InStep("waiting") /\ i[1] = j
    OBVIOUS
  <2>3. \A k \in Copies : copy'[k] = IF k = i THEN w ELSE copy[k]
    BY <2>1 DEF DeliveryInv, SubscriberInv
  <2>4. send[j].pc # "none"
    BY <1>2 DEF Publish, Iterating
  <2> HIDE DEF w, i
  <2>5. CopyInv'
    <3> SUFFICES ASSUME NEW k \in Copies, copy'[k] \in Copy
                 PROVE  /\ send'[k[1]].pc # "none"
                        /\ \A r \in copy'[k].since : reg'[r].pc # "none"
      BY DEF CopyInv
    <3>1. CASE k = i
      BY <2>1, <2>2, <2>3, <2>4, <3>1, SendKept DEF InStep
    <3>2. CASE k # i
      <4>1. copy[k] \in Copy /\ copy'[k] = copy[k]
        BY <2>3, <3>2
      <4>2. k[1] \in Sends /\ send[k[1]].pc # "none"
        BY <4>1, CopySend DEF DeliveryInv, CallbackInv, CopyInv
      <4> QED BY <2>1, <4>1, <4>2, SendKept DEF DeliveryInv, CallbackInv, CopyInv
    <3> QED BY <3>1, <3>2
  <2>6. LoneInv'
    BY <2>1, <2>2, <2>3 DEF DeliveryInv, CallbackInv, LoneInv, Lone
  <2>7. CountInv'
    <3>1. ASSUME NEW k \in Copies, NEW r \in Regs, k \in Pending(r)'
          PROVE  k \in Pending(r)
      <4>1. copy'[k].pc = "acked" /\ send'[k[1]].counted /\ r \in copy'[k].since
        BY <3>1 DEF Pending
      <4>2. copy'[k] = copy[k]
        BY <2>2, <2>3, <4>1
      <4>3. copy[k] \in Copy
        BY <4>1, <4>2, CopyThere DEF DeliveryInv
      <4> QED BY <4>1, <4>2, <4>3, CountedKept DEF Pending
    <3> QED BY <2>1, <3>1, QuietCounts
  <2> QED BY <2>5, <2>6, <2>7 DEF CallbackInv
<1> QED BY <1>1, <1>2

\* The two reads of ackChans: while a lone callback waits, both find it.
LEMMA ReadCallbacks ==
    ASSUME DeliveryInv, [Next]_vars, SubscriberInv',
           NEW i \in Copies, Check(i) \/ Lookup(i)
    PROVE  CallbackInv'
<1>1. copy[i] \in Copy /\ UNCHANGED <<ackChan, reg, shown, send>>
  BY CopyThere DEF Check, Lookup, InCopy, DeliveryInv, publisherVars
<1>2. \A k \in Copies :
          /\ copy'[k].since = copy[k].since
          /\ copy'[k] \in Copy => copy[k] \in Copy
          /\ k # i => copy'[k] = copy[k]
  BY <1>1 DEF Check, Lookup, Copy, DeliveryInv, SubscriberInv
<1>3. /\ copy'[i].pc = "acked" => ackChan = 0
      /\ copy'[i].pc = "blocked" => copy'[i].to = ackChan
  BY <1>1 DEF Check, Lookup, Copy, DeliveryInv, SubscriberInv
<1>4. CopyInv'
  BY <1>1, <1>2, CopyInvKept
<1>5. LoneInv'
  BY <1>1, <1>2, <1>3 DEF DeliveryInv, CallbackInv, LoneInv, Lone
<1>6. CountInv'
  <2>1. ASSUME NEW k \in Copies, NEW r \in Regs, Lone(r), reg[r].pc = "waiting",
               k \in Pending(r)'
        PROVE  k \in Pending(r)
    <3>1. ackChan = r /\ r # 0
      BY <2>1 DEF DeliveryInv, CallbackInv, LoneInv, Regs
    <3>2. k # i
      BY <1>3, <2>1, <3>1 DEF Pending
    <3> QED BY <1>1, <1>2, <2>1, <3>2 DEF Pending
  <2> QED BY <1>1, <2>1, QuietCounts
<1> QED BY <1>4, <1>5, <1>6 DEF CallbackInv

\* A callback counts a message before the message is shown.
LEMMA HearCallbacks ==
    ASSUME DeliveryInv, [Next]_vars, SubscriberInv', NEW i \in Copies, Hear(i)
    PROVE  CallbackInv'
<1> DEFINE q == copy[i].to
           c == send[i[1]].counted
<1>1. /\ copy[i] \in Copy /\ q \in Regs /\ copy[i].pc = "blocked"
      /\ UNCHANGED <<ackChan, shown, send>>
  BY CopyThere DEF Hear, InCopy, DeliveryInv, publisherVars, Copy
<1>2. reg[q] \in Reg /\ RegOK(reg[q]) /\ reg[q].pc = "waiting"
  BY <1>1, RegThere DEF Hear, DeliveryInv
<1>3. /\ \A r \in Regs : r # q => reg'[r] = reg[r]
      /\ reg'[q].alone = reg[q].alone
      /\ reg'[q].pc \in {"waiting", "reporting"}
      /\ reg'[q].count = IF c THEN reg[q].count + 1 ELSE reg[q].count
  BY <1>1, <1>2 DEF Hear, DeliveryInv, SubscriberInv, Reg
<1>4. \A k \in Copies :
          /\ copy'[k] \in Copy => copy[k] \in Copy
          /\ copy'[k] \in Copy => copy'[k].since = copy[k].since
          /\ copy'[k] \in Copy => copy'[k].to = copy[k].to
          /\ k # i => copy'[k].pc = copy[k].pc
  <2>1. ASSUME NEW k \in Copies
        PROVE  \/ k = i /\ copy'[k] = [copy[k] EXCEPT !.pc = "acked"]
               \/ copy[k].pc # "none" /\ copy'[k] = [copy[k] EXCEPT !.ended = TRUE]
               \/ copy'[k] = copy[k]
    BY DEF Hear
  <2>2. ASSUME NEW k \in Copies
        PROVE  /\ copy'[k] \in Copy => copy[k] \in Copy
               /\ copy'[k] \in Copy => copy'[k].since = copy[k].since
               /\ copy'[k] \in Copy => copy'[k].to = copy[k].to
               /\ k # i => copy'[k].pc = copy[k].pc
    <3>1. CASE k = i /\ copy'[k] = [copy[k] EXCEPT !.pc = "acked"]
      BY <1>1, <3>1 DEF Copy
    <3>2. CASE copy[k].pc # "none" /\ copy'[k] = [copy[k] EXCEPT !.ended = TRUE]
      <4>1. copy[k] \in Copy
        BY <3>2, CopyThere DEF DeliveryInv
      <4> QED BY <3>2, <4>1 DEF Copy
    <3>3. CASE copy'[k] = copy[k]
      BY <3>3
    <3> QED BY <2>1, <3>1, <3>2, <3>3
  <2> QED BY <2>2
<1>5. copy'[i].pc = "acked"
  BY <1>1 DEF Hear, Copy
<1>6. CopyInv'
  <2>1. \A r \in Regs : reg[r].pc # "none" => reg'[r].pc # "none"
    BY <1>3
  <2> QED BY <1>4, <2>1, CopyInvKept
<1>7. \A k \in Copies : copy'[k].pc = "blocked" => k # i /\ copy'[k] \in Copy
  BY <1>5, NoCopyApart DEF SubscriberInv
<1>8. LoneInv'
  <2>1. ASSUME NEW r \in Regs, Lone(r)' PROVE Lone(r)
    BY <1>2, <1>3, <2>1 DEF Lone
  <2>2. \A r \in Regs : reg'[r].pc \in {"waiting", "reporting"} =>
            reg[r].pc \in {"waiting", "reporting"}
    BY <1>2, <1>3
  <2>3. \A r \in Regs : reg'[r].pc = "waiting" => reg[r].pc = "waiting"
    BY <1>2, <1>3
  <2>4. ASSUME NEW r \in Regs, Lone(r)'
        PROVE  /\ \A p \in Regs \ {r} : reg'[p].pc \notin {"waiting", "reporting"}
               /\ reg'[r].pc = "waiting" =>
                    /\ ackChan' = r
                    /\ \A k \in Copies :
                         copy'[k].pc = "blocked" /\ r \in copy'[k].since
                             => copy'[k].to = r
    <3>1. Lone(r)
      BY <2>1, <2>4
    <3>2. \A p \in Regs \ {r} : reg'[p].pc \notin {"waiting", "reporting"}
      BY <2>2, <3>1 DEF DeliveryInv, CallbackInv, LoneInv
    <3>3. ASSUME reg'[r].pc = "waiting"
          PROVE  /\ ackChan' = r
                 /\ \A k \in Copies :
                      copy'[k].pc = "blocked" /\ r \in copy'[k].since
                          => copy'[k].to = r
      BY <1>1, <1>4, <1>7, <2>3, <3>1, <3>3 DEF DeliveryInv, CallbackInv, LoneInv
    <3> QED BY <3>2, <3>3
  <2> QED BY <2>4 DEF LoneInv
<1>9. ASSUME NEW r \in Regs
      PROVE  Pending(r)' \in SUBSET (IF c THEN Pending(r) \cup {i} ELSE Pending(r))
  <2>1. ASSUME NEW k \in Pending(r)'
        PROVE  k \in Pending(r) \/ (c /\ k = i)
    <3>1. k \in Copies /\ copy'[k].pc = "acked" /\ send'[k[1]].counted /\ r \in copy'[k].since
      BY <2>1 DEF Pending
    <3>2. copy'[k] \in Copy
      BY <3>1, NoCopyApart DEF SubscriberInv
    <3> QED BY <1>1, <1>4, <3>1, <3>2 DEF Pending
  <2> QED BY <2>1
<1>10. CountInv'
  <2> SUFFICES ASSUME NEW r \in Regs
               PROVE  /\ reg'[r].pc = "none" => shown'[r] = 0
                      /\ Lone(r)' /\ reg'[r].pc = "waiting" =>
                             shown'[r] + Cardinality(Pending(r)') <= reg'[r].count
                      /\ reg'[r].pc # "none" /\ reg'[r].alone => shown'[r] <= reg'[r].count
    BY DEF CountInv
  <2>1. /\ reg[r].pc = "none" => shown[r] = 0
        /\ Lone(r) /\ reg[r].pc = "waiting" =>
               shown[r] + Cardinality(Pending(r)) <= reg[r].count
        /\ reg[r].pc # "none" /\ reg[r].alone => shown[r] <= reg[r].count
    BY DEF DeliveryInv, CallbackInv, CountInv
  <2>2. shown[r] \in Nat
    BY DEF DeliveryInv, SubscriberInv
  <2>3. CASE r # q
    <3>1. ~(Lone(r)' /\ reg'[r].pc = "waiting")
      <4>1. ~Lone(r)
        BY <1>1, <1>2, <2>3 DEF DeliveryInv, CallbackInv, LoneInv
      <4> QED BY <1>3, <2>3, <4>1 DEF Lone
    <3> QED BY <1>1, <1>3, <2>1, <2>3, <3>1
  <2>4. CASE r = q
    <3>1. reg[q].count \in Nat
      BY <1>2 DEF Reg
    <3>2. ASSUME Lone(r)', reg'[r].pc = "waiting"
          PROVE  shown'[r] + Cardinality(Pending(r)') <= reg'[r].count
      <4>1. shown[r] + Cardinality(Pending(r)) <= reg[r].count
        BY <1>2, <1>3, <2>1, <2>4, <3>2 DEF Lone
      <4>2. /\ IsFiniteSet(Pending(r)) /\ Cardinality(Pending(r)) \in Nat
            /\ IsFiniteSet(Pending(r) \cup {i})
            /\ Cardinality(Pending(r) \cup {i}) <= Cardinality(Pending(r)) + 1
            /\ Cardinality(Pending(r) \cup {i}) \in Nat
        <5>1. IsFiniteSet(Pending(r)) /\ Cardinality(Pending(r)) \in Nat
          BY PendingFinite
        <5>2. /\ IsFiniteSet(Pending(r) \cup {i})
              /\ Cardinality(Pending(r) \cup {i}) =
                     IF i \in Pending(r) THEN Cardinality(Pending(r))
                     ELSE Cardinality(Pending(r)) + 1
          BY <5>1, FS_AddElement
        <5> QED BY <5>1, <5>2
      <4>3. /\ Cardinality(Pending(r)') \in Nat
            /\ Cardinality(Pending(r)') <=
                   IF c THEN Cardinality(Pending(r)) + 1 ELSE Cardinality(Pending(r))
        <5>1. CASE c
          <6>1. /\ IsFiniteSet(Pending(r)')
                /\ Cardinality(Pending(r)') <= Cardinality(Pending(r) \cup {i})
            BY <1>9, <4>2, <5>1, FS_Subset
          <6>2. Cardinality(Pending(r)') \in Nat
            BY <6>1, FS_CardinalityType
          <6> QED BY <4>2, <5>1, <6>1, <6>2
        <5>2. CASE ~c
          <6>1. /\ IsFiniteSet(Pending(r)')
                /\ Cardinality(Pending(r)') <= Cardinality(Pending(r))
            BY <1>9, <4>2, <5>2, FS_Subset
          <6>2. Cardinality(Pending(r)') \in Nat
            BY <6>1, FS_CardinalityType
          <6> QED BY <5>2, <6>1, <6>2
        <5> QED BY <5>1, <5>2
      <4>4. shown'[r] = shown[r]
        BY <1>1
      <4>5. reg'[r].count = IF c THEN reg[r].count + 1 ELSE reg[r].count
        BY <1>3, <2>4
      <4> HIDE DEF c
      <4> QED BY <2>2, <2>4, <3>1, <4>1, <4>2, <4>3, <4>4, <4>5
    <3>3. reg'[r].alone => shown'[r] <= reg'[r].count
      BY <1>1, <1>2, <1>3, <2>1, <2>2, <2>4, <3>1
    <3> QED BY <1>3, <2>4, <3>2, <3>3
  <2> QED BY <2>3, <2>4
<1> QED BY <1>6, <1>8, <1>10 DEF CallbackInv

LEMMA ShowCallbacks ==
    ASSUME DeliveryInv, [Next]_vars, SubscriberInv', NEW i \in Copies, Show(i)
    PROVE  CallbackInv'
<1>1. /\ copy[i] \in Copy /\ copy[i].pc = "acked"
      /\ UNCHANGED <<ackChan, reg, send>>
  BY CopyThere DEF Show, InCopy, DeliveryInv, publisherVars
<1>2. \A k \in Copies :
          /\ copy'[k] \in Copy => copy[k] \in Copy /\ copy'[k].since = copy[k].since
          /\ copy'[k].pc = "blocked" => copy'[k] = copy[k]
          /\ copy'[k].pc = "acked" => k # i /\ copy'[k] = copy[k]
  BY <1>1 DEF Show, Copy, DeliveryInv, SubscriberInv
<1>3. CopyInv'
  BY <1>1, <1>2, CopyInvKept
<1>4. LoneInv'
  BY <1>1, <1>2 DEF DeliveryInv, CallbackInv, LoneInv, Lone
<1>5. ASSUME NEW r \in Regs PROVE Pending(r)' \in SUBSET (Pending(r) \ {i})
  BY <1>1, <1>2 DEF Pending
<1>6. CountInv'
  <2> SUFFICES ASSUME NEW r \in Regs
               PROVE  /\ reg'[r].pc = "none" => shown'[r] = 0
                      /\ Lone(r)' /\ reg'[r].pc = "waiting" =>
                             shown'[r] + Cardinality(Pending(r)') <= reg'[r].count
                      /\ reg'[r].pc # "none" /\ reg'[r].alone => shown'[r] <= reg'[r].count
    BY DEF CountInv
  <2>1. /\ reg[r].pc = "none" => shown[r] = 0
        /\ Lone(r) /\ reg[r].pc = "waiting" =>
               shown[r] + Cardinality(Pending(r)) <= reg[r].count
        /\ reg[r].pc # "none" /\ reg[r].alone => shown[r] <= reg[r].count
    BY DEF DeliveryInv, CallbackInv, CountInv
  <2>2. shown[r] \in Nat
    BY DEF DeliveryInv, SubscriberInv
  <2>3. /\ IsFiniteSet(Pending(r)) /\ Cardinality(Pending(r)) \in Nat
        /\ IsFiniteSet(Pending(r) \ {i})
        /\ Cardinality(Pending(r) \ {i}) =
               IF i \in Pending(r) THEN Cardinality(Pending(r)) - 1
               ELSE Cardinality(Pending(r))
    BY PendingFinite, FS_RemoveElement
  <2>4. /\ Cardinality(Pending(r)') \in Nat
        /\ Cardinality(Pending(r)') <= Cardinality(Pending(r) \ {i})
    BY <1>5, <2>3, FS_Subset, FS_CardinalityType
  <2>5. CASE send[i[1]].counted /\ r \in copy[i].since /\ reg[r].pc = "waiting"
    <3>1. shown'[r] = shown[r] + 1 /\ i \in Pending(r)
      BY <1>1, <2>5 DEF Show, InStep, Pending
    <3>2. reg[r].count \in Nat
      BY <2>5, RegThere DEF DeliveryInv, Reg
    <3>3. reg'[r].pc = "waiting" /\ reg'[r].count = reg[r].count
          /\ reg'[r].alone = reg[r].alone
      BY <1>1, <2>5
    <3>4. reg[r].alone => shown[r] + Cardinality(Pending(r)) <= reg[r].count
      BY <2>1, <2>5 DEF Lone
    <3>5. reg[r].alone => /\ shown'[r] + Cardinality(Pending(r)') <= reg[r].count
                         /\ shown'[r] <= reg[r].count
      BY <2>2, <2>3, <2>4, <3>1, <3>2, <3>4
    <3> QED BY <3>3, <3>5 DEF Lone
  <2>6. CASE ~(send[i[1]].counted /\ r \in copy[i].since /\ reg[r].pc = "waiting")
    <3>1. shown'[r] = shown[r] /\ reg'[r] = reg[r]
      BY <1>1, <2>6 DEF Show, InStep
    <3>2. ASSUME Lone(r), reg[r].pc = "waiting"
          PROVE  shown[r] + Cardinality(Pending(r)') <= reg[r].count
      <4>1. reg[r].count \in Nat
        BY <3>2, RegThere DEF DeliveryInv, Reg
      <4> QED BY <2>1, <2>2, <2>3, <2>4, <3>2, <4>1
    <3> QED BY <2>1, <3>1, <3>2 DEF Lone
  <2> QED BY <2>5, <2>6
<1> QED BY <1>3, <1>4, <1>6 DEF CallbackInv

LEMMA TimeOutCallbacks ==
    ASSUME DeliveryInv, [Next]_vars, SubscriberInv', NEW q \in Regs, TimeOut(q)
    PROVE  CallbackInv'
<1>1. reg[q] \in Reg /\ UNCHANGED <<send, copy, ackChan, shown>>
  BY RegThere DEF TimeOut, DeliveryInv, publisherVars
<1>2. \A r \in Regs : /\ reg'[r].pc = reg[r].pc
                      /\ reg[r].pc # "none" => reg'[r].alone = reg[r].alone
                                              /\ reg'[r].count = reg[r].count
  BY <1>1 DEF TimeOut, Reg, DeliveryInv, SubscriberInv
<1>3. CopyInv'
  BY <1>1, <1>2, CopyInvKept
<1>4. LoneInv'
  <2>1. \A r \in Regs : Lone(r)' => Lone(r)
    BY <1>2 DEF Lone
  <2> QED BY <1>1, <1>2, <2>1 DEF DeliveryInv, CallbackInv, LoneInv
<1>5. CountInv'
  <2>1. \A k \in Copies, r \in Regs : k \in Pending(r)' => k \in Pending(r)
    BY <1>1 DEF Pending
  <2> QED BY <1>1, <1>2, <2>1, QuietCounts
<1> QED BY <1>3, <1>4, <1>5 DEF CallbackInv

LEMMA FinishCallbacks ==
    ASSUME DeliveryInv, [Next]_vars, SubscriberInv', NEW q \in Regs, Finish(q)
    PROVE  CallbackInv'
<1>1. /\ reg[q] \in Reg /\ reg[q].pc = "reporting"
      /\ UNCHANGED <<send, copy, shown>> /\ ackChan' = 0
  BY RegThere DEF Finish, DeliveryInv, publisherVars
<1>2. /\ \A r \in Regs : r # q => reg'[r] = reg[r]
      /\ reg'[q].pc = "done" /\ reg'[q].alone = reg[q].alone
      /\ reg'[q].count = reg[q].count
  BY <1>1 DEF Finish, Reg, DeliveryInv, SubscriberInv
<1>3. CopyInv'
  BY <1>1, <1>2, CopyInvKept
<1>4. ASSUME NEW r \in Regs PROVE ~Lone(r)'
                               \/ (Lone(r) /\ r # q /\ reg'[r].pc = "reporting")
  BY <1>1, <1>2 DEF Lone, DeliveryInv, CallbackInv, LoneInv
<1>5. LoneInv'
  <2>1. \A r \in Regs : reg'[r].pc \in {"waiting", "reporting"} =>
            reg[r].pc \in {"waiting", "reporting"}
    BY <1>2
  <2> QED BY <1>4, <2>1 DEF DeliveryInv, CallbackInv, LoneInv
<1>6. CountInv'
  <2>1. \A r \in Regs : ~(Lone(r)' /\ reg'[r].pc = "waiting")
    BY <1>4
  <2>2. \A r \in Regs :
            /\ reg'[r].pc = "none" => shown'[r] = 0
            /\ reg'[r].pc # "none" /\ reg'[r].alone => shown'[r] <= reg'[r].count
    BY <1>1, <1>2 DEF DeliveryInv, CallbackInv, CountInv
  <2> QED BY <2>1, <2>2 DEF CountInv
<1> QED BY <1>3, <1>5, <1>6 DEF CallbackInv

LEMMA RegisterCallbacks ==
    ASSUME DeliveryInv, [Next]_vars, SubscriberInv',
           NEW q \in Regs, NEW n \in Targets, Register(q, n)
    PROVE  CallbackInv'
<1> DEFINE others == InStep("waiting") \cup InStep("reporting")
<1>1. /\ reg[q].pc = "none" /\ ackChan' = q
      /\ UNCHANGED <<send, copy, shown>>
  BY DEF Register, publisherVars
<1>2. /\ reg'[q].pc = "waiting" /\ reg'[q].count = 0
      /\ reg'[q].alone = (others = {})
  BY DEF Register
<1>3. ASSUME NEW r \in Regs, r # q
      PROVE  /\ reg'[r].pc = reg[r].pc
             /\ reg[r].pc # "none" => reg'[r].count = reg[r].count
             /\ r \notin others => reg'[r] = reg[r]
             /\ r \in others => reg'[r].alone = FALSE
  <2>1. r \in others => reg[r] \in Reg /\ reg'[r] = [reg[r] EXCEPT !.alone = FALSE]
    BY <1>3, RegThere DEF Register, InStep, DeliveryInv
  <2>2. r \notin others => reg'[r] = reg[r]
    BY <1>3 DEF Register
  <2> HIDE DEF others
  <2> QED BY <2>1, <2>2 DEF Reg
<1>4. \A r \in Regs : r \in others <=> reg[r].pc \in {"waiting", "reporting"}
  BY DEF InStep
<1>5. CopyInv'
  BY <1>1, <1>2, <1>3, CopyInvKept
<1>6. \A k \in Copies : copy[k].pc # "none" => q \notin copy[k].since
  BY <1>1, CopyThere DEF DeliveryInv, CallbackInv, CopyInv
<1>7. \A r \in Regs : r # q => ~Lone(r)'
  BY <1>3, <1>4 DEF Lone
<1>8. LoneInv'
  <2>1. ASSUME Lone(q)'
        PROVE  \A p \in Regs \ {q} : reg'[p].pc \notin {"waiting", "reporting"}
    <3>1. others = {}
      BY <1>2, <2>1 DEF Lone
    <3> QED BY <1>3, <1>4, <3>1
  <2>2. \A k \in Copies : ~(copy'[k].pc = "blocked" /\ q \in copy'[k].since)
    BY <1>1, <1>6
  <2> QED BY <1>1, <1>7, <2>1, <2>2 DEF LoneInv
<1>9. CountInv'
  <2>1. Pending(q)' = {}
    BY <1>1, <1>6 DEF Pending
  <2>2. shown'[q] = 0 /\ Cardinality(Pending(q)') = 0
    BY <1>1, <2>1, FS_EmptySet DEF DeliveryInv, CallbackInv, CountInv
  <2>3. ASSUME NEW r \in Regs, r # q
        PROVE  /\ reg'[r].pc = "none" => shown'[r] = 0
               /\ reg'[r].pc # "none" /\ reg'[r].alone => shown'[r] <= reg'[r].count
    <3>1. r \notin others => reg'[r] = reg[r]
      BY <1>3, <2>3
    <3>2. r \in others => reg'[r].alone = FALSE /\ reg'[r].pc # "none"
      BY <1>3, <1>4, <2>3
    <3> HIDE DEF others
    <3> QED BY <1>1, <3>1, <3>2 DEF DeliveryInv, CallbackInv, CountInv
  <2> QED BY <1>2, <1>7, <2>2, <2>3 DEF CountInv
<1> QED BY <1>5, <1>8, <1>9 DEF CallbackInv

LEMMA NextDelivery == DeliveryInv /\ [Next]_vars => DeliveryInv'
<1> SUFFICES ASSUME DeliveryInv, [Next]_vars PROVE DeliveryInv'
  OBVIOUS
<1>1. PublisherInv'
  BY PublisherSteps DEF DeliveryInv
<1>2. SubscriberInv'
  BY SubscriberSteps
<1>3. CallbackInv'
  <2>1. CASE UNCHANGED subscriberVars
    BY <1>2, <2>1, StillCallbacks
  <2>2. CASE ~UNCHANGED subscriberVars
    <3>1. \/ \E j \in Sends, s \in Subs : Publish(j, s)
          \/ \E k \in Copies : Check(k) \/ Lookup(k) \/ Hear(k) \/ Show(k)
          \/ \E r \in Regs : TimeOut(r) \/ Finish(r) \/ \E n \in Targets : Register(r, n)
      BY <2>2 DEF Next, Work, vars, AddSub, DeleteSub, DeleteTopic, StartSend, EndSend
    <3> QED BY <1>2, <3>1, PublishCallbacks, ReadCallbacks, HearCallbacks, ShowCallbacks,
            TimeOutCallbacks, FinishCallbacks, RegisterCallbacks
  <2> QED BY <2>1, <2>2
<1> QED BY <1>1, <1>2, <1>3 DEF DeliveryInv

-----------------------------------------------------------------------------

\* The state stays of its type (pubsub/agent.go Send, stores/subscriber.go,
\* processor.go data, mocker.go initCallback); a message has at most one copy
\* more than the store has writes.
THEOREM TypeCorrect == Spec => []TypeOK
<1>1. DeliveryInv => TypeOK
  BY DEF DeliveryInv, PublisherInv, SubscriberInv, TypeOK
<1> QED BY <1>1, InitDelivery, NextDelivery, PTL DEF Spec

\* Send publishes to everyone who is subscribed from its start to its end, to
\* nobody who never is, and twice only to one who is deleted and added again
\* (agent.go 402-427, iterating over the store's own map).
THEOREM SendCompleteAlways == Spec => []SendComplete
<1>1. DeliveryInv => SendComplete
  BY SendInvComplete DEF DeliveryInv, PublisherInv, SubscriberInv, TypeOK
<1> QED BY <1>1, InitDelivery, NextDelivery, PTL DEF Spec

\* A callback reports a second time only after its timer, then its full count,
\* and never a third time (mocker.go 161-177).
THEOREM SecondOnlyAfterTimeoutAlways == Spec => []SecondOnlyAfterTimeout
<1>1. DeliveryInv => SecondOnlyAfterTimeout
  BY RegInvReports DEF DeliveryInv
<1> QED BY <1>1, InitDelivery, NextDelivery, PTL DEF Spec

\* A lone callback has counted every message that was shown while it waited
\* (processor.go 198-202 hands a message over before it shows it).
THEOREM CountsShownAlways == Spec => []CountsShown
<1>1. DeliveryInv => CountsShown
  <2> SUFFICES ASSUME DeliveryInv, NEW r \in Regs, reg[r].pc # "none", reg[r].alone
               PROVE  reg[r].count >= shown[r]
    BY DEF CountsShown
  <2>1. reg[r].count \in Nat /\ shown[r] \in Nat /\ shown[r] <= reg[r].count
    BY RegThere DEF DeliveryInv, SubscriberInv, CallbackInv, CountInv, Reg
  <2> QED BY <2>1
<1> QED BY <1>1, InitDelivery, NextDelivery, PTL DEF Spec

=============================================================================
