------------------------------- MODULE Delivery -------------------------------
(***************************************************************************)
(* A group message from Send of its publisher (pubsub/agent.go) to the     *)
(* user of one subscriber (processor.data), with the subscriber store that *)
(* Send iterates over while handlers write to it (stores/subscriber.go),   *)
(* and the callbacks that testers register with the subscriber to count    *)
(* messages (processor.acker, mock/mocker.go).                             *)
(*                                                                         *)
(* Abstractions.  One topic and one publisher.  Keys, packing and order    *)
(* metadata are left out; packing fails for nobody who is subscribed.  Of  *)
(* the text, a message keeps whether it is the one that callbacks count.   *)
(* ZeroMQ delivers what is published, in any order: the subscriber is      *)
(* connected, and each message has a goroutine.  A Go map that is written  *)
(* while another goroutine reads it may stop the process.                  *)
(***************************************************************************)
EXTENDS Naturals, Sequences, FiniteSets

CONSTANTS
    Subs,        \* subscribers
    Me,          \* the subscriber looked at
    Subscribed,  \* those that have subscribed at the start
    MaxSends,    \* bound: calls of Send
    MaxChanges,  \* bound: writes to the subscriber store
    MaxRegs,     \* bound: callbacks registered
    Targets      \* numbers of messages that callbacks wait for

ASSUME ConstantsAssumption ==
    /\ Me \in Subs
    /\ Subscribed \subseteq Subs
    /\ MaxSends \in Nat
    /\ MaxChanges \in Nat
    /\ MaxRegs \in Nat
    /\ Targets \subseteq Nat \ {0}

VARIABLES
    \* the publisher
    member,      \* the publisher has not left the group
    topicThere,  \* Subscriber.subs has an entry for the topic
    subs,        \* the subscribers in it
    send,        \* calls of Send
    changes,     \* number of writes to the store
    \* the subscriber
    copy,        \* the goroutines of the messages it has received
    ackChan,     \* processor.ackChans: the registration for the publisher
    reg,         \* registrations: goroutines of initCallback
    \* processes and history
    up,          \* processes that run
    subscribed,  \* subscribers added and not deleted
    shown        \* per registration: counted messages shown while it waits

publisherVars == <<member, topicThere, subs, send, changes, subscribed>>
subscriberVars == <<copy, ackChan, reg, shown>>
vars == <<publisherVars, subscriberVars, up>>

-----------------------------------------------------------------------------
(* Types. *)

Sends == 1..MaxSends
Regs == 1..MaxRegs
Copies == Sends \X (1..(MaxChanges + 1))

\* A running Send: whether its map is still that of the store, its entries
\* otherwise, the entries it has reached and those it has to reach; and, as
\* history, the subscribers throughout (all), at some time (some), and deleted
\* after they were reached (again).
Send == [pc : {"iterating", "returned"}, counted : BOOLEAN, live : BOOLEAN,
         held : SUBSET Subs, done : SUBSET Subs, due : SUBSET Subs,
         sent : [Subs -> 0..(MaxChanges + 1)],
         all : SUBSET Subs, some : SUBSET Subs, again : SUBSET Subs]
NoSend == [pc |-> "none"]

\* since: the registrations that waited when the message arrived; ended: one
\* reached its count while the message was handled, or was reporting it.
Copy == [pc : {"arrived", "checked", "blocked", "acked", "shown"},
         to : {0} \cup Regs, since : SUBSET Regs, ended : BOOLEAN]
NoCopy == [pc |-> "none"]

\* alone: no other registration has been running beside it.
Reg == [pc : {"waiting", "reporting", "done"}, target : Targets, count : Nat,
        fired : BOOLEAN, calls : Seq(Nat), alone : BOOLEAN]
NoReg == [pc |-> "none"]

TypeOK ==
    /\ member \in BOOLEAN
    /\ topicThere \in BOOLEAN
    /\ subs \subseteq Subs
    /\ send \in [Sends -> Send \cup {NoSend}]
    /\ changes \in 0..MaxChanges
    /\ copy \in [Copies -> Copy \cup {NoCopy}]
    /\ ackChan \in {0} \cup Regs
    /\ reg \in [Regs -> Reg \cup {NoReg}]
    /\ up \subseteq {"publisher", "subscriber"}
    /\ subscribed \subseteq Subs
    /\ shown \in [Regs -> Nat]

Init ==
    /\ member = TRUE
    /\ topicThere = (Subscribed # {})
    /\ subs = Subscribed
    /\ send = [j \in Sends |-> NoSend]
    /\ changes = 0
    /\ copy = [k \in Copies |-> NoCopy]
    /\ ackChan = 0
    /\ reg = [r \in Regs |-> NoReg]
    /\ up = {"publisher", "subscriber"}
    /\ subscribed = Subscribed
    /\ shown = [r \in Regs |-> 0]

-----------------------------------------------------------------------------
(* The subscriber store. *)

Iterating(j) == send[j].pc = "iterating"
OnStore(j) == Iterating(j) /\ send[j].live

Write ==
    /\ "publisher" \in up
    /\ changes < MaxChanges
    /\ changes' = changes + 1

\* A write to the map while a Send iterates over it may end the process.
WriteRace == up' \in {up} \cup
    (IF \E j \in Sends : OnStore(j) THEN {up \ {"publisher"}} ELSE {})

AddSub_Fresh(s) ==   \* mutant
    /\ Write
    /\ WriteRace
    /\ topicThere' = TRUE
    /\ subs' = {s}
    /\ subscribed' = subscribed \cup {s}
    /\ send' = [j \in Sends |->
         IF Iterating(j) THEN [send[j] EXCEPT !.some = @ \cup {s}] ELSE send[j]]
    /\ UNCHANGED <<member, subscriberVars>>

\* Add (subscriptions, and connectMember of a joiner).
AddSub(s) ==
    /\ Write
    /\ WriteRace
    /\ topicThere' = TRUE
    /\ subs' = subs \cup {s}
    /\ subscribed' = subscribed \cup {s}
    /\ send' = [j \in Sends |->
         IF Iterating(j) THEN [send[j] EXCEPT !.some = @ \cup {s}] ELSE send[j]]
    /\ UNCHANGED <<member, subscriberVars>>

\* Delete (an inactive status, or a request to end a subscription).
DeleteSub(s) ==
    /\ Write
    /\ WriteRace
    /\ s \in subscribed
    /\ subs' = subs \ {s}
    /\ subscribed' = subscribed \ {s}
    /\ send' = [j \in Sends |->
         IF OnStore(j)
         THEN [send[j] EXCEPT !.due = @ \ {s}, !.all = @ \ {s},
                              !.again = @ \cup ({s} \cap send[j].done),
                              !.done = @ \ {s}]
         ELSE send[j]]
    /\ UNCHANGED <<member, topicThere, subscriberVars>>

\* Leave deletes the topic; a Send goes on with the map it has.
DeleteTopic ==
    /\ Write
    /\ member
    /\ member' = FALSE
    /\ topicThere' = FALSE
    /\ subs' = {}
    /\ subscribed' = {}
    /\ send' = [j \in Sends |->
         IF OnStore(j) THEN [send[j] EXCEPT !.live = FALSE, !.held = subs]
         ELSE send[j]]
    /\ UNCHANGED <<subscriberVars, up>>

-----------------------------------------------------------------------------
(* Send. *)

StartSend(j, counted) ==
    /\ "publisher" \in up
    /\ send[j].pc = "none"
    /\ \A i \in Sends : i < j => send[i].pc # "none"
    /\ member /\ topicThere
    /\ send' = [send EXCEPT ![j] =
         [pc |-> "iterating", counted |-> counted, live |-> TRUE, held |-> {},
          done |-> {}, due |-> subs, sent |-> [s \in Subs |-> 0],
          all |-> subscribed, some |-> subscribed, again |-> {}]]
    /\ UNCHANGED <<member, topicThere, subs, changes, subscribed,
                   subscriberVars, up>>

Entries(j) == IF send[j].live THEN subs ELSE send[j].held

InStep(pc) == {r \in Regs : reg[r].pc = pc}

\* The iteration reaches an entry, and the message is published to it.
Publish(j, s) ==
    /\ "publisher" \in up
    /\ Iterating(j)
    /\ s \in Entries(j) \ send[j].done
    /\ send' = [send EXCEPT ![j].done = @ \cup {s}, ![j].due = @ \ {s},
                            ![j].sent[s] = @ + 1]
    /\ copy' = IF s = Me /\ "subscriber" \in up
               THEN [copy EXCEPT ![<<j, send[j].sent[Me] + 1>>] =
                       [pc |-> "arrived", to |-> 0, since |-> InStep("waiting"),
                        ended |-> InStep("reporting") # {}]]
               ELSE copy
    /\ UNCHANGED <<member, topicThere, subs, changes, subscribed,
                   ackChan, reg, shown, up>>

\* Entries made during the iteration may be skipped.
EndSend(j) ==
    /\ "publisher" \in up
    /\ Iterating(j)
    /\ send[j].due = {}
    /\ send' = [send EXCEPT ![j].pc = "returned"]
    /\ UNCHANGED <<member, topicThere, subs, changes, subscribed,
                   subscriberVars, up>>

-----------------------------------------------------------------------------
(* The subscriber: data. *)

InCopy(k, pc) == "subscriber" \in up /\ copy[k].pc = pc

\* ackChans is read to see whether there is a channel ...
Check(k) ==
    /\ InCopy(k, "arrived")
    /\ copy' = [copy EXCEPT ![k].pc = IF ackChan # 0 THEN "checked" ELSE "acked"]
    /\ UNCHANGED <<publisherVars, ackChan, reg, shown, up>>

Lookup_NoWait(k) ==   \* mutant
    /\ InCopy(k, "checked")
    /\ copy' = [copy EXCEPT ![k].pc = "acked"]
    /\ UNCHANGED <<publisherVars, ackChan, reg, shown, up>>

\* ... and again for the channel to send to: 0 is nil, which blocks for ever.
Lookup(k) ==
    /\ InCopy(k, "checked")
    /\ copy' = [copy EXCEPT ![k].pc = "blocked", ![k].to = ackChan]
    /\ UNCHANGED <<publisherVars, ackChan, reg, shown, up>>

\* The goroutine of the callback receives the message, and has finished when
\* it is the last one it counts.
Hear(k) ==
    /\ InCopy(k, "blocked")
    /\ copy[k].to # 0
    /\ LET r == copy[k].to
           counted == send[k[1]].counted
           last == counted /\ reg[r].count + 1 = reg[r].target
       IN
        /\ reg[r].pc = "waiting"
        /\ reg' = [reg EXCEPT ![r].count = IF counted THEN @ + 1 ELSE @,
                              ![r].pc = IF last THEN "reporting" ELSE @]
        /\ copy' = [i \in Copies |->
             IF i = k THEN [copy[k] EXCEPT !.pc = "acked"]
             ELSE IF last /\ copy[i].pc # "none"
                  THEN [copy[i] EXCEPT !.ended = TRUE]
             ELSE copy[i]]
    /\ UNCHANGED <<publisherVars, ackChan, shown, up>>

\* The message goes to the user.
Show(k) ==
    /\ InCopy(k, "acked")
    /\ copy' = [copy EXCEPT ![k].pc = "shown"]
    /\ shown' = [r \in Regs |->
         IF send[k[1]].counted /\ r \in copy[k].since \cap InStep("waiting")
         THEN shown[r] + 1 ELSE shown[r]]
    /\ UNCHANGED <<publisherVars, ackChan, reg, up>>

-----------------------------------------------------------------------------
(* The callbacks: initCallback. *)

\* A write to ackChans while data is about to read it may end the process.
AckRace == up' \in {up} \cup
    (IF \E k \in Copies : copy[k].pc \in {"arrived", "checked"}
     THEN {up \ {"subscriber"}} ELSE {})

Register(r, target) ==
    /\ "subscriber" \in up
    /\ reg[r].pc = "none"
    /\ \A q \in Regs : q < r => reg[q].pc # "none"
    /\ AckRace
    /\ ackChan' = r
    /\ LET others == InStep("waiting") \cup InStep("reporting") IN
        reg' = [q \in Regs |->
          IF q = r THEN [pc |-> "waiting", target |-> target, count |-> 0,
                         fired |-> FALSE, calls |-> <<>>, alone |-> others = {}]
          ELSE IF q \in others THEN [reg[q] EXCEPT !.alone = FALSE]
          ELSE reg[q]]
    /\ UNCHANGED <<publisherVars, copy, shown>>

TimeOut_OffByOne(r) ==   \* mutant
    /\ "subscriber" \in up
    /\ reg[r].pc = "waiting"
    /\ ~reg[r].fired
    /\ reg' = [reg EXCEPT ![r].fired = TRUE,
                          ![r].calls = Append(@, reg[r].count - 1)]
    /\ UNCHANGED <<publisherVars, copy, ackChan, shown, up>>

TimeOut_Silent(r) ==   \* mutant
    /\ "subscriber" \in up
    /\ reg[r].pc = "waiting"
    /\ ~reg[r].fired
    /\ reg' = [reg EXCEPT ![r].fired = TRUE]
    /\ UNCHANGED <<publisherVars, copy, ackChan, shown, up>>

\* The timer fires once; the goroutine calls back and goes on.  The callback is
\* taken to be answered at once (mocker.go posts it without a timeout).
TimeOut(r) ==
    /\ "subscriber" \in up
    /\ reg[r].pc = "waiting"
    /\ ~reg[r].fired
    /\ reg' = [reg EXCEPT ![r].fired = TRUE,
                          ![r].calls = Append(@, reg[r].count)]
    /\ UNCHANGED <<publisherVars, copy, ackChan, shown, up>>

Finish_GoesOn(r) ==   \* mutant
    /\ "subscriber" \in up
    /\ reg[r].pc = "reporting"
    /\ AckRace
    /\ reg' = [reg EXCEPT ![r].pc = "waiting",
                          ![r].calls = Append(@, reg[r].count)]
    /\ ackChan' = 0
    /\ UNCHANGED <<publisherVars, copy, shown>>

Finish_Registered(r) ==   \* mutant
    /\ "subscriber" \in up
    /\ reg[r].pc = "reporting"
    /\ AckRace
    /\ reg' = [reg EXCEPT ![r].pc = "done",
                          ![r].calls = Append(@, reg[r].count)]
    /\ UNCHANGED <<publisherVars, copy, ackChan, shown>>

\* The count is reached: the goroutine calls back, and returns; only then is
\* the registration under the label deleted, whichever it is.
Finish(r) ==
    /\ "subscriber" \in up
    /\ reg[r].pc = "reporting"
    /\ AckRace
    /\ reg' = [reg EXCEPT ![r].pc = "done",
                          ![r].calls = Append(@, reg[r].count)]
    /\ ackChan' = 0
    /\ UNCHANGED <<publisherVars, copy, shown>>

-----------------------------------------------------------------------------

Work ==
    \/ \E j \in Sends : EndSend(j) \/ \E s \in Subs : Publish(j, s)
    \/ \E k \in Copies : Check(k) \/ Lookup(k) \/ Hear(k) \/ Show(k)
    \/ \E r \in Regs : TimeOut(r) \/ Finish(r)

Next ==
    \/ \E s \in Subs : AddSub(s) \/ DeleteSub(s)
    \/ DeleteTopic
    \/ \E j \in Sends, c \in BOOLEAN : StartSend(j, c)
    \/ \E r \in Regs, n \in Targets : Register(r, n)
    \/ Work

Spec == Init /\ [][Next]_vars

\* Goroutines that can go on do, and the timers of callbacks fire.  Nobody has
\* to send, subscribe or register.  Each step of Work is taken a bounded number
\* of times.
FairSpec == Spec /\ WF_vars(Work)

-----------------------------------------------------------------------------
(* Properties. *)

\* A Send that returns has published to everyone who was subscribed from its
\* start to its end; it publishes to nobody who never was meanwhile, and twice
\* only to one who is deleted and added again (agent.go 402-427 iterates over
\* the map of the store without its lock, subscriber.go 35-54 writes to it).
SendComplete ==
    \A j \in Sends : send[j].pc # "none" =>
        /\ send[j].pc = "returned" => \A s \in send[j].all : send[j].sent[s] > 0
        /\ \A s \in Subs :
             /\ send[j].sent[s] > 0 => s \in send[j].some
             /\ send[j].sent[s] > 1 => s \in send[j].again

\* The count of a callback that no other runs beside includes every message it
\* waits for that was received and shown since it was registered: data hands a
\* message over before it shows it (processor.go 198-202).
CountsShown ==
    \A r \in Regs : (reg[r].pc # "none" /\ reg[r].alone) =>
        reg[r].count >= shown[r]

\* A tester reads one result per registration (send.go 161-168).  A callback
\* reports a second time only after its timer, and then its full count, and it
\* never reports a third time (mocker.go 161-177).
SecondOnlyAfterTimeout ==
    \A r \in Regs : reg[r].pc # "none" =>
        LET calls == reg[r].calls IN
        /\ Len(calls) <= 2
        /\ Len(calls) = 2 => /\ reg[r].fired
                             /\ calls[1] < reg[r].target
                             /\ calls[2] = reg[r].target

\* Every callback reports, whatever happens to its registration.
CalledBack ==
    \A r \in Regs : reg[r].pc # "none" ~>
        \/ reg[r].pc # "none" /\ reg[r].calls # <<>>
        \/ "subscriber" \notin up

\* Every message received is shown, unless a callback for the publisher reached
\* its count meanwhile: then the goroutine that data has found a channel of no
\* longer reads it or, deleted between the two reads of ackChans, the channel
\* is nil.
Shown ==
    \A k \in Copies : copy[k].pc # "none" ~>
        \/ copy[k].pc = "shown"
        \/ copy[k].pc # "none" /\ copy[k].ended
        \/ "subscriber" \notin up

=============================================================================
