------------------------------- MODULE Requests -------------------------------
(***************************************************************************)
(* What the callers of the transport (processor.go sendAuth, sendConnect,  *)
(* sendSubscribe) may rely on: a request goes to all servers at once; it   *)
(* returns when each of them has performed it, once; and a caller that     *)
(* gives up because a server failed makes no further request.              *)
(***************************************************************************)
CONSTANTS
    Callers,   \* goroutines
    Servers    \* the listeners

VARIABLES
    waiting,   \* callers whose request has not returned
    pending,   \* per server: callers whose request it has not performed
    gone       \* callers that gave up

vars == <<waiting, pending, gone>>

Init ==
    /\ waiting = {}
    /\ pending = [s \in Servers |-> {}]
    /\ gone = {}

Ask(c) ==
    /\ c \notin waiting \cup gone
    /\ waiting' = waiting \cup {c}
    /\ \A s \in Servers : c \notin pending[s]
    /\ pending' = [s \in Servers |-> pending[s] \cup {c}]
    /\ UNCHANGED gone

Perform(s, c) ==
    /\ c \in pending[s]
    /\ pending' = [pending EXCEPT ![s] = @ \ {c}]
    /\ UNCHANGED <<waiting, gone>>

Return(c) ==
    /\ c \in waiting
    /\ \A s \in Servers : c \notin pending[s]
    /\ waiting' = waiting \ {c}
    /\ UNCHANGED <<pending, gone>>

\* A caller gives up after a server has performed its request, or between
\* requests.
GiveUp(c) ==
    /\ c \notin gone
    /\ c \in waiting => \E s \in Servers : c \notin pending[s]
    /\ waiting' = waiting \ {c}
    /\ gone' = gone \cup {c}
    /\ UNCHANGED pending

Next ==
    \E c \in Callers :
        \/ Ask(c) \/ Return(c) \/ GiveUp(c)
        \/ \E s \in Servers : Perform(s, c)

Spec == Init /\ [][Next]_vars

=============================================================================
