------------------------------ MODULE GroupViews ------------------------------
(***************************************************************************)
(* What a group promises its members (virtual synchrony, as cli/runner.go  *)
(* and pubsub/validator name it): membership changes one agent at a time,  *)
(* every member installs the views in the order of the changes, and no     *)
(* change is made before all members have installed the one before.        *)
(***************************************************************************)
EXTENDS Naturals

CONSTANTS
    Agents,     \* labels
    MaxCalls    \* incarnations of an agent: 1..MaxCalls

VARIABLES
    members,    \* per agent: the incarnation that is a member, 0 when none is
    view        \* per agent: the members it knows, as a map of the same kind

vars == <<members, view>>

None == [a \in Agents |-> 0]
Member(a) == members[a] > 0

Init ==
    /\ members = None
    /\ view = [a \in Agents |-> None]

\* Every member has installed the last change.
Synchronous == \A a \in Agents : Member(a) => view[a] = members

\* An agent enters, knowing all members, or replaces its own incarnation.
Enter(a) ==
    /\ Synchronous
    /\ \E n \in 1..MaxCalls : members' = [members EXCEPT ![a] = n]
    /\ view' = [view EXCEPT ![a] = members']

\* A member leaves and forgets the group.
Exit(a) ==
    /\ Member(a) /\ Synchronous
    /\ members' = [members EXCEPT ![a] = 0]
    /\ view' = [view EXCEPT ![a] = None]

\* A member learns of the last change.
Install(a) ==
    /\ Member(a) /\ view[a] # members
    /\ view' = [view EXCEPT ![a] = members]
    /\ UNCHANGED members

Next == \E a \in Agents : Enter(a) \/ Exit(a) \/ Install(a)

\* What members may see.
Steps == Init /\ [][Next]_vars

\* Every change is installed by all members in the end.
Spec == Steps /\ \A a \in Agents : WF_vars(Install(a))

=============================================================================
