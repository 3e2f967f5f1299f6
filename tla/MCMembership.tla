----------------------------- MODULE MCMembership -----------------------------
(***************************************************************************)
(* Small instances of Membership for TLC.  A behaviour follows one         *)
(* scenario, chosen at the start: `ownership' lets requests manage the     *)
(* members, `invitations' lets them invite, answer, work and delete.       *)
(***************************************************************************)
EXTENDS Membership, TLC

VARIABLE scenario

OwnershipOps  == {"remove", "leave", "changeRole", "transfer"}
InvitationOps == {"invite", "resend", "revoke", "accept", "decline", "delete", "work"}

OpsOf == [ownership |-> OwnershipOps, invitations |-> InvitationOps]

\* Nobody loses tasks where memberships do not end.
ScenarioInit ==
    /\ Init
    /\ scenario \in DOMAIN OpsOf
    /\ scenario # "ownership" => \A t \in Task : task[t].assignee = Nobody

ScenarioNext ==
    /\ Next
    /\ UNCHANGED scenario
    /\ \A r \in Request : req'[r].op \in OpsOf[scenario] \cup {"none"}

ScenarioSpec == ScenarioInit /\ [][ScenarioNext]_<<vars, scenario>>

\* Users, request slots and invitation rows are interchangeable.
Symmetry == Permutations(User) \cup Permutations(Request) \cup Permutations(Invite)
===============================================================================
