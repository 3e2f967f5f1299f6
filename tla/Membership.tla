------------------------------ MODULE Membership ------------------------------
(***************************************************************************)
(* The membership of one workspace: who belongs to it, in which role, the  *)
(* invitations into it, and its suspension and deletion.                   *)
(*                                                                         *)
(* Sources (under src/server/src): controllers/member.controller.ts,       *)
(* controllers/invitation.controller.ts, controllers/workspace.controller  *)
(* .ts, middlewares/workspaceAccess.middleware.ts and the workspace half   *)
(* of controllers/adminDirectory.controller.ts.                            *)
(*                                                                         *)
(* Every handler has the same shape: a middleware reads the caller's       *)
(* membership, the handler reads what it acts on and checks it, and ONE    *)
(* database transaction then writes.  Another request may run between any  *)
(* two of these steps, so a request is a small process (`req`) that        *)
(* remembers what it has read.  A transaction is one action: PostgreSQL    *)
(* holds the row locks of its conditional updates until it commits.        *)
(***************************************************************************)
EXTENDS Naturals, FiniteSets

CONSTANTS
    User,        \* accounts; a user has at most one membership row per workspace
    Request,     \* slots for HTTP requests in flight at the same time
    Invite,      \* invitation rows that may ever be created
    Task,        \* the workspace's tasks (only their assignment matters here)
    Ops,         \* the operations this instance lets requests perform
    Nobody,      \* the null user
    NoInvite     \* the null invitation

TargetOps   == {"remove", "changeRole", "transfer"}
MemberOps   == TargetOps \cup {"leave", "invite", "delete", "work"}
ManagerOps  == {"resend", "revoke"}
RespondOps  == {"accept", "decline"}
AllOps      == MemberOps \cup ManagerOps \cup RespondOps

ASSUME MembershipAssumption ==
    /\ Nobody \notin User
    /\ NoInvite \notin Invite
    /\ Ops \subseteq AllOps

VARIABLES
    role,        \* Membership.role of each user's row ("none": no row)
    status,      \* Membership.status of each user's row ("none": no row)
    workspace,   \* the Workspace row: exists, suspendedAt, deletedAt
    worked,      \* users who left a record here: a task, comment, project or change
    inv,         \* the Invitation rows
    task,        \* Task.assigneeMembershipId, whether it is open, Task.version
    req          \* the requests in flight

vars == <<role, status, workspace, worked, inv, task, req>>

-------------------------------------------------------------------------------
(* The rows *)

Roles      == {"owner", "admin", "member"}
Assignable == {"admin", "member"}         \* roles a request may ask for
Flags      == [exists : BOOLEAN, suspended : BOOLEAN, deleted : BOOLEAN]
Invitation == [status : {"unused", "pending", "accepted", "declined", "revoked"},
               to     : User \cup {Nobody},
               role   : Assignable \cup {"none"},
               live   : BOOLEAN]          \* expiresAt is still in the future
TaskRow    == [assignee : User \cup {Nobody}, open : BOOLEAN, version : Nat]

\* What a request has read so far.  `callerRole' comes from the middleware,
\* `seen' is the target's role at the time it was loaded, `role' the role asked
\* for, `plan' the outcome deletionPlan computed.
RequestState ==
    [pc : {"idle", "authorized", "loaded"}, op : AllOps \cup {"none"},
     caller : User \cup {Nobody}, callerRole : Roles \cup {"none"},
     target : User \cup {Nobody}, seen : Roles \cup {"none"},
     role : Assignable \cup {"none"}, invite : Invite \cup {NoInvite},
     plan : {"none", "soft", "permanent"}]

Idle == [pc |-> "idle", op |-> "none", caller |-> Nobody, callerRole |-> "none",
         target |-> Nobody, seen |-> "none", role |-> "none",
         invite |-> NoInvite, plan |-> "none"]

UnusedInvite == [status |-> "unused", to |-> Nobody, role |-> "none", live |-> FALSE]

\* A request in flight knows its caller, and the target or invitation it loaded.
Informed(q) ==
    /\ q # Idle => q.caller \in User
    /\ (q.pc = "loaded" /\ q.op \in TargetOps) => q.target \in User
    /\ (q.pc = "loaded" /\ q.op \in ManagerOps \cup RespondOps) => q.invite \in Invite

TypeOK ==
    /\ role \in [User -> Roles \cup {"none"}]
    /\ status \in [User -> {"none", "active", "removed"}]
    /\ workspace \in Flags
    /\ worked \in SUBSET User
    /\ inv \in [Invite -> Invitation]
    /\ task \in [Task -> TaskRow]
    /\ req \in [Request -> RequestState]
    /\ \A r \in Request : Informed(req[r])

Active      == {u \in User : status[u] = "active"}
ActiveOwner == {u \in Active : role[u] = "owner"}

\* A workspace as createWorkspace leaves it plus any members who joined since,
\* or joined and left, with open tasks assigned to some of those who stayed.
Init ==
    /\ role \in [User -> {"owner", "admin", "member", "none"}]
    /\ status \in [User -> {"none", "active", "removed"}]
    /\ \A u \in User : role[u] = "none" <=> status[u] = "none"
    /\ \E o \in User : status[o] = "active" /\ \A u \in User : role[u] = "owner" <=> u = o
    /\ workspace = [exists |-> TRUE, suspended |-> FALSE, deleted |-> FALSE]
    /\ worked = {u \in User : role[u] = "owner"}
    /\ inv = [i \in Invite |-> UnusedInvite]
    /\ task \in [Task -> {[assignee |-> u, open |-> TRUE, version |-> 0] :
                            u \in Active \cup {Nobody}}]
    /\ req = [r \in Request |-> Idle]

-------------------------------------------------------------------------------
(* Access: findActiveMembership, requireActiveMembership and the role gates *)

CanEnter(u) ==
    /\ workspace.exists /\ ~workspace.deleted /\ ~workspace.suspended
    /\ status[u] = "active"

\* requireWorkspaceRole(...) as workspaceRoute.ts mounts it for each operation.
RouteRoles(op) ==
    CASE op \in {"changeRole", "transfer", "delete"} -> {"owner"}
      [] op \in {"remove", "invite"}                 -> {"owner", "admin"}
      [] OTHER                                       -> Roles

InvitableRoles(inviterRole) ==
    CASE inviterRole = "owner" -> Assignable
      [] inviterRole = "admin" -> {"member"}
      [] OTHER                 -> {}

\* requireWorkspaceMember + requireWorkspaceRole, and leaveWorkspace's own test
\* of the role the middleware read.
Authorize(r, u, op) ==
    /\ req[r] = Idle
    /\ op \in Ops \cap MemberOps
    /\ CanEnter(u)
    /\ role[u] \in RouteRoles(op)
    /\ op = "leave" => role[u] # "owner"
    /\ req' = [req EXCEPT ![r] = [Idle EXCEPT !.pc = "authorized", !.op = op,
                                              !.caller = u, !.callerRole = role[u]]]
    /\ UNCHANGED <<role, status, workspace, worked, inv, task>>

\* The request ends without effect: a check failed, its conditional update
\* matched no row and the transaction rolled back, or the process died.
Abort(r) ==
    /\ req[r] # Idle
    /\ req' = [req EXCEPT ![r] = Idle]
    /\ UNCHANGED <<role, status, workspace, worked, inv, task>>

-------------------------------------------------------------------------------
(* Members: member.controller.ts *)

\* Mutant: the handlers forget that the Owner is protected.
TargetAllowedForgetsOwner(op, caller, callerRole, t) ==
    /\ op \in {"remove", "transfer"} => t # caller
    /\ (op = "remove" /\ callerRole = "admin") => role[t] = "member"

TargetAllowed(op, caller, callerRole, t) ==
    CASE op = "remove"     -> /\ t # caller
                              /\ role[t] # "owner"
                              /\ callerRole = "admin" => role[t] = "member"
      [] op = "changeRole" -> role[t] # "owner"
      [] op = "transfer"   -> t # caller

\* Mutant: the loaded row is checked and then not kept.
LoadTargetForgotten(r, t, newRole) ==
    LET q == req[r] IN
    /\ q.pc = "authorized" /\ q.op \in TargetOps
    /\ status[t] = "active"
    /\ TargetAllowed(q.op, q.caller, q.callerRole, t)
    /\ newRole \in (IF q.op = "changeRole" THEN Assignable ELSE {"none"})
    /\ req' = [req EXCEPT ![r] = [q EXCEPT !.pc = "loaded", !.seen = role[t],
                                           !.role = newRole]]
    /\ UNCHANGED <<role, status, workspace, worked, inv, task>>

\* loadTargetMembership and the checks each handler makes on the loaded row.
LoadTarget(r, t, newRole) ==
    LET q == req[r] IN
    /\ q.pc = "authorized" /\ q.op \in TargetOps
    /\ status[t] = "active"
    /\ TargetAllowed(q.op, q.caller, q.callerRole, t)
    /\ newRole \in (IF q.op = "changeRole" THEN Assignable ELSE {"none"})
    /\ req' = [req EXCEPT ![r] = [q EXCEPT !.pc = "loaded", !.target = t,
                                           !.seen = role[t], !.role = newRole]]
    /\ UNCHANGED <<role, status, workspace, worked, inv, task>>

\* The one path for "remove" and "leave": open tasks of the departing member
\* become unassigned in the same transaction, with a new version.
EndMembership(u) ==
    /\ status[u] = "active"
    /\ status' = [status EXCEPT ![u] = "removed"]
    /\ task' = [t \in Task |->
                  IF task[t].assignee = u /\ task[t].open
                  THEN [task[t] EXCEPT !.assignee = Nobody, !.version = task[t].version + 1]
                  ELSE task[t]]
    /\ UNCHANGED <<role, workspace, worked, inv>>

RemoveMember(r) ==
    /\ req[r].pc = "loaded" /\ req[r].op = "remove"
    /\ EndMembership(req[r].target)
    /\ req' = [req EXCEPT ![r] = Idle]

LeaveWorkspace(r) ==
    /\ req[r].pc = "authorized" /\ req[r].op = "leave"
    /\ EndMembership(req[r].caller)
    /\ req' = [req EXCEPT ![r] = Idle]

\* membership.update by id: it tests neither the row's role nor its status.
ChangeMemberRole(r) ==
    /\ req[r].pc = "loaded" /\ req[r].op = "changeRole"
    /\ status[req[r].target] # "none"
    /\ role' = [role EXCEPT ![req[r].target] = req[r].role]
    /\ req' = [req EXCEPT ![r] = Idle]
    /\ UNCHANGED <<status, workspace, worked, inv, task>>

\* Mutant: the demotion does not test that the caller is still the Owner.
TransferUnconditionally(r) ==
    LET caller == req[r].caller
        target == req[r].target
    IN
    /\ req[r].pc = "loaded" /\ req[r].op = "transfer"
    /\ status[target] = "active"
    /\ role' = [role EXCEPT ![caller] = "admin", ![target] = "owner"]
    /\ req' = [req EXCEPT ![r] = Idle]
    /\ UNCHANGED <<status, workspace, worked, inv, task>>

\* Demote the caller, then promote the target, each conditionally.  The
\* "ownership.transferred" history entry counts as the caller's record here.
TransferOwnership(r) ==
    LET caller == req[r].caller
        target == req[r].target
    IN
    /\ req[r].pc = "loaded" /\ req[r].op = "transfer"
    /\ role[caller] = "owner" /\ status[caller] = "active"
    /\ status[target] = "active"
    /\ role' = [role EXCEPT ![caller] = "admin", ![target] = "owner"]
    /\ worked' = worked \cup {caller}
    /\ req' = [req EXCEPT ![r] = Idle]
    /\ UNCHANGED <<status, workspace, inv, task>>

-------------------------------------------------------------------------------
(* Invitations: invitation.controller.ts *)

PendingFor(e) == {i \in Invite : inv[i].status = "pending" /\ inv[i].to = e}

\* createInvitation reads: the address is not an active member's and has no
\* pending invitation.
CheckInvitee(r, e, newRole) ==
    LET q == req[r] IN
    /\ q.pc = "authorized" /\ q.op = "invite"
    /\ newRole \in InvitableRoles(q.callerRole)
    /\ status[e] # "active"
    /\ PendingFor(e) = {}
    /\ req' = [req EXCEPT ![r] = [q EXCEPT !.pc = "loaded", !.target = e, !.role = newRole]]
    /\ UNCHANGED <<role, status, workspace, worked, inv, task>>

\* The partial unique index Invitation_one_pending_per_email.
PendingIndexAllows(e) == PendingFor(e) = {}

CreateInvitation(r, i) ==
    LET q == req[r] IN
    /\ q.pc = "loaded" /\ q.op = "invite"
    /\ workspace.exists
    /\ inv[i] = UnusedInvite
    /\ PendingIndexAllows(q.target)
    /\ inv' = [inv EXCEPT ![i] = [status |-> "pending", to |-> q.target,
                                  role |-> q.role, live |-> TRUE]]
    /\ req' = [req EXCEPT ![r] = Idle]
    /\ UNCHANGED <<role, status, workspace, worked, task>>

\* loadInvitationForManager; resend also tests the status it read.
LoadForManager(r, u, i, op) ==
    /\ req[r] = Idle
    /\ op \in Ops \cap ManagerOps
    /\ inv[i].status # "unused"
    /\ CanEnter(u)
    /\ inv[i].role \in InvitableRoles(role[u])
    /\ op = "resend" => inv[i].status = "pending"
    /\ req' = [req EXCEPT ![r] = [Idle EXCEPT !.pc = "loaded", !.op = op, !.caller = u,
                                              !.callerRole = role[u], !.invite = i]]
    /\ UNCHANGED <<role, status, workspace, worked, inv, task>>

\* issueAndSendInvitation renews the expiry by id, whatever the status is now.
ResendInvitation(r) ==
    LET i == req[r].invite IN
    /\ req[r].pc = "loaded" /\ req[r].op = "resend"
    /\ inv[i].status # "unused"
    /\ inv' = [inv EXCEPT ![i].live = TRUE]
    /\ req' = [req EXCEPT ![r] = Idle]
    /\ UNCHANGED <<role, status, workspace, worked, task>>

\* Mutant: revoke updates by id, whatever the status is now.
RevokeUnconditionally(r) ==
    /\ req[r].pc = "loaded" /\ req[r].op = "revoke"
    /\ inv' = [inv EXCEPT ![req[r].invite].status = "revoked"]
    /\ req' = [req EXCEPT ![r] = Idle]
    /\ UNCHANGED <<role, status, workspace, worked, task>>

RevokeInvitation(r) ==
    LET i == req[r].invite IN
    /\ req[r].pc = "loaded" /\ req[r].op = "revoke"
    /\ inv[i].status = "pending"
    /\ inv' = [inv EXCEPT ![i].status = "revoked"]
    /\ req' = [req EXCEPT ![r] = Idle]
    /\ UNCHANGED <<role, status, workspace, worked, task>>

\* loadInvitationForRecipient; accept also reads the workspace, outside its
\* transaction.
LoadForRecipient(r, u, i, op) ==
    /\ req[r] = Idle
    /\ op \in Ops \cap RespondOps
    /\ inv[i].status = "pending" /\ inv[i].live /\ inv[i].to = u
    /\ op = "accept" => ~workspace.suspended /\ ~workspace.deleted
    /\ req' = [req EXCEPT ![r] = [Idle EXCEPT !.pc = "loaded", !.op = op,
                                              !.caller = u, !.invite = i]]
    /\ UNCHANGED <<role, status, workspace, worked, inv, task>>

\* Mutant: the update trusts the status the handler read before.
ConsumableOnceRead(i) == inv[i].status # "unused"

\* The conditional update that consumes an invitation.
Consumable(i) == inv[i].status = "pending" /\ inv[i].live

\* Consume the invitation and create or reactivate the membership.
AcceptInvitation(r) ==
    LET u == req[r].caller
        i == req[r].invite
    IN
    /\ req[r].pc = "loaded" /\ req[r].op = "accept"
    /\ Consumable(i)
    /\ status[u] # "active"
    /\ inv' = [inv EXCEPT ![i].status = "accepted"]
    /\ status' = [status EXCEPT ![u] = "active"]
    /\ role' = [role EXCEPT ![u] = inv[i].role]
    /\ req' = [req EXCEPT ![r] = Idle]
    /\ UNCHANGED <<workspace, worked, task>>

DeclineInvitation(r) ==
    LET i == req[r].invite IN
    /\ req[r].pc = "loaded" /\ req[r].op = "decline"
    /\ inv[i].status = "pending"
    /\ inv' = [inv EXCEPT ![i].status = "declined"]
    /\ req' = [req EXCEPT ![r] = Idle]
    /\ UNCHANGED <<role, status, workspace, worked, task>>

\* Seven days pass.
Expire(i) ==
    /\ inv[i].status = "pending" /\ inv[i].live
    /\ inv' = [inv EXCEPT ![i].live = FALSE]
    /\ UNCHANGED <<role, status, workspace, worked, task, req>>

-------------------------------------------------------------------------------
(* The workspace itself: workspace.controller.ts, adminDirectory.controller.ts *)

\* A member leaves a record: creates a task, a comment, a project...  The insert
\* needs the workspace row (foreign key) and nothing else.
RecordWork(r) ==
    /\ req[r].pc = "authorized" /\ req[r].op = "work"
    /\ workspace.exists
    /\ worked' = worked \cup {req[r].caller}
    /\ req' = [req EXCEPT ![r] = Idle]
    /\ UNCHANGED <<role, status, workspace, inv, task>>

\* Mutant: only the work of current members counts.
PlanDeletionByMembers(r) ==
    LET q == req[r] IN
    /\ q.pc = "authorized" /\ q.op = "delete"
    /\ req' = [req EXCEPT ![r] = [q EXCEPT !.pc = "loaded",
                                    !.plan = IF (worked \cap Active) \ {q.caller} # {}
                                             THEN "soft" ELSE "permanent"]]
    /\ UNCHANGED <<role, status, workspace, worked, inv, task>>

\* deletionPlan: reads who else has records here, outside the transaction.
PlanDeletion(r) ==
    LET q == req[r] IN
    /\ q.pc = "authorized" /\ q.op = "delete"
    /\ req' = [req EXCEPT ![r] = [q EXCEPT !.pc = "loaded",
                                    !.plan = IF worked \ {q.caller} # {}
                                             THEN "soft" ELSE "permanent"]]
    /\ UNCHANGED <<role, status, workspace, worked, inv, task>>

\* workspace.delete cascades to every row of the workspace.
DeletePermanently(r) ==
    /\ req[r].pc = "loaded" /\ req[r].op = "delete" /\ req[r].plan = "permanent"
    /\ workspace.exists
    /\ workspace' = [exists |-> FALSE, suspended |-> FALSE, deleted |-> FALSE]
    /\ role' = [u \in User |-> "none"]
    /\ status' = [u \in User |-> "none"]
    /\ worked' = {}
    /\ inv' = [i \in Invite |-> UnusedInvite]
    /\ task' = [t \in Task |-> [assignee |-> Nobody, open |-> FALSE, version |-> 0]]
    /\ req' = [req EXCEPT ![r] = Idle]

\* Close the workspace and revoke every pending invitation with it.
DeleteSoftly(r) ==
    /\ req[r].pc = "loaded" /\ req[r].op = "delete" /\ req[r].plan = "soft"
    /\ workspace.exists /\ ~workspace.deleted
    /\ workspace' = [workspace EXCEPT !.deleted = TRUE]
    /\ inv' = [i \in Invite |-> IF inv[i].status = "pending"
                                THEN [inv[i] EXCEPT !.status = "revoked"]
                                ELSE inv[i]]
    /\ worked' = worked \cup {req[r].caller}
    /\ req' = [req EXCEPT ![r] = Idle]
    /\ UNCHANGED <<role, status, task>>

SuspendWorkspace ==
    /\ workspace.exists /\ ~workspace.deleted /\ ~workspace.suspended
    /\ workspace' = [workspace EXCEPT !.suspended = TRUE]
    /\ UNCHANGED <<role, status, worked, inv, task, req>>

RestoreWorkspace ==
    /\ workspace.suspended
    /\ workspace' = [workspace EXCEPT !.suspended = FALSE]
    /\ UNCHANGED <<role, status, worked, inv, task, req>>

\* createWorkspace: the workspace and its Owner in one transaction.  A new row
\* has new ids, so no request in flight refers to it.
CreateWorkspace(u) ==
    /\ ~workspace.exists
    /\ \A r \in Request : req[r] = Idle
    /\ workspace' = [exists |-> TRUE, suspended |-> FALSE, deleted |-> FALSE]
    /\ role' = [role EXCEPT ![u] = "owner"]
    /\ status' = [status EXCEPT ![u] = "active"]
    /\ worked' = {u}
    /\ UNCHANGED <<inv, task, req>>

-------------------------------------------------------------------------------

RequestStep(r) ==
    \/ \E u \in User, op \in MemberOps : Authorize(r, u, op)
    \/ \E t \in User, newRole \in Assignable \cup {"none"} : LoadTarget(r, t, newRole)
    \/ RemoveMember(r)
    \/ LeaveWorkspace(r)
    \/ ChangeMemberRole(r)
    \/ TransferOwnership(r)
    \/ \E e \in User, newRole \in Assignable : CheckInvitee(r, e, newRole)
    \/ \E i \in Invite : CreateInvitation(r, i)
    \/ \E u \in User, i \in Invite, op \in ManagerOps : LoadForManager(r, u, i, op)
    \/ ResendInvitation(r)
    \/ RevokeInvitation(r)
    \/ \E u \in User, i \in Invite, op \in RespondOps : LoadForRecipient(r, u, i, op)
    \/ AcceptInvitation(r)
    \/ DeclineInvitation(r)
    \/ RecordWork(r)
    \/ PlanDeletion(r)
    \/ DeletePermanently(r)
    \/ DeleteSoftly(r)
    \/ Abort(r)

Next ==
    \/ \E r \in Request : RequestStep(r)
    \/ \E i \in Invite : Expire(i)
    \/ SuspendWorkspace
    \/ RestoreWorkspace
    \/ \E u \in User : CreateWorkspace(u)

Spec == Init /\ [][Next]_vars
-------------------------------------------------------------------------------
(* What must hold *)

\* At no time do two active members both hold the Owner role: two transfers
\* sent at once by the same Owner hand the workspace to one person only
\* (transferOwnership demotes before it promotes, both conditionally).
AtMostOneOwner == \A u, v \in ActiveOwner : u = v

\* A workspace always has an active Owner, so it can always be managed and
\* deleted (the schema leaves "at least one" to the service layer).
AlwaysAnOwner == workspace.exists => ActiveOwner # {}

\* A remove, role change or leave whose victim was not the Owner when the
\* request read its role, and is the Owner now.
OverlapsATransfer(q) ==
    \/ /\ q.pc = "loaded" /\ q.op \in {"remove", "changeRole"}
       /\ q.seen # "owner" /\ q.target \in ActiveOwner
    \/ /\ q.pc = "authorized" /\ q.op = "leave"
       /\ q.callerRole # "owner" /\ q.caller \in ActiveOwner

\* The only step that can leave an existing workspace without an Owner is a
\* remove, role change or leave that read its victim's role before a transfer
\* made that victim the Owner; every other interleaving keeps an Owner.
OwnerLostOnlyToStaleRequest ==
    [][(workspace'.exists /\ ActiveOwner # {} /\ ActiveOwner' = {})
         => \E r \in Request : OverlapsATransfer(req[r]) /\ req'[r] = Idle]_vars

\* Nobody becomes an active member except by consuming a pending, unexpired
\* invitation addressed to them, in the role it offers, or by creating the
\* workspace; two accepts, or an accept racing a revoke or a decline, add at
\* most one membership (SRS AC02).  None joins a workspace its Owner has deleted,
\* not even by an accept that read it as open: the deletion revokes what the
\* accept must consume.
JoinOnlyByInvitation ==
    [][\A u \in User :
         (workspace.exists /\ status[u] # "active" /\ status'[u] = "active")
         => /\ ~workspace.deleted
            /\ \E i \in Invite :
                 /\ inv[i].status = "pending" /\ inv[i].live /\ inv[i].to = u
                 /\ inv'[i].status = "accepted" /\ role'[u] = inv[i].role]_vars

\* An invitation is answered once: whatever accepts, declines, revocations and
\* resends race, the first to commit decides and the others change nothing.
InvitationSettlesOnce ==
    [][\A i \in Invite :
         (workspace'.exists /\ inv[i].status \in {"accepted", "declined", "revoked"})
         => inv'[i].status = inv[i].status]_vars

\* A workspace is destroyed only when nobody but the person deleting it has
\* left a record in it; otherwise their work is kept by a soft deletion.
DeletionSparesOthersWork ==
    [][(workspace.exists /\ ~workspace'.exists)
         => \E r \in Request : req[r].op = "delete" /\ worked \subseteq {req[r].caller}]_vars
===============================================================================
