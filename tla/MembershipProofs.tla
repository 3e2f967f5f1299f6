--------------------------- MODULE MembershipProofs ---------------------------
(***************************************************************************)
(* Proofs about Membership, for every set of users, requests, invitations, *)
(* tasks and operations.                                                   *)
(***************************************************************************)
EXTENDS Membership, TLAPS

-------------------------------------------------------------------------------
(* Records of requests *)

LEMMA IdleType == Idle \in RequestState
BY DEF Idle, RequestState

\* A request that starts: everything it has not read yet is null.
LEMMA StartedType ==
  ASSUME NEW pc \in {"authorized", "loaded"}, NEW op \in AllOps, NEW u \in User,
         NEW seen \in Roles \cup {"none"}, NEW i \in Invite \cup {NoInvite}
  PROVE  /\ [Idle EXCEPT !.pc = pc, !.op = op, !.caller = u, !.callerRole = seen]
              \in RequestState
         /\ [Idle EXCEPT !.pc = pc, !.op = op, !.caller = u, !.callerRole = seen,
                         !.invite = i] \in RequestState
         /\ [Idle EXCEPT !.pc = pc, !.op = op, !.caller = u, !.invite = i] \in RequestState
BY DEF Idle, RequestState

\* A request that reads what it acts on.
LEMMA LoadedType ==
  ASSUME NEW q \in RequestState, NEW u \in User, NEW seen \in Roles \cup {"none"},
         NEW asked \in Assignable \cup {"none"}
  PROVE  /\ [q EXCEPT !.pc = "loaded", !.target = u, !.seen = seen, !.role = asked]
              \in RequestState
         /\ [q EXCEPT !.pc = "loaded", !.target = u, !.role = asked] \in RequestState
<1>1. [q EXCEPT !.pc = "loaded", !.target = u, !.seen = seen, !.role = asked] \in RequestState
  BY DEF RequestState
<1>2. [q EXCEPT !.pc = "loaded", !.target = u, !.role = asked] \in RequestState
  BY DEF RequestState
<1> QED
  BY <1>1, <1>2

LEMMA PlannedType ==
  ASSUME NEW q \in RequestState, NEW plan \in {"soft", "permanent"}
  PROVE  [q EXCEPT !.pc = "loaded", !.plan = plan] \in RequestState
BY DEF RequestState

\* What a request knows is well typed.
LEMMA RequestFields ==
  ASSUME NEW q \in RequestState
  PROVE  /\ q.caller \in User \cup {Nobody} /\ q.target \in User \cup {Nobody}
         /\ q.role \in Assignable \cup {"none"} /\ q.invite \in Invite \cup {NoInvite}
BY DEF RequestState

-------------------------------------------------------------------------------
(* Type correctness *)

LEMMA InitType == Init => TypeOK
<1> SUFFICES ASSUME Init PROVE TypeOK
  OBVIOUS
<1>1. role \in [User -> Roles \cup {"none"}]
  BY DEF Init, Roles
<1>2. status \in [User -> {"none", "active", "removed"}]
  BY DEF Init
<1>3. workspace \in Flags /\ worked \in SUBSET User
  BY DEF Init, Flags
<1>4. inv \in [Invite -> Invitation]
  BY DEF Init, UnusedInvite, Invitation
<1>5. task \in [Task -> TaskRow]
  <2>1. \A u \in User \cup {Nobody} :
           [assignee |-> u, open |-> TRUE, version |-> 0] \in TaskRow
    BY DEF TaskRow
  <2>2. {[assignee |-> u, open |-> TRUE, version |-> 0] : u \in Active \cup {Nobody}}
           \subseteq TaskRow
    BY <2>1 DEF Active
  <2> QED
    BY <2>2 DEF Init
<1>6. req \in [Request -> RequestState]
  BY IdleType DEF Init
<1>7. \A r \in Request : Informed(req[r])
  BY DEF Init, Idle, Informed
<1> QED
  BY <1>1, <1>2, <1>3, <1>4, <1>5, <1>6, <1>7 DEF TypeOK

LEMMA UpdateRequest ==
  ASSUME TypeOK, NEW r \in Request, NEW q \in RequestState, Informed(q),
         req' = [req EXCEPT ![r] = q]
  PROVE  /\ req' \in [Request -> RequestState]
         /\ \A s \in Request : Informed(req'[s])
BY DEF TypeOK

LEMMA FinishRequest ==
  ASSUME TypeOK, NEW r \in Request, req' = [req EXCEPT ![r] = Idle]
  PROVE  /\ req' \in [Request -> RequestState]
         /\ \A s \in Request : Informed(req'[s])
<1>1. Informed(Idle)
  BY DEF Informed, Idle
<1> QED
  BY <1>1, IdleType, UpdateRequest

\* Reading steps change nothing but the request that reads.
LEMMA ReadType ==
  ASSUME TypeOK, NEW r \in Request, NEW q \in RequestState, Informed(q),
         req' = [req EXCEPT ![r] = q],
         UNCHANGED <<role, status, workspace, worked, inv, task>>
  PROVE  TypeOK'
<1>1. req' \in [Request -> RequestState] /\ \A s \in Request : Informed(req'[s])
  BY UpdateRequest
<1> QED
  BY <1>1 DEF TypeOK

LEMMA ReadingStepsType ==
  ASSUME TypeOK, NEW r \in Request
  PROVE  /\ \A u \in User, op \in MemberOps : Authorize(r, u, op) => TypeOK'
         /\ \A t \in User, newRole \in Assignable \cup {"none"} : LoadTarget(r, t, newRole) => TypeOK'
         /\ \A e \in User, newRole \in Assignable : CheckInvitee(r, e, newRole) => TypeOK'
         /\ \A u \in User, i \in Invite, op \in ManagerOps :
               LoadForManager(r, u, i, op) => TypeOK'
         /\ \A u \in User, i \in Invite, op \in RespondOps :
               LoadForRecipient(r, u, i, op) => TypeOK'
         /\ PlanDeletion(r) => TypeOK'
         /\ Abort(r) => TypeOK'
<1>0. /\ req[r] \in RequestState /\ Informed(req[r])
      /\ \A u \in User : role[u] \in Roles \cup {"none"}
  BY DEF TypeOK
<1>1. ASSUME NEW u \in User, NEW op \in MemberOps, Authorize(r, u, op) PROVE TypeOK'
  <2> DEFINE q == [Idle EXCEPT !.pc = "authorized", !.op = op, !.caller = u,
                               !.callerRole = role[u]]
  <2>1. q \in RequestState
    BY <1>0, StartedType DEF AllOps
  <2>2. Informed(q)
    BY DEF Informed, Idle
  <2>3. req' = [req EXCEPT ![r] = q] /\ UNCHANGED <<role, status, workspace, worked, inv, task>>
    BY <1>1 DEF Authorize
  <2> QED
    BY <2>1, <2>2, <2>3, ReadType
<1>2. ASSUME NEW t \in User, NEW newRole \in Assignable \cup {"none"}, LoadTarget(r, t, newRole)
      PROVE TypeOK'
  <2> DEFINE q == [req[r] EXCEPT !.pc = "loaded", !.target = t, !.seen = role[t],
                                 !.role = newRole]
  <2>1. q \in RequestState
    BY <1>0, LoadedType
  <2>2. req[r] # Idle
    BY <1>2 DEF LoadTarget, Idle
  <2>3. q.caller = req[r].caller /\ q.target = t
    BY <1>0 DEF RequestState
  <2>6. req[r].op \in TargetOps /\ q.op = req[r].op
    BY <1>0, <1>2 DEF LoadTarget, RequestState
  <2>4. Informed(q)
    BY <1>0, <2>2, <2>3, <2>6 DEF Informed, TargetOps, ManagerOps, RespondOps
  <2>5. req' = [req EXCEPT ![r] = q] /\ UNCHANGED <<role, status, workspace, worked, inv, task>>
    BY <1>2 DEF LoadTarget
  <2> QED
    BY <2>1, <2>4, <2>5, ReadType
<1>3. ASSUME NEW e \in User, NEW newRole \in Assignable, CheckInvitee(r, e, newRole) PROVE TypeOK'
  <2> DEFINE q == [req[r] EXCEPT !.pc = "loaded", !.target = e, !.role = newRole]
  <2>1. q \in RequestState
    BY <1>0, LoadedType
  <2>2. req[r] # Idle
    BY <1>3 DEF CheckInvitee, Idle
  <2>3. q.caller = req[r].caller /\ q.target = e
    BY <1>0 DEF RequestState
  <2>6. q.op = "invite"
    BY <1>0, <1>3 DEF CheckInvitee, RequestState
  <2>4. Informed(q)
    BY <1>0, <2>2, <2>3, <2>6 DEF Informed, TargetOps, ManagerOps, RespondOps
  <2>5. req' = [req EXCEPT ![r] = q] /\ UNCHANGED <<role, status, workspace, worked, inv, task>>
    BY <1>3 DEF CheckInvitee
  <2> QED
    BY <2>1, <2>4, <2>5, ReadType
<1>4. ASSUME NEW u \in User, NEW i \in Invite, NEW op \in ManagerOps, LoadForManager(r, u, i, op)
      PROVE TypeOK'
  <2> DEFINE q == [Idle EXCEPT !.pc = "loaded", !.op = op, !.caller = u,
                               !.callerRole = role[u], !.invite = i]
  <2>1. q \in RequestState
    BY <1>0, StartedType DEF AllOps
  <2>2. Informed(q)
    BY DEF Informed, Idle, ManagerOps, TargetOps
  <2>3. req' = [req EXCEPT ![r] = q] /\ UNCHANGED <<role, status, workspace, worked, inv, task>>
    BY <1>4 DEF LoadForManager
  <2> QED
    BY <2>1, <2>2, <2>3, ReadType
<1>5. ASSUME NEW u \in User, NEW i \in Invite, NEW op \in RespondOps, LoadForRecipient(r, u, i, op)
      PROVE TypeOK'
  <2> DEFINE q == [Idle EXCEPT !.pc = "loaded", !.op = op, !.caller = u, !.invite = i]
  <2>1. q \in RequestState
    BY StartedType DEF AllOps
  <2>2. Informed(q)
    BY DEF Informed, Idle, RespondOps, TargetOps
  <2>3. req' = [req EXCEPT ![r] = q] /\ UNCHANGED <<role, status, workspace, worked, inv, task>>
    BY <1>5 DEF LoadForRecipient
  <2> QED
    BY <2>1, <2>2, <2>3, ReadType
<1>6. ASSUME PlanDeletion(r) PROVE TypeOK'
  <2> DEFINE plan == IF worked \ {req[r].caller} # {} THEN "soft" ELSE "permanent"
             q == [req[r] EXCEPT !.pc = "loaded", !.plan = plan]
  <2>0. plan \in {"soft", "permanent"}
    OBVIOUS
  <2>1. q \in RequestState
    <3> HIDE DEF plan
    <3> QED  BY <1>0, <2>0, PlannedType
  <2>2. req[r] # Idle /\ req[r].op = "delete"
    BY <1>6 DEF PlanDeletion, Idle
  <2>3. q.caller = req[r].caller /\ q.op = "delete"
    BY <1>0, <2>2 DEF RequestState
  <2>4. Informed(q)
    BY <1>0, <2>2, <2>3 DEF Informed, TargetOps, ManagerOps, RespondOps
  <2>5. req' = [req EXCEPT ![r] = q] /\ UNCHANGED <<role, status, workspace, worked, inv, task>>
    BY <1>6 DEF PlanDeletion
  <2> QED
    BY <2>1, <2>4, <2>5, ReadType
<1>7. ASSUME Abort(r) PROVE TypeOK'
  <2>1. Informed(Idle)
    BY DEF Informed, Idle
  <2> QED
    BY <1>7, <2>1, IdleType, ReadType DEF Abort
<1> QED
  BY <1>1, <1>2, <1>3, <1>4, <1>5, <1>6, <1>7

\* A transaction leaves its request idle; what it writes must be well typed.
LEMMA CommitType ==
  ASSUME TypeOK, NEW r \in Request, req' = [req EXCEPT ![r] = Idle],
         role' \in [User -> Roles \cup {"none"}],
         status' \in [User -> {"none", "active", "removed"}],
         workspace' \in Flags, worked' \in SUBSET User,
         inv' \in [Invite -> Invitation], task' \in [Task -> TaskRow]
  PROVE  TypeOK'
<1>1. req' \in [Request -> RequestState] /\ \A s \in Request : Informed(req'[s])
  BY FinishRequest
<1> QED
  BY <1>1 DEF TypeOK

LEMMA EndMembershipType ==
  ASSUME TypeOK, NEW u, EndMembership(u)
  PROVE  /\ status' \in [User -> {"none", "active", "removed"}]
         /\ task' \in [Task -> TaskRow]
<1>1. ASSUME NEW t \in Task
      PROVE  [task[t] EXCEPT !.assignee = Nobody, !.version = @ + 1] \in TaskRow
    <2>1. task[t] \in TaskRow
    BY DEF TypeOK
  <2>2. task[t].version + 1 \in Nat
    BY <2>1 DEF TaskRow
  <2>3. ASSUME NEW row \in TaskRow, NEW n \in Nat
        PROVE  [row EXCEPT !.assignee = Nobody, !.version = n] \in TaskRow
    BY DEF TaskRow
  <2> QED
    BY <2>1, <2>2, <2>3
<1>2. task' \in [Task -> TaskRow]
  BY <1>1 DEF EndMembership, TypeOK
<1>3. status' \in [User -> {"none", "active", "removed"}]
  BY DEF EndMembership, TypeOK
<1> QED
  BY <1>2, <1>3

LEMMA MemberCommitsType ==
  ASSUME TypeOK, NEW r \in Request,
         RemoveMember(r) \/ LeaveWorkspace(r) \/ ChangeMemberRole(r) \/ TransferOwnership(r)
  PROVE  TypeOK'
<1>0. /\ req[r] \in RequestState /\ Informed(req[r])
      /\ role \in [User -> Roles \cup {"none"}]
      /\ status \in [User -> {"none", "active", "removed"}]
      /\ workspace \in Flags /\ worked \in SUBSET User
      /\ inv \in [Invite -> Invitation] /\ task \in [Task -> TaskRow]
  BY DEF TypeOK
<1>1. CASE RemoveMember(r) \/ LeaveWorkspace(r)
  <2>1. PICK u : EndMembership(u)
    BY <1>1 DEF RemoveMember, LeaveWorkspace
  <2>2. req' = [req EXCEPT ![r] = Idle]
    BY <1>1 DEF RemoveMember, LeaveWorkspace
  <2>3. UNCHANGED <<role, workspace, worked, inv>>
    BY <2>1 DEF EndMembership
  <2> QED
    BY <1>0, <2>1, <2>2, <2>3, EndMembershipType, CommitType
<1>2. CASE ChangeMemberRole(r)
  <2>1. role' \in [User -> Roles \cup {"none"}]
    BY <1>0, <1>2, RequestFields DEF ChangeMemberRole, Assignable, Roles
  <2> QED
    BY <1>0, <1>2, <2>1, CommitType DEF ChangeMemberRole
<1>3. CASE TransferOwnership(r)
  <2>1. req[r].caller \in User
    BY <1>0, <1>3 DEF TransferOwnership, Informed, Idle
  <2>2. role' \in [User -> Roles \cup {"none"}]
    BY <1>0, <1>3 DEF TransferOwnership, Roles
  <2>3. worked' \in SUBSET User
    BY <1>0, <1>3, <2>1 DEF TransferOwnership
  <2> QED
    BY <1>0, <1>3, <2>2, <2>3, CommitType DEF TransferOwnership
<1> QED
  BY <1>1, <1>2, <1>3

LEMMA InvitationCommitsType ==
  ASSUME TypeOK, NEW r \in Request,
         \/ \E j \in Invite : CreateInvitation(r, j)
         \/ ResendInvitation(r)
         \/ RevokeInvitation(r)
         \/ AcceptInvitation(r)
         \/ DeclineInvitation(r)
  PROVE  TypeOK'
<1> DEFINE i == req[r].invite
<1>0. /\ req[r] \in RequestState /\ Informed(req[r])
      /\ role \in [User -> Roles \cup {"none"}]
      /\ status \in [User -> {"none", "active", "removed"}]
      /\ workspace \in Flags /\ worked \in SUBSET User
      /\ inv \in [Invite -> Invitation] /\ task \in [Task -> TaskRow]
  BY DEF TypeOK
<1>f. ASSUME NEW k \in Invite
      PROVE  /\ [inv[k] EXCEPT !.live = TRUE] \in Invitation
             /\ [inv[k] EXCEPT !.status = "revoked"] \in Invitation
             /\ [inv[k] EXCEPT !.status = "accepted"] \in Invitation
             /\ [inv[k] EXCEPT !.status = "declined"] \in Invitation
             /\ inv[k].role \in Roles \cup {"none"}
  BY <1>0 DEF Invitation, Assignable, Roles
<1>1. ASSUME NEW j \in Invite, CreateInvitation(r, j) PROVE TypeOK'
  <2>1. [status |-> "pending", to |-> req[r].target, role |-> req[r].role, live |-> TRUE]
           \in Invitation
    BY <1>0, RequestFields DEF Invitation
  <2>2. inv' \in [Invite -> Invitation]
    BY <1>0, <1>1, <2>1 DEF CreateInvitation
  <2> QED
    BY <1>0, <1>1, <2>2, CommitType DEF CreateInvitation
<1>2. CASE ResendInvitation(r)
  <2>1. inv' \in [Invite -> Invitation]
    BY <1>0, <1>2, <1>f DEF ResendInvitation
  <2> QED
    BY <1>0, <1>2, <2>1, CommitType DEF ResendInvitation
<1>3. CASE RevokeInvitation(r)
  <2>1. inv' \in [Invite -> Invitation]
    BY <1>0, <1>3, <1>f DEF RevokeInvitation
  <2> QED
    BY <1>0, <1>3, <2>1, CommitType DEF RevokeInvitation
<1>4. CASE AcceptInvitation(r)
  <2>1. inv' \in [Invite -> Invitation]
    BY <1>0, <1>4, <1>f DEF AcceptInvitation
  <2>0. i \in Invite
    BY <1>0, <1>4 DEF AcceptInvitation, Informed, RespondOps
  <2>2. role' \in [User -> Roles \cup {"none"}]
    BY <1>0, <1>4, <1>f, <2>0 DEF AcceptInvitation
  <2>3. status' \in [User -> {"none", "active", "removed"}]
    BY <1>0, <1>4 DEF AcceptInvitation
  <2> QED
    BY <1>0, <1>4, <2>1, <2>2, <2>3, CommitType DEF AcceptInvitation
<1>5. CASE DeclineInvitation(r)
  <2>1. inv' \in [Invite -> Invitation]
    BY <1>0, <1>5, <1>f DEF DeclineInvitation
  <2> QED
    BY <1>0, <1>5, <2>1, CommitType DEF DeclineInvitation
<1> QED
  BY <1>1, <1>2, <1>3, <1>4, <1>5

LEMMA WorkspaceStepsType ==
  ASSUME TypeOK
  PROVE  /\ \A r \in Request : RecordWork(r) => TypeOK'
         /\ \A r \in Request : DeletePermanently(r) => TypeOK'
         /\ \A r \in Request : DeleteSoftly(r) => TypeOK'
         /\ \A i \in Invite : Expire(i) => TypeOK'
         /\ SuspendWorkspace => TypeOK'
         /\ RestoreWorkspace => TypeOK'
         /\ \A u \in User : CreateWorkspace(u) => TypeOK'
<1>0. /\ \A r \in Request : req[r] \in RequestState /\ Informed(req[r])
      /\ role \in [User -> Roles \cup {"none"}]
      /\ status \in [User -> {"none", "active", "removed"}]
      /\ workspace \in Flags /\ worked \in SUBSET User
      /\ inv \in [Invite -> Invitation] /\ task \in [Task -> TaskRow]
  BY DEF TypeOK
<1>1. ASSUME NEW r \in Request, RecordWork(r) PROVE TypeOK'
  <2>1. req[r].caller \in User
    BY <1>0, <1>1 DEF RecordWork, Informed, Idle
  <2> QED
    BY <1>0, <1>1, <2>1, CommitType DEF RecordWork
<1>2. ASSUME NEW r \in Request, DeletePermanently(r) PROVE TypeOK'
  <2>1. workspace' \in Flags /\ worked' \in SUBSET User
    BY <1>2 DEF DeletePermanently, Flags
  <2>2. /\ role' \in [User -> Roles \cup {"none"}]
        /\ status' \in [User -> {"none", "active", "removed"}]
    BY <1>2 DEF DeletePermanently
  <2>3. inv' \in [Invite -> Invitation]
    BY <1>2 DEF DeletePermanently, UnusedInvite, Invitation
  <2>4. [assignee |-> Nobody, open |-> FALSE, version |-> 0] \in TaskRow
    BY DEF TaskRow
  <2>5. task' \in [Task -> TaskRow]
    BY <1>2, <2>4 DEF DeletePermanently
  <2>6. req' = [req EXCEPT ![r] = Idle]
    BY <1>2 DEF DeletePermanently
  <2> QED
    BY <2>1, <2>2, <2>3, <2>5, <2>6, CommitType
<1>3. ASSUME NEW r \in Request, DeleteSoftly(r) PROVE TypeOK'
  <2>1. worked' \in SUBSET User
    BY <1>0, <1>3 DEF DeleteSoftly, Informed, Idle
  <2>2. workspace' \in Flags
    BY <1>0, <1>3 DEF DeleteSoftly, Flags
  <2>3. \A i \in Invite : [inv[i] EXCEPT !.status = "revoked"] \in Invitation
    BY <1>0 DEF Invitation
  <2>4. inv' \in [Invite -> Invitation]
    BY <1>0, <1>3, <2>3 DEF DeleteSoftly
  <2> QED
    BY <1>0, <1>3, <2>1, <2>2, <2>4, CommitType DEF DeleteSoftly
<1>4. ASSUME NEW i \in Invite, Expire(i) PROVE TypeOK'
  <2>1. [inv[i] EXCEPT !.live = FALSE] \in Invitation
    BY <1>0 DEF Invitation
  <2>2. inv' \in [Invite -> Invitation]
    BY <1>0, <1>4, <2>1 DEF Expire
  <2> QED
    BY <1>4, <2>2 DEF Expire, TypeOK
<1>5. ASSUME SuspendWorkspace \/ RestoreWorkspace PROVE TypeOK'
  <2>1. workspace' \in Flags
    BY <1>0, <1>5 DEF SuspendWorkspace, RestoreWorkspace, Flags
  <2> QED
    BY <1>5, <2>1 DEF SuspendWorkspace, RestoreWorkspace, TypeOK
<1>6. ASSUME NEW u \in User, CreateWorkspace(u) PROVE TypeOK'
  <2>1. workspace' \in Flags /\ worked' \in SUBSET User
    BY <1>6 DEF CreateWorkspace, Flags
  <2>2. /\ role' \in [User -> Roles \cup {"none"}]
        /\ status' \in [User -> {"none", "active", "removed"}]
    BY <1>0, <1>6 DEF CreateWorkspace, Roles
  <2> QED
    BY <1>6, <2>1, <2>2 DEF CreateWorkspace, TypeOK
<1> QED
  BY <1>1, <1>2, <1>3, <1>4, <1>5, <1>6

LEMMA NextType == TypeOK /\ [Next]_vars => TypeOK'
<1> SUFFICES ASSUME TypeOK, [Next]_vars PROVE TypeOK'
  OBVIOUS
<1>1. CASE UNCHANGED vars
  BY <1>1 DEF vars, TypeOK
<1>2. ASSUME NEW r \in Request, RequestStep(r) PROVE TypeOK'
  BY <1>2, ReadingStepsType, MemberCommitsType, InvitationCommitsType, WorkspaceStepsType
     DEF RequestStep
<1>3. CASE \E r \in Request : RequestStep(r)
  BY <1>2, <1>3
<1> QED
  BY <1>1, <1>3, WorkspaceStepsType DEF Next

\* Every row and every request always has the fields the code reads.
THEOREM TypeCorrect == Spec => []TypeOK
<1>1. Init => TypeOK
  BY InitType
<1>2. TypeOK /\ [Next]_vars => TypeOK'
  BY NextType
<1> QED
  BY <1>1, <1>2, PTL DEF Spec

-------------------------------------------------------------------------------
(* Who owns the workspace *)

\* A deleted workspace took its rows with it: nothing is left to accept or join.
GoneIsEmpty ==
    ~workspace.exists => /\ \A u \in User : status[u] # "active"
                         /\ \A i \in Invite : inv[i].status # "pending"

\* A request never got past its checks against a victim it saw as the Owner.
SawNoOwner(q) ==
    /\ (q.pc = "loaded" /\ q.op \in {"remove", "changeRole"}) => q.seen # "owner"
    /\ (q.pc = "authorized" /\ q.op = "leave") => q.callerRole # "owner"

Victim(q) == IF q.op = "leave" THEN q.caller ELSE q.target

\* The steps that end an ownership without starting another one.
Ending(r) == RemoveMember(r) \/ LeaveWorkspace(r) \/ ChangeMemberRole(r)

LEMMA GoneInit == Init => GoneIsEmpty
BY DEF Init, GoneIsEmpty

LEMMA GoneNext == TypeOK /\ GoneIsEmpty /\ [Next]_vars => GoneIsEmpty'
<1> SUFFICES ASSUME TypeOK, GoneIsEmpty, [Next]_vars PROVE GoneIsEmpty'
  OBVIOUS
<1>1. CASE UNCHANGED vars
  BY <1>1 DEF vars, GoneIsEmpty
<1>2. ASSUME NEW r \in Request, RequestStep(r) PROVE GoneIsEmpty'
  <2>0. inv \in [Invite -> Invitation] /\ req[r] \in RequestState /\ Informed(req[r])
        /\ status \in [User -> {"none", "active", "removed"}] /\ workspace \in Flags
    BY DEF TypeOK
  <2>1. CASE UNCHANGED <<status, workspace, inv>>
    BY <2>1 DEF GoneIsEmpty
  <2>2. CASE Ending(r)
    BY <2>0, <2>2 DEF Ending, RemoveMember, LeaveWorkspace, ChangeMemberRole, EndMembership,
                      GoneIsEmpty
  <2>3. CASE \E i \in Invite : CreateInvitation(r, i)
    BY <2>3 DEF CreateInvitation, GoneIsEmpty
  <2>4. CASE ResendInvitation(r)
    BY <2>0, <2>4 DEF ResendInvitation, GoneIsEmpty, Invitation
  <2>5. CASE RevokeInvitation(r)
    BY <2>0, <2>5 DEF RevokeInvitation, GoneIsEmpty, Invitation
  <2>6. CASE AcceptInvitation(r)
    <3>1. req[r].invite \in Invite
      BY <2>0, <2>6 DEF AcceptInvitation, Informed, RespondOps
    <3> QED
      BY <2>0, <2>6, <3>1 DEF AcceptInvitation, Consumable, GoneIsEmpty
  <2>7. CASE DeclineInvitation(r)
    BY <2>0, <2>7 DEF DeclineInvitation, GoneIsEmpty, Invitation
  <2>8. CASE DeletePermanently(r)
    BY <2>8 DEF DeletePermanently, GoneIsEmpty, UnusedInvite
  <2>9. CASE DeleteSoftly(r)
    BY <2>0, <2>9 DEF DeleteSoftly, GoneIsEmpty, Flags
  <2> QED
    BY <1>2, <2>1, <2>2, <2>3, <2>4, <2>5, <2>6, <2>7, <2>8, <2>9
       DEF RequestStep, Ending, Authorize, LoadTarget, TransferOwnership, CheckInvitee,
           LoadForManager, LoadForRecipient, RecordWork, PlanDeletion, Abort
<1>3. ASSUME NEW i \in Invite, Expire(i) PROVE GoneIsEmpty'
  BY <1>3 DEF Expire, GoneIsEmpty
<1>4. CASE SuspendWorkspace \/ RestoreWorkspace
  BY <1>4 DEF SuspendWorkspace, RestoreWorkspace, GoneIsEmpty, TypeOK, Flags
<1>5. ASSUME NEW u \in User, CreateWorkspace(u) PROVE GoneIsEmpty'
  BY <1>5 DEF CreateWorkspace, GoneIsEmpty
<1> QED
  BY <1>1, <1>2, <1>3, <1>4, <1>5 DEF Next

\* What each kind of step does to the set of active Owners.
LEMMA EndingStep ==
  ASSUME TypeOK, NEW r \in Request, Ending(r)
  PROVE  /\ ActiveOwner' \subseteq ActiveOwner
         /\ ActiveOwner \ {Victim(req[r])} \subseteq ActiveOwner'
         /\ workspace' = workspace /\ req' = [req EXCEPT ![r] = Idle]
<1>0. /\ role \in [User -> Roles \cup {"none"}]
      /\ status \in [User -> {"none", "active", "removed"}]
      /\ req[r].role # "owner"
  BY RequestFields DEF TypeOK, Assignable
<1>1. CASE RemoveMember(r)
  BY <1>0, <1>1 DEF RemoveMember, EndMembership, ActiveOwner, Active, Victim
<1>2. CASE LeaveWorkspace(r)
  BY <1>0, <1>2 DEF LeaveWorkspace, EndMembership, ActiveOwner, Active, Victim
<1>3. CASE ChangeMemberRole(r)
  BY <1>0, <1>3 DEF ChangeMemberRole, ActiveOwner, Active, Victim
<1> QED
  BY <1>1, <1>2, <1>3 DEF Ending

LEMMA TransferStep ==
  ASSUME TypeOK, NEW r \in Request, TransferOwnership(r)
  PROVE  /\ req[r].caller \in ActiveOwner
         /\ req[r].target \in ActiveOwner'
         /\ ActiveOwner' \subseteq (ActiveOwner \ {req[r].caller}) \cup {req[r].target}
<1>0. /\ role \in [User -> Roles \cup {"none"}]
      /\ req[r].caller \in User /\ req[r].target \in User
  BY DEF TypeOK, Informed, TransferOwnership, TargetOps, Idle
<1>1. role' = [role EXCEPT ![req[r].caller] = "admin", ![req[r].target] = "owner"]
      /\ status' = status
  BY DEF TransferOwnership
<1> QED
  BY <1>0, <1>1 DEF TransferOwnership, ActiveOwner, Active

\* Every other step of a request leaves the Owners as they are, or deletes them
\* with the workspace.
LEMMA OtherRequestStep ==
  ASSUME TypeOK, NEW r \in Request, RequestStep(r), ~Ending(r), ~TransferOwnership(r)
  PROVE  ActiveOwner' = ActiveOwner \/ (~workspace'.exists /\ ActiveOwner' = {})
<1>1. CASE AcceptInvitation(r)
  <2>0. /\ role \in [User -> Roles \cup {"none"}]
        /\ status \in [User -> {"none", "active", "removed"}]
        /\ req[r].invite \in Invite /\ inv[req[r].invite].role # "owner"
    BY <1>1 DEF TypeOK, AcceptInvitation, Informed, RespondOps, Invitation, Assignable
  <2> QED
    BY <1>1, <2>0 DEF AcceptInvitation, ActiveOwner, Active
<1>2. CASE DeletePermanently(r)
  BY <1>2 DEF DeletePermanently, ActiveOwner, Active
<1>3. CASE UNCHANGED <<role, status>>
  BY <1>3 DEF ActiveOwner, Active
<1> QED
  BY <1>1, <1>2, <1>3
     DEF RequestStep, Ending, Authorize, LoadTarget, CheckInvitee, CreateInvitation,
         LoadForManager, ResendInvitation, RevokeInvitation, LoadForRecipient,
         DeclineInvitation, RecordWork, PlanDeletion, DeleteSoftly, Abort

LEMMA BackgroundStep ==
  ASSUME TypeOK, GoneIsEmpty,
         \/ \E i \in Invite : Expire(i)
         \/ SuspendWorkspace \/ RestoreWorkspace
         \/ \E u \in User : CreateWorkspace(u)
  PROVE  \/ ActiveOwner' = ActiveOwner /\ workspace'.exists = workspace.exists /\ req' = req
         \/ /\ ActiveOwner = {} /\ ~workspace.exists /\ req' = req
            /\ \A r \in Request : req[r] = Idle
            /\ \E u \in User : ActiveOwner' = {u}
<1>1. CASE \E i \in Invite : Expire(i)
  BY <1>1 DEF Expire, ActiveOwner, Active
<1>2. CASE SuspendWorkspace \/ RestoreWorkspace
  BY <1>2 DEF SuspendWorkspace, RestoreWorkspace, ActiveOwner, Active, TypeOK, Flags
<1>3. ASSUME NEW u \in User, CreateWorkspace(u)
      PROVE  /\ ActiveOwner = {} /\ ~workspace.exists /\ req' = req
             /\ \A r \in Request : req[r] = Idle
             /\ ActiveOwner' = {u}
  BY <1>3 DEF CreateWorkspace, GoneIsEmpty, ActiveOwner, Active, TypeOK
<1> QED
  BY <1>1, <1>2, <1>3

LEMMA OneOwnerNext ==
  TypeOK /\ GoneIsEmpty /\ AtMostOneOwner /\ [Next]_vars => AtMostOneOwner'
<1> SUFFICES ASSUME TypeOK, GoneIsEmpty, AtMostOneOwner, [Next]_vars PROVE AtMostOneOwner'
  OBVIOUS
<1>1. CASE UNCHANGED vars
  BY <1>1 DEF vars, AtMostOneOwner, ActiveOwner, Active
<1>2. ASSUME NEW r \in Request, RequestStep(r) PROVE AtMostOneOwner'
  <2>1. CASE Ending(r)
    BY <2>1, EndingStep DEF AtMostOneOwner
  <2>2. CASE TransferOwnership(r)
    BY <2>2, TransferStep DEF AtMostOneOwner
  <2>3. CASE ~Ending(r) /\ ~TransferOwnership(r)
    BY <1>2, <2>3, OtherRequestStep DEF AtMostOneOwner
  <2> QED
    BY <2>1, <2>2, <2>3
<1>3. CASE ~\E r \in Request : RequestStep(r)
  BY <1>1, <1>3, BackgroundStep DEF Next, AtMostOneOwner
<1> QED
  BY <1>1, <1>2, <1>3

LEMMA GoneAlways == Spec => []GoneIsEmpty
<1>1. Init => GoneIsEmpty
  BY GoneInit
<1>2. TypeOK /\ GoneIsEmpty /\ [Next]_vars => GoneIsEmpty'
  BY GoneNext
<1> QED
  BY <1>1, <1>2, TypeCorrect, PTL DEF Spec

\* Two active members are never both the Owner, whatever transfers, removals,
\* role changes and re-joins run at once, and without the database's index.
THEOREM OneOwner == Spec => []AtMostOneOwner
<1>1. Init => AtMostOneOwner
  BY DEF Init, AtMostOneOwner, ActiveOwner, Active
<1>2. TypeOK /\ GoneIsEmpty /\ AtMostOneOwner /\ [Next]_vars => AtMostOneOwner'
  BY OneOwnerNext
<1> QED
  BY <1>1, <1>2, TypeCorrect, GoneAlways, PTL DEF Spec

-------------------------------------------------------------------------------
(* How ownership can get lost *)

SawInv == \A r \in Request : SawNoOwner(req[r])

LEMMA SawNext == TypeOK /\ SawInv /\ [Next]_vars => SawInv'
<1> SUFFICES ASSUME TypeOK, SawInv, [Next]_vars PROVE SawInv'
  OBVIOUS
<1>0. /\ req \in [Request -> RequestState]
      /\ \A r \in Request : req[r] \in RequestState /\ SawNoOwner(req[r])
  BY DEF TypeOK, SawInv
<1>i. SawNoOwner(Idle)
  BY DEF SawNoOwner, Idle
\* It is enough that the request that moved satisfies the invariant.
<1>u. ASSUME NEW r \in Request, NEW q, SawNoOwner(q), req' = [req EXCEPT ![r] = q]
      PROVE  SawInv'
  BY <1>0, <1>u DEF SawInv
<1>1. CASE UNCHANGED vars
  BY <1>1 DEF vars, SawInv
<1>2. ASSUME NEW r \in Request, NEW u \in User, NEW op \in MemberOps, Authorize(r, u, op)
      PROVE  SawInv'
  <2> DEFINE q == [Idle EXCEPT !.pc = "authorized", !.op = op, !.caller = u,
                               !.callerRole = role[u]]
  <2>1. SawNoOwner(q)
    BY <1>2 DEF Authorize, SawNoOwner, Idle
  <2> QED
    BY <1>2, <1>u, <2>1 DEF Authorize
<1>3. ASSUME NEW r \in Request, NEW t \in User, NEW newRole \in Assignable \cup {"none"},
             LoadTarget(r, t, newRole)
      PROVE  SawInv'
  <2> DEFINE q == [req[r] EXCEPT !.pc = "loaded", !.target = t, !.seen = role[t],
                                 !.role = newRole]
  <2>1. q.pc = "loaded" /\ q.op = req[r].op /\ q.seen = role[t]
    BY <1>0 DEF RequestState
  <2>2. req[r].op \in {"remove", "changeRole"} => role[t] # "owner"
    BY <1>3 DEF LoadTarget, TargetAllowed
  <2>3. SawNoOwner(q)
    BY <2>1, <2>2 DEF SawNoOwner
  <2> QED
    BY <1>3, <1>u, <2>3 DEF LoadTarget
<1>4. ASSUME NEW r \in Request, NEW e \in User, NEW newRole \in Assignable,
             CheckInvitee(r, e, newRole)
      PROVE  SawInv'
  <2> DEFINE q == [req[r] EXCEPT !.pc = "loaded", !.target = e, !.role = newRole]
  <2>1. q.pc = "loaded" /\ q.op = "invite"
    BY <1>0, <1>4 DEF RequestState, CheckInvitee
  <2>2. SawNoOwner(q)
    BY <2>1 DEF SawNoOwner
  <2> QED
    BY <1>4, <1>u, <2>2 DEF CheckInvitee
<1>5. ASSUME NEW r \in Request, NEW u \in User, NEW i \in Invite, NEW op \in ManagerOps,
             LoadForManager(r, u, i, op)
      PROVE  SawInv'
  BY <1>5, <1>u DEF LoadForManager, SawNoOwner, Idle, ManagerOps
<1>6. ASSUME NEW r \in Request, NEW u \in User, NEW i \in Invite, NEW op \in RespondOps,
             LoadForRecipient(r, u, i, op)
      PROVE  SawInv'
  BY <1>6, <1>u DEF LoadForRecipient, SawNoOwner, Idle, RespondOps
<1>7. ASSUME NEW r \in Request, PlanDeletion(r) PROVE SawInv'
  <2> DEFINE plan == IF worked \ {req[r].caller} # {} THEN "soft" ELSE "permanent"
             q == [req[r] EXCEPT !.pc = "loaded", !.plan = plan]
  <2>1. q.pc = "loaded" /\ q.op = "delete"
    BY <1>0, <1>7 DEF RequestState, PlanDeletion
  <2>2. SawNoOwner(q)
    BY <2>1 DEF SawNoOwner
  <2> QED
    BY <1>7, <1>u, <2>2 DEF PlanDeletion
<1>8. ASSUME NEW r \in Request, req' = [req EXCEPT ![r] = Idle] PROVE SawInv'
  BY <1>8, <1>i, <1>u
<1>9. ASSUME NEW r \in Request, RequestStep(r) PROVE SawInv'
  <2>1. \/ req' = [req EXCEPT ![r] = Idle]
        \/ \E u \in User, op \in MemberOps : Authorize(r, u, op)
        \/ \E t \in User, newRole \in Assignable \cup {"none"} : LoadTarget(r, t, newRole)
        \/ \E e \in User, newRole \in Assignable : CheckInvitee(r, e, newRole)
        \/ \E u \in User, i \in Invite, op \in ManagerOps : LoadForManager(r, u, i, op)
        \/ \E u \in User, i \in Invite, op \in RespondOps : LoadForRecipient(r, u, i, op)
        \/ PlanDeletion(r)
    BY <1>9 DEF RequestStep, RemoveMember, LeaveWorkspace, ChangeMemberRole, TransferOwnership,
                CreateInvitation, ResendInvitation, RevokeInvitation, AcceptInvitation,
                DeclineInvitation, RecordWork, DeletePermanently, DeleteSoftly, Abort
  <2> QED
    BY <2>1, <1>2, <1>3, <1>4, <1>5, <1>6, <1>7, <1>8
<1>10. CASE \/ \E i \in Invite : Expire(i)
            \/ SuspendWorkspace \/ RestoreWorkspace
            \/ \E u \in User : CreateWorkspace(u)
  <2>1. req' = req
    BY <1>10 DEF Expire, SuspendWorkspace, RestoreWorkspace, CreateWorkspace
  <2> QED
    BY <2>1 DEF SawInv
<1> QED
  BY <1>1, <1>9, <1>10 DEF Next

LEMMA SawAlways == Spec => []SawInv
<1>1. Init => SawInv
  BY DEF Init, SawInv, SawNoOwner, Idle
<1>2. TypeOK /\ SawInv /\ [Next]_vars => SawInv'
  BY SawNext
<1> QED
  BY <1>1, <1>2, TypeCorrect, PTL DEF Spec

\* The step that takes the last Owner away from an existing workspace.
OwnerLost == workspace'.exists /\ ActiveOwner # {} /\ ActiveOwner' = {}

LEMMA LosingStep ==
  ASSUME TypeOK, GoneIsEmpty, SawInv, Next, OwnerLost
  PROVE  \E r \in Request : OverlapsATransfer(req[r]) /\ req'[r] = Idle
<1>1. ASSUME NEW r \in Request, Ending(r)
      PROVE  OverlapsATransfer(req[r]) /\ req'[r] = Idle
  <2>1. Victim(req[r]) \in ActiveOwner /\ req' = [req EXCEPT ![r] = Idle]
    BY <1>1, EndingStep DEF OwnerLost
  <2>2. req'[r] = Idle
    BY <2>1 DEF TypeOK
  <2>3. SawNoOwner(req[r])
    BY DEF SawInv
  <2> QED
    BY <1>1, <2>1, <2>2, <2>3
       DEF Ending, RemoveMember, LeaveWorkspace, ChangeMemberRole, Victim, SawNoOwner,
           OverlapsATransfer
<1>2. ASSUME NEW r \in Request, RequestStep(r) PROVE Ending(r)
  BY <1>2, TransferStep, OtherRequestStep DEF OwnerLost
<1>3. CASE \E r \in Request : RequestStep(r)
  BY <1>1, <1>2, <1>3
<1>4. CASE ~\E r \in Request : RequestStep(r)
  BY <1>4, BackgroundStep DEF Next, OwnerLost
<1> QED
  BY <1>3, <1>4

\* The only way an existing workspace loses its last Owner is a remove, role
\* change or leave that read its victim's role before a transfer made that
\* victim the Owner.
THEOREM OwnerLostOnlyToStale == Spec => OwnerLostOnlyToStaleRequest
<1>1. TypeOK /\ GoneIsEmpty /\ SawInv /\ [Next]_vars
        => [(workspace'.exists /\ ActiveOwner # {} /\ ActiveOwner' = {})
              => \E r \in Request : OverlapsATransfer(req[r]) /\ req'[r] = Idle]_vars
  BY LosingStep DEF OwnerLost
<1> QED
  BY <1>1, TypeCorrect, GoneAlways, SawAlways, PTL DEF Spec, OwnerLostOnlyToStaleRequest

-------------------------------------------------------------------------------
(* Requests one at a time: the handlers are right when they do not overlap *)

NoOverlap == \A r \in Request : ~OverlapsATransfer(req[r])

LEMMA ReadingOverlap ==
  ASSUME TypeOK, NEW r \in Request, RequestStep(r)
  PROVE  ~OverlapsATransfer(req[r])'
<1>0. req \in [Request -> RequestState] /\ req[r] \in RequestState
  BY DEF TypeOK
<1>1. CASE req' = [req EXCEPT ![r] = Idle]
  BY <1>0, <1>1 DEF OverlapsATransfer, Idle
<1>2. ASSUME NEW u \in User, NEW op \in MemberOps, Authorize(r, u, op)
      PROVE  ~OverlapsATransfer(req[r])'
  <2>1. /\ req'[r].pc = "authorized" /\ req'[r].op = op /\ req'[r].caller = u
        /\ op = "leave" => role'[u] # "owner"
    BY <1>0, <1>2 DEF Authorize, Idle
  <2> QED
    BY <2>1 DEF OverlapsATransfer, ActiveOwner
<1>3. ASSUME NEW t \in User, NEW newRole \in Assignable \cup {"none"}, LoadTarget(r, t, newRole)
      PROVE  ~OverlapsATransfer(req[r])'
  <2>1. /\ req'[r].pc = "loaded" /\ req'[r].op = req[r].op /\ req'[r].target = t
        /\ req[r].op \in {"remove", "changeRole"} => role'[t] # "owner"
    BY <1>0, <1>3 DEF LoadTarget, TargetAllowed, RequestState
  <2> QED
    BY <2>1 DEF OverlapsATransfer, ActiveOwner
<1>4. ASSUME \/ \E e \in User, newRole \in Assignable : CheckInvitee(r, e, newRole)
             \/ \E u \in User, i \in Invite, op \in ManagerOps : LoadForManager(r, u, i, op)
             \/ \E u \in User, i \in Invite, op \in RespondOps : LoadForRecipient(r, u, i, op)
             \/ PlanDeletion(r)
      PROVE  ~OverlapsATransfer(req[r])'
  <2>1. req'[r].pc = "loaded" /\ req'[r].op \notin {"remove", "changeRole"}
    <3>1. CASE \E e \in User, newRole \in Assignable : CheckInvitee(r, e, newRole)
      <4>1. PICK e \in User, newRole \in Assignable : CheckInvitee(r, e, newRole)
        BY <3>1
      <4> QED
        BY <1>0, <4>1 DEF CheckInvitee, RequestState
    <3>2. CASE \E u \in User, i \in Invite, op \in ManagerOps : LoadForManager(r, u, i, op)
      <4>1. PICK u \in User, i \in Invite, op \in ManagerOps : LoadForManager(r, u, i, op)
        BY <3>2
      <4> QED
        BY <1>0, <4>1 DEF LoadForManager, Idle, ManagerOps
    <3>3. CASE \E u \in User, i \in Invite, op \in RespondOps : LoadForRecipient(r, u, i, op)
      <4>1. PICK u \in User, i \in Invite, op \in RespondOps : LoadForRecipient(r, u, i, op)
        BY <3>3
      <4> QED
        BY <1>0, <4>1 DEF LoadForRecipient, Idle, RespondOps
    <3>4. CASE PlanDeletion(r)
      BY <1>0, <3>4 DEF PlanDeletion, RequestState
    <3> QED
      BY <1>4, <3>1, <3>2, <3>3, <3>4
  <2> QED
    BY <2>1 DEF OverlapsATransfer
<1> QED
  BY <1>1, <1>2, <1>3, <1>4
     DEF RequestStep, RemoveMember, LeaveWorkspace, ChangeMemberRole, TransferOwnership,
         CreateInvitation, ResendInvitation, RevokeInvitation, AcceptInvitation,
         DeclineInvitation, RecordWork, DeletePermanently, DeleteSoftly, Abort

LEMMA SerialNext ==
  ASSUME \A r, s \in Request : r = s
  PROVE  /\ TypeOK /\ GoneIsEmpty /\ SawInv /\ AlwaysAnOwner /\ NoOverlap /\ [Next]_vars
         => (AlwaysAnOwner /\ NoOverlap)'
<1> SUFFICES ASSUME TypeOK, GoneIsEmpty, SawInv, AlwaysAnOwner, NoOverlap, [Next]_vars
             PROVE  (AlwaysAnOwner /\ NoOverlap)'
  OBVIOUS
<1>1. CASE UNCHANGED vars
  BY <1>1 DEF vars, AlwaysAnOwner, NoOverlap, ActiveOwner, Active, OverlapsATransfer
<1>2. ASSUME NEW r \in Request, RequestStep(r) PROVE (AlwaysAnOwner /\ NoOverlap)'
  <2>1. workspace'.exists => workspace.exists
    BY <1>2 DEF TypeOK, Flags, RequestStep, Authorize, LoadTarget, RemoveMember, LeaveWorkspace,
                EndMembership, ChangeMemberRole, TransferOwnership, CheckInvitee,
                CreateInvitation, LoadForManager, ResendInvitation, RevokeInvitation,
                LoadForRecipient, AcceptInvitation, DeclineInvitation, RecordWork,
                PlanDeletion, DeletePermanently, DeleteSoftly, Abort
  <2>2. ~OwnerLost
    BY <1>2, LosingStep DEF NoOverlap, Next
  <2>3. AlwaysAnOwner'
    BY <2>1, <2>2 DEF AlwaysAnOwner, OwnerLost
  <2>4. ~OverlapsATransfer(req[r])'
    BY <1>2, ReadingOverlap
  <2>5. NoOverlap'
    BY <2>4 DEF NoOverlap
  <2> QED
    BY <2>3, <2>5
<1>3. CASE ~(\E r \in Request : RequestStep(r)) /\ Next
  <2>1. CASE ActiveOwner' = ActiveOwner /\ workspace'.exists = workspace.exists /\ req' = req
    BY <2>1 DEF AlwaysAnOwner, NoOverlap, OverlapsATransfer
  <2>2. CASE /\ req' = req
             /\ \A r \in Request : req[r] = Idle
             /\ \E u \in User : ActiveOwner' = {u}
    <3>1. AlwaysAnOwner'
      BY <2>2 DEF AlwaysAnOwner
    <3>2. NoOverlap'
      BY <2>2 DEF NoOverlap, OverlapsATransfer, Idle
    <3> QED
      BY <3>1, <3>2
  <2> QED
    BY <1>3, <2>1, <2>2, BackgroundStep DEF Next
<1> QED
  BY <1>1, <1>2, <1>3

\* When requests do not overlap, an existing workspace always has an Owner: the
\* role checks are sufficient, and only their distance from the write is not.
THEOREM SerialOwner ==
  ASSUME \A r, s \in Request : r = s
  PROVE  Spec => []AlwaysAnOwner
<1>1. Init => AlwaysAnOwner /\ NoOverlap
  BY DEF Init, AlwaysAnOwner, NoOverlap, OverlapsATransfer, ActiveOwner, Active, Idle
<1>2. /\ TypeOK /\ GoneIsEmpty /\ SawInv /\ AlwaysAnOwner /\ NoOverlap /\ [Next]_vars
      => (AlwaysAnOwner /\ NoOverlap)'
  BY SerialNext
<1> QED
  BY <1>1, <1>2, TypeCorrect, GoneAlways, SawAlways, PTL DEF Spec

-------------------------------------------------------------------------------
(* Joining and invitations *)

\* An accept under way in a workspace that exists knows the invitation it
\* loaded, which is still addressed to its caller; a deletion has revoked it.
KnowsInvitation(q) ==
    q.pc = "loaded" /\ q.op = "accept" /\ workspace.exists =>
        /\ inv[q.invite].to = q.caller
        /\ inv[q.invite].status # "unused"
        /\ workspace.deleted => inv[q.invite].status # "pending"

AcceptsKnow == \A r \in Request : KnowsInvitation(req[r])

\* What a step may do to the rows that KnowsInvitation is about.
InvitationsKept ==
    /\ workspace'.exists => workspace.exists
    /\ workspace'.exists /\ workspace'.deleted =>
          workspace.deleted \/ \A i \in Invite : inv'[i].status # "pending"
    /\ workspace'.exists => \A i \in Invite : inv[i].status # "unused" =>
          /\ inv'[i].to = inv[i].to /\ inv'[i].status # "unused"
          /\ inv'[i].status = "pending" => inv[i].status = "pending"

LEMMA StatusChange ==
  ASSUME TypeOK, NEW i \in Invite, NEW s \in {"accepted", "declined", "revoked"},
         inv' = [inv EXCEPT ![i].status = s], UNCHANGED workspace
  PROVE  InvitationsKept
BY DEF TypeOK, Invitation, InvitationsKept

LEMMA StepKeepsInvitations ==
  ASSUME TypeOK, [Next]_vars, ~\E u \in User : CreateWorkspace(u)
  PROVE  InvitationsKept
<1>0. inv \in [Invite -> Invitation] /\ workspace \in Flags
  BY DEF TypeOK
<1>1. CASE UNCHANGED <<inv, workspace>>
  BY <1>1 DEF InvitationsKept
<1>2. ASSUME NEW r \in Request, RequestStep(r), ~UNCHANGED <<inv, workspace>>
      PROVE  InvitationsKept
  <2>1. CASE \E i \in Invite : CreateInvitation(r, i)
    <3>1. PICK i \in Invite : CreateInvitation(r, i)
      BY <2>1
    <3>2. \A j \in Invite : inv[j].status # "unused" => inv'[j] = inv[j]
      BY <1>0, <3>1 DEF CreateInvitation, UnusedInvite
    <3> QED
      BY <3>1, <3>2 DEF CreateInvitation, InvitationsKept
  <2>2. CASE ResendInvitation(r)
    BY <1>0, <2>2 DEF ResendInvitation, Invitation, InvitationsKept
  <2>3. CASE RevokeInvitation(r) \/ AcceptInvitation(r) \/ DeclineInvitation(r)
    <3>1. req[r].invite \in Invite
      BY <2>3 DEF TypeOK, Informed, ManagerOps, RespondOps, RevokeInvitation, AcceptInvitation,
                  DeclineInvitation
    <3> QED
      BY <2>3, <3>1, StatusChange DEF RevokeInvitation, AcceptInvitation, DeclineInvitation
  <2>4. CASE DeletePermanently(r)
    BY <2>4 DEF DeletePermanently, InvitationsKept
  <2>5. CASE DeleteSoftly(r)
    <3>1. \A i \in Invite : /\ inv'[i].status # "pending" /\ inv'[i].to = inv[i].to
                            /\ inv[i].status # "unused" => inv'[i].status # "unused"
      BY <1>0, <2>5 DEF DeleteSoftly, Invitation
    <3> QED
      BY <1>0, <2>5, <3>1 DEF DeleteSoftly, InvitationsKept, Flags
  <2> QED
    BY <1>2, <2>1, <2>2, <2>3, <2>4, <2>5
       DEF RequestStep, Authorize, LoadTarget, RemoveMember, LeaveWorkspace, EndMembership,
           ChangeMemberRole, TransferOwnership, CheckInvitee, LoadForManager, LoadForRecipient,
           RecordWork, PlanDeletion, Abort
<1>3. ASSUME NEW i \in Invite, Expire(i) PROVE InvitationsKept
  BY <1>0, <1>3 DEF Expire, Invitation, InvitationsKept
<1>4. CASE SuspendWorkspace \/ RestoreWorkspace
  BY <1>0, <1>4 DEF SuspendWorkspace, RestoreWorkspace, Flags, InvitationsKept
<1> QED
  BY <1>1, <1>2, <1>3, <1>4 DEF Next, vars

\* A request that now knows an invitation knew it before, or has just loaded it.
LEMMA AcceptLoaded ==
  ASSUME TypeOK, [Next]_vars, NEW r \in Request,
         req'[r].pc = "loaded", req'[r].op = "accept"
  PROVE  \/ req'[r] = req[r]
         \/ \E u \in User, i \in Invite : LoadForRecipient(r, u, i, "accept")
<1>0. req \in [Request -> RequestState]
  BY DEF TypeOK
<1>1. CASE ~\E s \in Request : RequestStep(s)
  BY <1>1 DEF Next, vars, Expire, SuspendWorkspace, RestoreWorkspace, CreateWorkspace
<1>2. ASSUME NEW s \in Request, RequestStep(s), req'[r] # req[r]
      PROVE  \E u \in User, i \in Invite : LoadForRecipient(r, u, i, "accept")
  <2>1. \E q : req' = [req EXCEPT ![s] = q]
    BY <1>2 DEF RequestStep, Authorize, LoadTarget, RemoveMember, LeaveWorkspace,
                ChangeMemberRole, TransferOwnership, CheckInvitee, CreateInvitation,
                LoadForManager, ResendInvitation, RevokeInvitation, LoadForRecipient,
                AcceptInvitation, DeclineInvitation, RecordWork, PlanDeletion,
                DeletePermanently, DeleteSoftly, Abort
  <2>2. s = r
    BY <1>0, <1>2, <2>1
  <2>3. req' # [req EXCEPT ![r] = Idle]
    BY <1>0 DEF Idle
  <2>4. ASSUME NEW u \in User, NEW op \in MemberOps PROVE ~Authorize(r, u, op)
    BY <1>0, <2>4 DEF Authorize, Idle
  <2>5. ASSUME NEW t \in User, NEW newRole \in Assignable \cup {"none"}
        PROVE  ~LoadTarget(r, t, newRole)
    BY <1>0, <2>5 DEF LoadTarget, RequestState, TargetOps
  <2>6. ASSUME NEW e \in User, NEW newRole \in Assignable PROVE ~CheckInvitee(r, e, newRole)
    BY <1>0, <2>6 DEF CheckInvitee, RequestState
  <2>7. ASSUME NEW u \in User, NEW i \in Invite, NEW op \in ManagerOps
        PROVE  ~LoadForManager(r, u, i, op)
    BY <1>0, <2>7 DEF LoadForManager, Idle, ManagerOps
  <2>8. ~PlanDeletion(r)
    <3>1. ASSUME PlanDeletion(r)
          PROVE  \E p : req' = [req EXCEPT ![r] = [req[r] EXCEPT !.pc = "loaded", !.plan = p]]
      BY <3>1 DEF PlanDeletion
    <3>2. ASSUME NEW p, req' = [req EXCEPT ![r] = [req[r] EXCEPT !.pc = "loaded", !.plan = p]]
          PROVE  req[r].op = "accept"
      BY <1>0, <3>2 DEF RequestState
    <3> QED
      BY <3>1, <3>2 DEF PlanDeletion
  <2>9. \E u \in User, i \in Invite, op \in RespondOps : LoadForRecipient(r, u, i, op)
    BY <1>2, <2>2, <2>3, <2>4, <2>5, <2>6, <2>7, <2>8
       DEF RequestStep, RemoveMember, LeaveWorkspace, ChangeMemberRole, TransferOwnership,
           CreateInvitation, ResendInvitation, RevokeInvitation, AcceptInvitation,
           DeclineInvitation, RecordWork, DeletePermanently, DeleteSoftly, Abort
  <2>10. PICK u \in User, i \in Invite, op \in RespondOps : LoadForRecipient(r, u, i, op)
    BY <2>9
  <2>11. op = "accept"
    BY <1>0, <2>10 DEF LoadForRecipient, Idle
  <2> QED
    BY <2>10, <2>11
<1> QED
  BY <1>1, <1>2

LEMMA AcceptsKnowNext == TypeOK /\ AcceptsKnow /\ [Next]_vars => AcceptsKnow'
<1> SUFFICES ASSUME TypeOK, AcceptsKnow, [Next]_vars,
                    NEW r \in Request, req'[r].pc = "loaded", req'[r].op = "accept",
                    workspace'.exists
             PROVE  /\ inv'[req'[r].invite].to = req'[r].caller
                    /\ inv'[req'[r].invite].status # "unused"
                    /\ workspace'.deleted => inv'[req'[r].invite].status # "pending"
  BY DEF AcceptsKnow, KnowsInvitation
<1>1. ~\E u \in User : CreateWorkspace(u)
  BY DEF CreateWorkspace, Idle
<1>2. InvitationsKept
  BY <1>1, StepKeepsInvitations
<1>3. CASE req'[r] = req[r]
  <2>1. req[r].invite \in Invite
    BY <1>3 DEF TypeOK, Informed, RespondOps
  <2>2. KnowsInvitation(req[r])
    BY DEF AcceptsKnow
  <2> QED
    BY <1>2, <1>3, <2>1, <2>2 DEF InvitationsKept, KnowsInvitation
<1>4. CASE \E u \in User, i \in Invite : LoadForRecipient(r, u, i, "accept")
  <2>1. PICK u \in User, i \in Invite : LoadForRecipient(r, u, i, "accept")
    BY <1>4
  <2>2. req'[r].caller = u /\ req'[r].invite = i
    BY <2>1 DEF LoadForRecipient, TypeOK, Idle
  <2> QED
    BY <2>1, <2>2 DEF LoadForRecipient
<1> QED
  BY <1>3, <1>4, AcceptLoaded

LEMMA AcceptsKnowAlways == Spec => []AcceptsKnow
<1>1. Init => AcceptsKnow
  BY DEF Init, AcceptsKnow, KnowsInvitation, Idle
<1> QED
  BY <1>1, AcceptsKnowNext, TypeCorrect, PTL DEF Spec

\* Only an accept makes a member of a workspace that exists.
LEMMA JoiningStep ==
  ASSUME TypeOK, AcceptsKnow, [Next]_vars, NEW u \in User, workspace.exists,
         status[u] # "active", status'[u] = "active"
  PROVE  /\ ~workspace.deleted
         /\ \E i \in Invite : /\ inv[i].status = "pending" /\ inv[i].live /\ inv[i].to = u
                              /\ inv'[i].status = "accepted" /\ role'[u] = inv[i].role
<1>0. /\ status \in [User -> {"none", "active", "removed"}]
      /\ role \in [User -> Roles \cup {"none"}] /\ inv \in [Invite -> Invitation]
  BY DEF TypeOK
<1>1. PICK r \in Request : AcceptInvitation(r)
  <2>1. PICK r \in Request : RequestStep(r)
    BY <1>0 DEF Next, vars, Expire, SuspendWorkspace, RestoreWorkspace, CreateWorkspace
  <2>2. ~(RemoveMember(r) \/ LeaveWorkspace(r))
    BY <1>0 DEF RemoveMember, LeaveWorkspace, EndMembership
  <2>3. ~DeletePermanently(r)
    BY <1>0 DEF DeletePermanently
  <2>4. status' # status
    OBVIOUS
  <2>5. AcceptInvitation(r)
    BY <2>1, <2>2, <2>3, <2>4
       DEF RequestStep, Authorize, LoadTarget, ChangeMemberRole, TransferOwnership, CheckInvitee,
           CreateInvitation, LoadForManager, ResendInvitation, RevokeInvitation,
           LoadForRecipient, DeclineInvitation, RecordWork, PlanDeletion, DeleteSoftly, Abort
  <2> QED
    BY <2>5
<1>2. req[r].caller = u
  BY <1>0, <1>1 DEF AcceptInvitation
<1>3. req[r].invite \in Invite
  BY <1>1 DEF TypeOK, Informed, RespondOps, AcceptInvitation
<1>4. KnowsInvitation(req[r])
  BY DEF AcceptsKnow
<1> QED
  BY <1>0, <1>1, <1>2, <1>3, <1>4 DEF AcceptInvitation, Consumable, KnowsInvitation, Invitation

\* A membership begins only by consuming a pending, unexpired invitation that is
\* addressed to its user, in the role it offers, and never in a deleted workspace,
\* whatever accepts, answers, deletions and resends overlap.
THEOREM JoinsByInvitation == Spec => JoinOnlyByInvitation
<1>1. TypeOK /\ AcceptsKnow /\ [Next]_vars
        => [\A u \in User :
              (workspace.exists /\ status[u] # "active" /\ status'[u] = "active")
              => /\ ~workspace.deleted
                 /\ \E i \in Invite :
                      /\ inv[i].status = "pending" /\ inv[i].live /\ inv[i].to = u
                      /\ inv'[i].status = "accepted" /\ role'[u] = inv[i].role]_vars
  BY JoiningStep
<1> QED
  BY <1>1, TypeCorrect, AcceptsKnowAlways, PTL DEF Spec, JoinOnlyByInvitation

LEMMA SettledStays ==
  ASSUME TypeOK, [Next]_vars, NEW i \in Invite, workspace'.exists,
         inv[i].status \in {"accepted", "declined", "revoked"}
  PROVE  inv'[i].status = inv[i].status
<1>0. inv \in [Invite -> Invitation]
  BY DEF TypeOK
<1>1. ASSUME NEW j \in Invite, NEW s, inv[j].status = "pending",
             inv' = [inv EXCEPT ![j].status = s]
      PROVE  inv'[i].status = inv[i].status
  BY <1>0, <1>1 DEF Invitation
<1>2. ASSUME NEW r \in Request,
             RevokeInvitation(r) \/ AcceptInvitation(r) \/ DeclineInvitation(r)
      PROVE  inv'[i].status = inv[i].status
  <2>1. req[r].invite \in Invite
    BY <1>2 DEF TypeOK, Informed, ManagerOps, RespondOps, RevokeInvitation, AcceptInvitation,
                DeclineInvitation
  <2> QED
    BY <1>1, <1>2, <2>1 DEF RevokeInvitation, AcceptInvitation, DeclineInvitation, Consumable
<1>3. ASSUME NEW r \in Request, \E j \in Invite : CreateInvitation(r, j)
      PROVE  inv'[i].status = inv[i].status
  BY <1>0, <1>3 DEF CreateInvitation, UnusedInvite
<1>4. ASSUME NEW r \in Request, ResendInvitation(r) PROVE inv'[i].status = inv[i].status
  BY <1>0, <1>4 DEF ResendInvitation, Invitation
<1>5. ASSUME NEW r \in Request, DeleteSoftly(r) PROVE inv'[i].status = inv[i].status
  BY <1>0, <1>5 DEF DeleteSoftly
<1>6. ASSUME NEW r \in Request, DeletePermanently(r) PROVE FALSE
  BY <1>6 DEF DeletePermanently
<1>7. ASSUME NEW j \in Invite, Expire(j) PROVE inv'[i].status = inv[i].status
  BY <1>0, <1>7 DEF Expire, Invitation
<1>8. ASSUME NEW r \in Request, RequestStep(r) PROVE inv'[i].status = inv[i].status
  BY <1>2, <1>3, <1>4, <1>5, <1>6, <1>8
     DEF RequestStep, Authorize, LoadTarget, RemoveMember, LeaveWorkspace, EndMembership,
         ChangeMemberRole, TransferOwnership, CheckInvitee, LoadForManager, LoadForRecipient,
         RecordWork, PlanDeletion, Abort
<1>9. CASE ~\E r \in Request : RequestStep(r)
  BY <1>7, <1>9 DEF Next, vars, SuspendWorkspace, RestoreWorkspace, CreateWorkspace
<1> QED
  BY <1>8, <1>9

\* An invitation is answered once: of any number of accepts, declines,
\* revocations and resends the first to commit decides.
THEOREM SettlesOnce == Spec => InvitationSettlesOnce
<1>1. TypeOK /\ [Next]_vars
        => [\A i \in Invite :
              (workspace'.exists /\ inv[i].status \in {"accepted", "declined", "revoked"})
              => inv'[i].status = inv[i].status]_vars
  BY SettledStays
<1> QED
  BY <1>1, TypeCorrect, PTL DEF Spec, InvitationSettlesOnce
===============================================================================
