SPECIFICATION ScenarioSpec
CONSTANTS
    User = {u1, u2}
    Request = {r1, r2}
    Invite = {}
    Task = {}
    Ops <- InvitationOps
    Nobody = Nobody
    NoInvite = NoInvite
PROPERTY DeletionSparesOthersWork
CHECK_DEADLOCK FALSE
