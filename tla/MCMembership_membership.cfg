SPECIFICATION ScenarioSpec
CONSTANTS
    User = {u1, u2, u3}
    Request = {r1, r2}
    Invite = {i1, i2}
    Task = {t1}
    Ops <- AllOps
    Nobody = Nobody
    NoInvite = NoInvite
INVARIANT TypeOK
INVARIANT AtMostOneOwner
PROPERTY OwnerLostOnlyToStaleRequest
PROPERTY JoinOnlyByInvitation
PROPERTY InvitationSettlesOnce
SYMMETRY Symmetry
CHECK_DEADLOCK FALSE
