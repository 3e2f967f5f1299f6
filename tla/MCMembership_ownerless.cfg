SPECIFICATION ScenarioSpec
CONSTANTS
    User = {u1, u2}
    Request = {r1, r2}
    Invite = {}
    Task = {}
    Ops <- OwnershipOps
    Nobody = Nobody
    NoInvite = NoInvite
INVARIANT AlwaysAnOwner
