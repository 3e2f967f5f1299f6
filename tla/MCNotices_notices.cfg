SPECIFICATION NoticesSpec
CONSTANTS
    Account = {u1, u2}
    Browser = {b1}
    Dispatcher = {d1, d2}
    MaxNote = 3
    MaxEndpoint = 2
    Batch = 1
    MaxFail = 1
    Nobody = Nobody
    Receiver = u1
    Instance = d1
    MaxItem = 2
    PageSize = 1
    Call = {c1, c2}
    MaxDropped = 1
INVARIANT PublishedOnce
INVARIANT ShownReadIsRead
PROPERTY PushStaysWithOwner
PROPERTY NothingPassedOver
PROPERTY BadgeSettles
CHECK_DEADLOCK FALSE
