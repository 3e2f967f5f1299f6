SPECIFICATION SweepingSpec
CONSTANTS
    Task = {t1}
    Request = {r1}
    Horizon = 2
    MaxVersion = 1
    User = {u1}
    Deadlines = {1}
    Starts = {}
    Leads = {}
    StartLead = 1
    Worker = {w1}
    Operator = {}
    Creator = u1
    Grace = 1
    MaxAttempts = 2
    RetryAfter = 0
    MaxCrashes = 1
    MaxMails = 3
    MaxOperated = 3
    Null = Null
    Ops <- EditOnly
    PeopleOps = {}
PROPERTY LedgerKept
PROPERTY DueIsHandled
PROPERTY FailedIsRetried
