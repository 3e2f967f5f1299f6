SPECIFICATION DeliverySpec
CONSTANTS
    Task = {t1}
    Request = {}
    Horizon = 2
    MaxVersion = 1
    User = {u1}
    Deadlines = {1}
    Starts = {}
    Leads = {}
    StartLead = 1
    Worker = {w1}
    Operator = {o1}
    Creator = u1
    Grace = 1
    MaxAttempts = 2
    RetryAfter = 1
    MaxCrashes = 0
    MaxMails = 3
    MaxOperated = 3
    Null = Null
    Ops <- EditOnly
    PeopleOps = {}
PROPERTY SentNeverResent
