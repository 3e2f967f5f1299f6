SPECIFICATION RacesSpec
CONSTANTS
    Task = {t1}
    Request = {r1}
    Horizon = 2
    MaxVersion = 1
    User = {u1, u2}
    Deadlines = {1}
    Starts = {}
    Leads = {}
    StartLead = 1
    Worker = {w1, w2}
    Operator = {o1}
    Creator = u1
    Grace = 1
    MaxAttempts = 1
    RetryAfter = 1
    MaxCrashes = 1
    MaxMails = 1
    MaxOperated = 2
    Null = Null
    Ops <- EditOnly
    PeopleOps <- AllPeople
INVARIANT OneRecipientPerSchedule
SYMMETRY Instances
