SPECIFICATION ClientSpec
CONSTANTS
    Account = {c1, c2}
    Workspace = {w1, w2}
    MaxRefresh = 2
    NoAccount = NoAccount
    NoWorkspace = NoWorkspace
    TaskName = {t1}
    MaxLoad = 2
    MaxCreating = 1
    Space = {s1, s2}
    MaxForm = 2
    MaxWording = 2
    MaxSend = 2
    Person = {p1, p2}
    Home = home
    Place = {home, other}
    Link = {l1}
    Nobody = Nobody
    Nowhere = Nowhere
    Term = {q1, q2}
    NoTerm = NoTerm
    Choice = {f1}
    NoChoice = NoChoice
    PageSize = 2
    MaxEntries = 5
    MaxFeedLoads = 3
INVARIANT ListOfWorkspace
INVARIANT OneTaskPerForm
INVARIANT FiltersAsChosen
INVARIANT HistoryWhole
PROPERTY BouncedOnlyOnWord
PROPERTY OneWorkspacePerSetup
PROPERTY LandsOnNothingLeftBehind
SYMMETRY Workspaces
CHECK_DEADLOCK FALSE
