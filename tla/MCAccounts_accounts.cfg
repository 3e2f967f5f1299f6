SPECIFICATION AccountsSpec
CONSTANTS
    Browser = {b1}
    Page = {r1, r2}
    SessionId = {s1, s2}
    MaxPassword = 2
    MaxRotation = 2
    MaxLost = 1
    NoSession = NoSession
    Handler = {r1, r2}
    Link = {s1, s2}
    MaxUsers = 2
    MaxDeaths = 1
    NoLink = NoLink
    Console = {r1, r2}
    OpSession = {s1, s2}
    LastStep = 2
    MaxSecret = 2
    MaxResets = 2
    NoOpSession = NoOpSession
    MaxAddress = 2
    Post = {p1}
    Sweep = {r1, r2}
    Form = {f1}
    BatchSize = 1
    MaxBroken = 1
    LastUser = 2
    LastTask = 1
    Mailbox = {a1, a2}
    NoMailbox = NoMailbox
    Absent = Absent
    MaxImports = 2
    MaxEdits = 1
    Ticket = {s1, s2}
    Caller = {r1, r2}
    NoTicket = NoTicket
    MaxWords = 2
    MaxCloses = 1
INVARIANT ImportedWhole
INVARIANT CookieAtMostOneBehind
INVARIANT PasswordChangeEndsSessions
INVARIANT NoDeadEnd
INVARIANT ConsoleNeedsGrant
INVARIANT CodeSignsInOnce
INVARIANT EveryoneOnce
PROPERTY StaysClosed
SYMMETRY Symmetric
CHECK_DEADLOCK FALSE
