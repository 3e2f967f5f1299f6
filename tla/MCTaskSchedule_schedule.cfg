SPECIFICATION ScenarioSpec
CONSTANTS
    Task = {t1}
    Request = {r1, r2}
    Horizon = 3
    Short = 2
    MaxVersion = 2
    User = {}
    Deadlines = {1, 2, 3}
    Starts = {0, 2}
    Leads = {1}
    StartLead = 1
    Ops <- AllOps
    Null = Null
    Zone <- Zones
    DayLength = 4
    WeekLength = 2
    MonthLength = 3
    DaysAhead = 2
    PickedDay = {1, 2}
    LastInstant = 9
    Unset = Unset
INVARIANT ArchivePausesReminders
INVARIANT ViewsFollowCalendar
PROPERTY DatesStayAsPicked
PROPERTY AlertLostOnlyToStaleWrite
PROPERTY PlanLostOnlyToStaleRestore
SYMMETRY Slots
CHECK_DEADLOCK FALSE
