------------------------------- MODULE Calendar -------------------------------
(***************************************************************************)
(* Dates and time zones: how the form's due and start fields become the    *)
(* saved instants and are shown again, and which list a task is in when    *)
(* someone looks at it from some zone.                                     *)
(*                                                                         *)
(* Sources: src/server/src/utils/{dueDate,startDate,taskViews}.ts,         *)
(* services/performanceService.ts, the date part of editTask in            *)
(* controllers/task.controller.ts; src/client/src/utils/{dueFields,        *)
(* startFields,taskMeta,taskBuckets}, hooks/useTaskFilters.ts,             *)
(* components/overview/{TodayAgenda,WeekAhead}.tsx.                        *)
(*                                                                         *)
(* An instant is an integer, and so is what a clock on the wall shows: the *)
(* units since midnight of day 0.  A zone is its offset before and after   *)
(* one change of the clock (a zone that never changes has the same twice): *)
(* no zone changes twice within the few days a conversion looks at.        *)
(***************************************************************************)
EXTENDS Integers

CONSTANTS
    Zone,         \* the zones people are in
    DayLength,    \* units in a day
    WeekLength,   \* days in a week, which starts on day 0
    MonthLength,  \* days in a month, which starts on day 0
    DaysAhead,    \* DAYS_AHEAD
    PickedDay,    \* the days somebody picks in the form
    LastInstant,  \* bounds the clock
    Unset

ASSUME CalendarAssumption ==
    /\ Zone # {} /\ Zone \subseteq [before : Int, after : Int, at : Int]
    /\ DayLength \in Nat \ {0, 1} /\ WeekLength \in Nat \ {0} /\ MonthLength \in Nat \ {0}
    /\ DaysAhead \in Nat /\ PickedDay \subseteq Int /\ LastInstant \in Nat
    /\ Unset \notin Int \cup Zone \cup {"date", "datetime"}

VARIABLES
    now,          \* the clock
    plan,         \* the dates and the status of a task
    profile,      \* the zone in the profile of the person who edits it
    device,       \* the zone of the browser they use
    sheet         \* the date fields of the drawer they have open

calendarVars == <<now, plan, profile, device, sheet>>

-------------------------------------------------------------------------------
(* Clocks *)

OffsetAt(z, i) == IF i < z.at THEN z.before ELSE z.after

\* What a clock in zone z shows at an instant, and the day and the time of it.
Wall(z, i)   == i + OffsetAt(z, i)
DayOf(z, i)  == Wall(z, i) \div DayLength
TimeOf(z, i) == Wall(z, i) % DayLength

\* Mutant: the offset is looked up once.
FromWallOnce(z, w) == w - OffsetAt(z, w)

\* The instant at which the clock shows w.  The offset is looked up a second
\* time, at the first answer: the clock may change in between.
FromWall(z, w) ==
    LET first     == OffsetAt(z, w)
        corrected == OffsetAt(z, w - first)
    IN  IF corrected = first THEN w - first ELSE w - corrected

\* The instants at which it really does: none where the clock jumps over w, two
\* where it goes back over it.
Showing(z, w) == {i \in {w - z.before, w - z.after} : Wall(z, i) = w}

\* `new Date("<date>T<time>")' in the browser.
BrowserInstant(z, w) ==
    IF Wall(z, w - z.before) # w /\ Wall(z, w - z.after) = w THEN w - z.after ELSE w - z.before

Midnight(z, d) == FromWall(z, d * DayLength)

-------------------------------------------------------------------------------
(* The form's fields, and what they mean to the server *)

Instant == Int
Kind    == {"date", "datetime", Unset}
Dated   == [at : Instant \cup {Unset}, kind : Kind, zone : Zone \cup {Unset}]
NoDate  == [at |-> Unset, kind |-> Unset, zone |-> Unset]

Fields   == [day : Int \cup {Unset}, time : (0 .. DayLength - 1) \cup {Unset}]
NoFields == [day |-> Unset, time |-> Unset]

\* Shown the way it was set: a date keeps its day in its own zone, a moment is
\* shown in the browser's.
FieldsOf(dated, dev) ==
    IF dated.at = Unset THEN NoFields
    ELSE IF dated.kind = "date" THEN [day |-> DayOf(dated.zone, dated.at), time |-> Unset]
    ELSE [day |-> DayOf(dev, dated.at), time |-> TimeOf(dev, dated.at)]

\* A date means one time of that day: 23:59 when due, midnight to start.  (The
\* zone saved beside a moment is never read.)
OnDay(d, time, z)   == [at |-> FromWall(z, d * DayLength + time), kind |-> "date", zone |-> z]
AtMoment(d, t, dev) == [at |-> BrowserInstant(dev, d * DayLength + t), kind |-> "datetime",
                        zone |-> Unset]

\* Mutant: untouched fields are sent again with the rest.
ResendAlways(fields, before, time) ==
    CASE fields.day # Unset /\ fields.time # Unset -> AtMoment(fields.day, fields.time, device)
      [] fields.day # Unset /\ fields.time = Unset -> OnDay(fields.day, time, profile)
      [] OTHER -> NoDate

\* What the task will have: fields left as they were are not sent again.
Resent(fields, before, time) ==
    CASE fields = FieldsOf(before, device)         -> before
      [] fields # FieldsOf(before, device) /\ fields.day # Unset /\ fields.time # Unset
                                                   -> AtMoment(fields.day, fields.time, device)
      [] fields # FieldsOf(before, device) /\ fields.day # Unset /\ fields.time = Unset
                                                   -> OnDay(fields.day, time, profile)
      [] OTHER                                     -> NoDate

EndOfDay   == DayLength - 1
StartOfDay == 0

\* The client's check compares what the fields say, the server's the instants.
Shows(fields, time) == fields.day * DayLength + (IF fields.time = Unset THEN time ELSE fields.time)
FieldsValid(f) ==
    /\ f.due.time # Unset => f.due.day # Unset
    /\ f.start.time # Unset => f.start.day # Unset
    /\ f.due.day # Unset /\ f.start.day # Unset
         => Shows(f.start, StartOfDay) <= Shows(f.due, EndOfDay)
InOrder(start, due) == start.at # Unset /\ due.at # Unset => start.at <= due.at

-------------------------------------------------------------------------------
(* The lists *)

Finished(t) == t.status = "completed"
HasDue(t)   == ~Finished(t) /\ t.due.at # Unset

\* Mutant: a day after midnight is the next midnight.
TomorrowLater(n, z) == Midnight(z, DayOf(z, n)) + DayLength

\* dayBounds and monthBounds.
StartOfToday(n, z)    == Midnight(z, DayOf(z, n))
StartOfTomorrow(n, z) == Midnight(z, DayOf(z, n) + 1)
Monday(d)             == d - (d % WeekLength)
StartOfWeek(n, z)     == Midnight(z, Monday(DayOf(z, n)))
StartOfMonth(m, z)    == Midnight(z, m * MonthLength)

\* The server's ?due= views, and the month a completed task is counted in.
InView(view, t, n, z) ==
    \/ view = "today"     /\ HasDue(t) /\ StartOfToday(n, z) <= t.due.at /\ t.due.at < StartOfTomorrow(n, z)
    \/ view = "upcoming"  /\ HasDue(t) /\ StartOfTomorrow(n, z) <= t.due.at
    \/ view = "overdue"   /\ HasDue(t) /\ t.due.at < n
    \/ view = "none"      /\ ~Finished(t) /\ t.due.at = Unset
    \/ view = "week"      /\ Finished(t) /\ StartOfWeek(n, z) <= t.doneAt
    \/ view = "scheduled" /\ ~Finished(t) /\ t.start.at # Unset /\ n < t.start.at
Views == {"today", "upcoming", "overdue", "none", "week", "scheduled"}
CountedIn(m, t, z) == /\ Finished(t)
                      /\ StartOfMonth(m, z) <= t.doneAt /\ t.doneAt < StartOfMonth(m + 1, z)

\* The same for the lists the client filters itself.
MatchesFilter(view, t, n, z) ==
    \/ view = "today"     /\ HasDue(t) /\ DayOf(z, t.due.at) = DayOf(z, n)
    \/ view = "upcoming"  /\ HasDue(t) /\ DayOf(z, t.due.at) > DayOf(z, n)
    \/ view = "overdue"   /\ HasDue(t) /\ t.due.at < n
    \/ view = "none"      /\ ~Finished(t) /\ t.due.at = Unset
    \/ view = "week"      /\ Finished(t) /\ DayOf(z, t.doneAt) >= Monday(DayOf(z, n))
    \/ view = "scheduled" /\ ~Finished(t) /\ t.start.at # Unset /\ n < t.start.at

\* The Overview: today's agenda, and the column of the week ahead.
PlannedDay(dated, z) == DayOf(IF dated.kind = "date" THEN dated.zone ELSE z, dated.at)
StartsOn(t, d, z)    == t.status = "todo" /\ t.start.at # Unset /\ PlannedDay(t.start, z) = d
OnAgenda(t, n, z) ==
    \/ MatchesFilter("overdue", t, n, z)
    \/ MatchesFilter("today", t, n, z)
    \/ StartsOn(t, DayOf(z, n), z)
InColumn(t, d, z) == \/ HasDue(t) /\ PlannedDay(t.due, z) = d
                     \/ StartsOn(t, d, z)

-------------------------------------------------------------------------------
(* What people do *)

Plan  == [due : Dated, start : Dated, status : {"todo", "started", "completed"},
          doneAt : Instant \cup {Unset}]
Sheet == [open : BOOLEAN, due : Fields, start : Fields, travelled : BOOLEAN,
          typed : SUBSET {"due", "start"}]
Shut  == [open |-> FALSE, due |-> NoFields, start |-> NoFields, travelled |-> FALSE, typed |-> {}]

CalendarTypeOK ==
    /\ now \in 0 .. LastInstant /\ profile \in Zone /\ device \in Zone
    /\ plan \in Plan /\ sheet \in Sheet
    /\ \A dated \in {plan.due, plan.start} :
         (dated.at = Unset <=> dated.kind = Unset) /\ (dated.kind = "date" <=> dated.zone # Unset)
    /\ Finished(plan) <=> plan.doneAt # Unset
    /\ InOrder(plan.start, plan.due)

CalendarInit ==
    /\ now = 0 /\ profile \in Zone /\ device \in Zone
    /\ plan = [due |-> NoDate, start |-> NoDate, status |-> "todo", doneAt |-> Unset]
    /\ sheet = Shut

OpenSheet ==
    /\ ~sheet.open
    /\ sheet' = [Shut EXCEPT !.open = TRUE, !.due = FieldsOf(plan.due, device),
                             !.start = FieldsOf(plan.start, device)]
    /\ UNCHANGED <<now, plan, profile, device>>

\* Once in each field, so that a form's history stays short.
TypeDate(which, fields) ==
    /\ sheet.open /\ which \notin sheet.typed
    /\ sheet' = [sheet EXCEPT ![which] = fields, !.typed = sheet.typed \cup {which}]
    /\ UNCHANGED <<now, plan, profile, device>>

\* The save of the drawer and the part of editTask that is about dates; an
\* answer reloads the fields, and so closes what this module knows of it.
SaveSheet ==
    LET due   == Resent(sheet.due, plan.due, EndOfDay)
        start == Resent(sheet.start, plan.start, StartOfDay)
    IN
    /\ sheet.open /\ FieldsValid(sheet) /\ InOrder(start, due)
    /\ plan' = [plan EXCEPT !.due = due, !.start = start]
    /\ sheet' = Shut
    /\ UNCHANGED <<now, profile, device>>

DiscardSheet ==
    /\ sheet.open
    /\ sheet' = Shut
    /\ UNCHANGED <<now, plan, profile, device>>

SetProgress(status) ==
    /\ status # plan.status
    /\ plan' = [plan EXCEPT !.status = status, !.doneAt = IF status = "completed" THEN now ELSE Unset]
    /\ UNCHANGED <<now, profile, device, sheet>>

\* updateProfile: the profile's zone alone.
ChangeTimezone(z) ==
    /\ profile' = z
    /\ UNCHANGED <<now, plan, device, sheet>>

\* The browser's clock is set to another zone, an open drawer or not.
Travel(z) ==
    /\ device' = z
    /\ sheet' = [sheet EXCEPT !.travelled = sheet.open]
    /\ UNCHANGED <<now, plan, profile>>

ClockTick == now < LastInstant /\ now' = now + 1 /\ UNCHANGED <<plan, profile, device, sheet>>

Typable == {f \in [day : PickedDay \cup {Unset}, time : {1, Unset}] : f.day = Unset => f.time = Unset}

CalendarNext ==
    \/ OpenSheet \/ SaveSheet \/ DiscardSheet \/ ClockTick
    \/ \E which \in {"due", "start"}, f \in Typable : TypeDate(which, f)
    \/ \E status \in {"todo", "started", "completed"} : SetProgress(status)
    \/ \E z \in Zone : ChangeTimezone(z) \/ Travel(z)

CalendarSpec == CalendarInit /\ [][CalendarNext]_calendarVars

-------------------------------------------------------------------------------
(* What must hold *)

\* A saved date is what was picked and stays so: a date picked without a time
\* comes back as that date, unless that day skips it; and nothing moves a date
\* but a form in which it was changed, neither a save of something else nor
\* another time zone, unless the browser's own clock was set to another zone with
\* the form open (dueFields.ts, user.controller.ts).
Existing(z, fields, time) == fields.day = Unset \/ Showing(z, Shows(fields, time)) # {}
PickedShown(which, fields, stored, time) ==
    fields.time = Unset /\ which \in sheet.typed /\ Existing(profile, fields, time)
        => FieldsOf(stored, device) = fields
DatesStayAsPicked ==
    [][/\ SaveSheet => /\ PickedShown("due", sheet.due, plan'.due, EndOfDay)
                       /\ PickedShown("start", sheet.start, plan'.start, StartOfDay)
       /\ plan'.due # plan.due => "due" \in sheet.typed \/ sheet.travelled
       /\ plan'.start # plan.start => "start" \in sheet.typed \/ sheet.travelled]_calendarVars

\* Wherever the midnights at both ends of a day come once, the server's bounds
\* sort tasks as the calendar on the wall does: counts and lists agree
\* (taskBuckets.ts, taskViews.ts), open work with a deadline is in some list, and
\* what is done is counted in the month it was done in.
Once(z, d) == LET i == Midnight(z, d) IN Showing(z, d * DayLength) = {i}
Agree(views, z)   == \A v \in views : InView(v, plan, now, z) <=> MatchesFilter(v, plan, now, z)
InSomeList(z)     == HasDue(plan) => \E v \in {"today", "upcoming", "overdue"} : InView(v, plan, now, z)
InItsMonth(m, z)  == DayOf(z, plan.doneAt) \div MonthLength = m <=> CountedIn(m, plan, z)
OnOverview(d, z) ==
    /\ HasDue(plan) /\ plan.due.zone \in {z, Unset}
    /\ DayOf(z, plan.due.at) <= d + DaysAhead
    => OnAgenda(plan, now, z) \/ \E k \in d + 1 .. d + DaysAhead : InColumn(plan, k, z)
ViewsFollowCalendar ==
    Finished(plan) \/ HasDue(plan) => \A z \in Zone :
      LET d == DayOf(z, now) IN
      /\ Once(z, d) /\ Once(z, d + 1) => /\ Agree({"today", "upcoming"}, z)
                                         /\ InSomeList(z) /\ OnOverview(d, z)
      /\ Once(z, Monday(d)) => Agree({"week"}, z)
      /\ Finished(plan) =>
           \A m \in {DayOf(z, plan.doneAt) \div MonthLength} :
             Once(z, m * MonthLength) /\ Once(z, (m + 1) * MonthLength) => InItsMonth(m, z)
===============================================================================
