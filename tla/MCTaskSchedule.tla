---------------------------- MODULE MCTaskSchedule ----------------------------
(***************************************************************************)
(* Small instances of TaskSchedule and Calendar for TLC.  They share no    *)
(* state, and a behaviour follows one scenario, chosen at the start:       *)
(*   planning     every operation, one request at a time                   *)
(*   replanning   two requests at a time on a task that exists, with       *)
(*                nothing restored, over a shorter time                    *)
(*   restoring    one edit at a time beside one archiving or restoring     *)
(*   dating       a task's dates, set and seen from zones whose clocks     *)
(*                change                                                   *)
(***************************************************************************)
EXTENDS TaskSchedule, Calendar, FiniteSets, TLC

CONSTANT Short  \* the last instant of the scenarios of two requests

VARIABLE scenario

allVars == <<vars, calendarVars, scenario>>

OverlappingOps == IF scenario = "restoring" THEN {"edit", "archive", "restore"}
                  ELSE {"edit", "deleteTask", "archive", "update"}

Busy == {r \in Request : req[r] # Idle}
Edits == {r \in Request : req[r].op = "edit"}

DatesOf(t) == {task[t].due, task[t].start} \ {Null}

\* Clocks that go forward over a unit or back over it, in a day or at midnight.
Clock(b, a, t) == [before |-> b, after |-> a, at |-> t]
Zones == {Clock(1, 1, 0), Clock(-2, -1, 8), Clock(0, -1, 5), Clock(1, 0, 7), Clock(-2, -1, 6)}
Homes == {Clock(-2, -1, 8), Clock(0, -1, 5)}

ScenarioInit ==
    /\ Init /\ CalendarInit
    /\ scenario \in {"planning", "replanning", "restoring", "dating"}
    /\ profile \in Homes /\ device \in Homes
    /\ scenario # "dating" => profile = device /\ profile.at = 5
    /\ scenario = "dating" => \A t \in Task : task[t] = Unborn
    /\ scenario \in {"replanning", "restoring"} => \A t \in Task : DatesOf(t) \subseteq 0 .. Short

\* Both say which states a step may lead to.
PlanningOnly == Cardinality(Busy') <= 1

OverlappingOnly ==
    /\ clock' <= Short
    /\ \A t \in Task : DatesOf(t)' \subseteq 0 .. Short
    /\ scenario = "restoring" => Cardinality(Edits') <= 1 /\ Cardinality(Busy' \ Edits') <= 1
    /\ \A r \in Request : req'[r].op \in OverlappingOps \cup {Null}

\* Dates are typed at the start, one at a time, and around the clock's changes:
\* a moment that every journey moves would leave any bound.
InHabit ==
    /\ profile' \in Homes /\ device' \in Homes
    /\ sheet'.open \/ profile' # profile \/ device' # device => now' = 0
    /\ {plan'.due.at, plan'.start.at} \subseteq 4 .. 12 \cup {Unset}
    /\ Cardinality(sheet'.typed) <= 1
    /\ "start" \in sheet'.typed => sheet'.start.day \in {1, Unset}

ScenarioNext ==
    /\ \/ /\ scenario # "dating" /\ Next /\ UNCHANGED calendarVars
          /\ (IF scenario = "planning" THEN PlanningOnly ELSE OverlappingOnly)
       \/ scenario = "dating" /\ CalendarNext /\ InHabit /\ UNCHANGED vars
    /\ UNCHANGED scenario

ScenarioSpec == ScenarioInit /\ [][ScenarioNext]_allVars

Slots == Permutations(Request)
===============================================================================
