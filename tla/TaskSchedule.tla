----------------------------- MODULE TaskSchedule -----------------------------
(***************************************************************************)
(* The reminder schedule of the tasks of one project: what is armed, when  *)
(* it is re-planned, and how task edits race the project being archived,   *)
(* restored or updated.                                                    *)
(*                                                                         *)
(* Sources (under src/server/src): utils/reminderSchedule.ts,              *)
(* controllers/task.controller.ts, controllers/project.controller.ts, and  *)
(* the claim of jobs/taskReminder.ts.                                      *)
(*                                                                         *)
(* As in Membership, a handler reads first and writes in one database      *)
(* transaction later, so a request is a small process.  Restoring is the   *)
(* one transaction whose own read and write are far enough apart to matter *)
(* at READ COMMITTED, so it has a step for each.  Instants are the points  *)
(* of a discrete clock; calendar arithmetic is left to utils/dueDate.ts.   *)
(***************************************************************************)
EXTENDS Integers

CONSTANTS
    Task,        \* tasks of the project
    Request,     \* slots for HTTP requests in flight at the same time
    Horizon,     \* the last instant: bounds the clock and every date
    MaxVersion,  \* bounds Task.version
    User,        \* accounts a task can be assigned to
    Deadlines, Starts,  \* the dates a request body can ask for
    Leads,       \* how long before its deadline a reminder can be asked for
    StartLead,   \* how long before the start the "starts tomorrow" reminder fires
    Ops,         \* the operations this instance lets requests perform
    Null

AllOps == {"create", "edit", "deleteTask", "archive", "restore", "update"}

ASSUME ScheduleAssumption ==
    /\ Horizon \in Nat /\ MaxVersion \in Nat
    /\ Deadlines \subseteq 0 .. Horizon /\ Starts \subseteq 0 .. Horizon
    /\ Leads \subseteq Nat /\ StartLead \in Nat
    /\ Null \notin Int \cup User \cup {"archived"}
    /\ Ops \subseteq AllOps

VARIABLES
    clock,       \* the current instant
    project,     \* Project.state and Project.priorState
    task,        \* the Task rows
    req          \* the requests in flight

vars == <<clock, project, task, req>>

-------------------------------------------------------------------------------
(* The rows *)

Time      == 0 .. Horizon
Settable  == {"active", "on_hold", "completed"}      \* DIRECTLY_SETTABLE_STATES
Status    == {"todo", "started", "completed"}        \* "started": in progress or in review
Field     == {"remindAt", "overdueCheckAt", "startReminderAt"}
Schedule  == [Field -> Time \cup {Null}]
NoPlan    == [f \in Field |-> Null]

Project == [state : Settable \cup {"archived"}, prior : Settable \cup {"archived", Null}]
Row     == [life : {"unborn", "live", "deleted"}, status : Status,
            due : Time \cup {Null}, start : Time \cup {Null}, offset : Leads \cup {Null},
            assignee : User \cup {Null}, version : 0 .. MaxVersion, schedule : Schedule]

ASSUME RowsAreNotNull == Null \notin Row

Unborn == [life |-> "unborn", status |-> "todo", due |-> Null, start |-> Null,
           offset |-> Null, assignee |-> Null, version |-> 0, schedule |-> NoPlan]

\* What a request has read: the version of the task it edits, the project's
\* state or priorState, and the rows it will write.
RequestState ==
    [pc : {"idle", "loaded", "restoring"}, op : AllOps \cup {Null},
     task : Task \cup {Null}, version : 0 .. MaxVersion,
     seen : Settable \cup {"archived", Null}, rows : [Task -> Row \cup {Null}]]

NoRows == [t \in Task |-> Null]
Idle   == [pc |-> "idle", op |-> Null, task |-> Null, version |-> 0,
           seen |-> Null, rows |-> NoRows]

TypeOK ==
    /\ clock \in Time
    /\ project \in Project
    /\ task \in [Task -> Row]
    /\ req \in [Request -> RequestState]

Archived   == project.state = "archived"
Live(t)    == task[t].life = "live"
Open(row)  == row.status # "completed"

-------------------------------------------------------------------------------
(* utils/reminderSchedule.ts *)

\* Only an instant still ahead is worth arming.
Ahead(i) == IF i # Null /\ i > clock THEN i ELSE Null

Before(i, lead) == IF i = Null \/ lead = Null THEN Null ELSE i - lead

ComputeSchedule(row, state) ==
    IF ~Open(row) \/ state = "archived" THEN NoPlan
    ELSE [f \in Field |->
            CASE f = "remindAt"        -> Ahead(Before(row.due, row.offset))
              [] f = "overdueCheckAt"  -> Ahead(row.due)
              [] f = "startReminderAt" -> IF row.status = "todo"
                                          THEN Ahead(Before(row.start, StartLead)) ELSE Null]

\* Mutant: a moved deadline alone does not re-plan.
InputsChangedForgetsDue(before, after) ==
    \/ before.offset # after.offset
    \/ before.start # after.start
    \/ (before.status = "todo") # (after.status = "todo")
    \/ Open(before) # Open(after)

\* scheduleInputsChanged: within one edit the project's state is the same.
ScheduleInputsChanged(before, after) ==
    \/ before.due # after.due
    \/ before.offset # after.offset
    \/ before.start # after.start
    \/ (before.status = "todo") # (after.status = "todo")
    \/ Open(before) # Open(after)

\* What a request body can ask a task to become (assertStartNotAfterDue).
Body == {b \in [status : Status, due : Deadlines \cup {Null}, start : Starts \cup {Null},
                offset : Leads \cup {Null}, assignee : User \cup {Null}] :
           b.due = Null \/ b.start = Null \/ b.start <= b.due}

WithBody(row, b) == [row EXCEPT !.status = b.status, !.due = b.due, !.start = b.start,
                                !.offset = b.offset, !.assignee = b.assignee]

\* A new task as planned by reminderFieldsForNewTask, as for a project that is
\* not archived.
NewTask(b) ==
    LET row == WithBody([Unborn EXCEPT !.life = "live"], b)
    IN  [row EXCEPT !.schedule = ComputeSchedule(row, Null)]

Init ==
    /\ clock = 0
    /\ project = [state |-> "active", prior |-> Null]
    /\ task \in [Task -> {Unborn} \cup {NewTask(b) : b \in Body}]
    /\ req = [r \in Request |-> Idle]

-------------------------------------------------------------------------------
(* Tasks: task.controller.ts *)

Load(r, op, q) ==
    /\ req[r] = Idle /\ op \in Ops
    /\ req' = [req EXCEPT ![r] = q]
    /\ UNCHANGED <<clock, project, task>>

\* The request ends without effect: a check failed, its conditional update
\* matched no row and the transaction rolled back, or the process died.
Abort(r) ==
    /\ req[r] # Idle
    /\ req' = [req EXCEPT ![r] = Idle]
    /\ UNCHANGED <<clock, project, task>>

\* createWorkspaceTask and createSubtask test the project and plan the schedule
\* before their transaction.
CreateLoad(r, t, b) ==
    /\ task[t].life = "unborn" /\ ~Archived
    /\ \A s \in Request : req[s].op = "create" => req[s].task # t     \* ids are fresh
    /\ Load(r, "create", [Idle EXCEPT !.pc = "loaded", !.op = "create", !.task = t,
                                        !.rows = [NoRows EXCEPT ![t] = NewTask(b)]])

CreateTask(r) ==
    LET t == req[r].task IN
    /\ req[r].pc = "loaded" /\ req[r].op = "create"
    /\ task' = [task EXCEPT ![t] = req[r].rows[t]]
    /\ req' = [req EXCEPT ![r] = Idle]
    /\ UNCHANGED <<clock, project>>

\* loadTaskForMember and assertTaskWritable, for an edit or a deletion.
TaskLoad(r, t, op) ==
    /\ op \in {"edit", "deleteTask"}
    /\ Live(t) /\ ~Archived
    /\ Load(r, op, [Idle EXCEPT !.pc = "loaded", !.op = op, !.task = t,
                                !.version = task[t].version])

\* editTask and updateTaskStatus, through updateWithVersionCheck.
EditTask(r, b) ==
    LET t == req[r].task
        after == [WithBody(task[t], b) EXCEPT !.version = task[t].version + 1]
    IN
    /\ req[r].pc = "loaded" /\ req[r].op = "edit"
    /\ Live(t)
    /\ task[t].version = req[r].version /\ task[t].version < MaxVersion
    /\ task' = [task EXCEPT ![t] =
                  IF ScheduleInputsChanged(task[t], after)
                  THEN [after EXCEPT !.schedule = ComputeSchedule(after, project.state)]
                  ELSE after]
    /\ req' = [req EXCEPT ![r] = Idle]
    /\ UNCHANGED <<clock, project>>

\* deleteTask deletes by id, whatever the version.
DeleteTask(r) ==
    LET t == req[r].task IN
    /\ req[r].pc = "loaded" /\ req[r].op = "deleteTask"
    /\ Live(t)
    /\ task' = [task EXCEPT ![t] = [Unborn EXCEPT !.life = "deleted"]]
    /\ req' = [req EXCEPT ![r] = Idle]
    /\ UNCHANGED <<clock, project>>

-------------------------------------------------------------------------------
(* The project: project.controller.ts *)

\* A restore in progress holds the lock of the project's row.
Unlocked == \A r \in Request : req[r].pc # "restoring"

\* loadProjectForMember and the tests of the state it read: an update needs a
\* project that is not archived, a restore one that is, an archive neither.
ProjectLoad(r, op) ==
    /\ op \in {"archive", "restore", "update"}
    /\ op = "update" => ~Archived
    /\ op = "restore" => Archived
    /\ Load(r, op, [Idle EXCEPT !.pc = "loaded", !.op = op,
              !.seen = CASE op = "restore" -> project.prior
                         [] op = "archive" -> project.state
                         [] OTHER          -> Null])

\* project.update by id: any state, or none (the name alone changes).
UpdateProject(r, s) ==
    /\ req[r].pc = "loaded" /\ req[r].op = "update"
    /\ Unlocked
    /\ s \in Settable \cup {project.state}
    /\ project' = [project EXCEPT !.state = s]
    /\ req' = [req EXCEPT ![r] = Idle]
    /\ UNCHANGED <<clock, task>>

\* Mutant: reminders are left armed.
ArchiveOnlyProject(r) ==
    /\ req[r].pc = "loaded" /\ req[r].op = "archive"
    /\ Unlocked /\ ~Archived
    /\ project' = [state |-> "archived", prior |-> req[r].seen]
    /\ req' = [req EXCEPT ![r] = Idle]
    /\ UNCHANGED <<clock, task>>

\* archiveProject: conditional on "not archived yet"; the prior state is the one
\* the handler read.  It clears two of the three armed instants.
ArchiveProject(r) ==
    /\ req[r].pc = "loaded" /\ req[r].op = "archive"
    /\ Unlocked /\ ~Archived
    /\ project' = [state |-> "archived", prior |-> req[r].seen]
    /\ task' = [t \in Task |-> IF Live(t)
                  THEN [task[t] EXCEPT !.schedule = [task[t].schedule EXCEPT
                                         !["remindAt"] = Null, !["overdueCheckAt"] = Null]]
                  ELSE task[t]]
    /\ req' = [req EXCEPT ![r] = Idle]
    /\ UNCHANGED clock

\* The open tasks with a date, which a restore re-plans, as they are read.
RowsToPlan == [t \in Task |->
                 IF Live(t) /\ Open(task[t]) /\ (task[t].due # Null \/ task[t].start # Null)
                 THEN task[t] ELSE Null]

\* restoreProject's transaction, first half: it updates the project's row (the
\* lock) and reads the open tasks.
RestoreRead(r) ==
    /\ req[r].pc = "loaded" /\ req[r].op = "restore"
    /\ Unlocked
    /\ req' = [req EXCEPT ![r] = [req[r] EXCEPT !.pc = "restoring", !.rows = RowsToPlan]]
    /\ UNCHANGED <<clock, project, task>>

\* Mutant: the schedules are not re-planned.
RestoreOnlyProject(r) ==
    /\ req[r].pc = "restoring"
    /\ project' = [state |-> IF req[r].seen = Null THEN "active" ELSE req[r].seen, prior |-> Null]
    /\ req' = [req EXCEPT ![r] = Idle]
    /\ UNCHANGED <<clock, task>>

\* Second half: it writes the schedule of each task it read, as planned from
\* what it read, and commits.  A task deleted meanwhile rolls it all back.
RestoreProject(r) ==
    LET state == IF req[r].seen = Null THEN "active" ELSE req[r].seen
        rows  == req[r].rows
    IN
    /\ req[r].pc = "restoring"
    /\ \A t \in Task : rows[t] # Null => Live(t)
    /\ project' = [state |-> state, prior |-> Null]
    /\ task' = [t \in Task |-> IF rows[t] # Null
                  THEN [task[t] EXCEPT !.schedule = ComputeSchedule(rows[t], state)]
                  ELSE task[t]]
    /\ req' = [req EXCEPT ![r] = Idle]
    /\ UNCHANGED clock

-------------------------------------------------------------------------------
(* The sweep's claim (jobs/taskReminder.ts) and the passage of time *)

\* The conditional update of processDueSchedules: clear the exact value read.
Claim(t, f, i) ==
    /\ Live(t) /\ task[t].schedule[f] = i
    /\ task' = [task EXCEPT ![t] = [task[t] EXCEPT !.schedule =
                                      [task[t].schedule EXCEPT ![f] = Null]]]
    /\ UNCHANGED <<clock, project, req>>

Due(t, f, now) == Live(t) /\ task[t].schedule[f] # Null /\ task[t].schedule[f] <= now

Tick ==
    /\ clock < Horizon
    /\ clock' = clock + 1
    /\ UNCHANGED <<project, task, req>>

RequestStep(r) ==
    \/ \E t \in Task, b \in Body : CreateLoad(r, t, b)
    \/ CreateTask(r)
    \/ \E t \in Task, op \in Ops : TaskLoad(r, t, op)
    \/ \E b \in Body : EditTask(r, b)
    \/ DeleteTask(r)
    \/ \E op \in Ops : ProjectLoad(r, op)
    \/ \E s \in Settable \cup {"archived"} : UpdateProject(r, s)
    \/ ArchiveProject(r)
    \/ RestoreRead(r)
    \/ RestoreProject(r)
    \/ Abort(r)

ClaimStep == \E t \in Task, f \in Field : Due(t, f, clock) /\ Claim(t, f, task[t].schedule[f])

Next == (\E r \in Request : RequestStep(r)) \/ ClaimStep \/ Tick

Spec == Init /\ [][Next]_vars
-------------------------------------------------------------------------------
(* What must hold *)

\* An open task of a project that is not archived, with its deadline ahead, has
\* its overdue alert armed for that deadline (API_DOCUMENTATION.md "Reminders").
ArmedForDeadline ==
    \A t \in Task :
      (Live(t) /\ Open(task[t]) /\ ~Archived /\ task[t].due # Null /\ task[t].due > clock)
      => task[t].schedule["overdueCheckAt"] = task[t].due

\* What a restore is about to write for a task was planned from a row that an edit
\* has changed since, or leaves out a task that has become one to plan.
Overtaken(r, t) ==
    LET was == req[r].rows[t]
    IN  IF was = Null THEN RowsToPlan[t] # Null ELSE was.version # task[t].version

\* That is lost in two ways only: an update that read the project before it was
\* archived takes it out of the archive, and nothing re-plans its tasks
\* (project.controller.ts:124-152); or an edit comes between the two halves of a
\* restore.  No edit, reopening, archive or restore loses it otherwise, nor two of
\* them that overlap.
AlertLostOnlyToStaleWrite ==
    [][(ArmedForDeadline /\ ~ArmedForDeadline')
         => \E r \in Request :
              /\ req'[r] = Idle
              /\ \/ req[r].op = "update" /\ Archived /\ ~Archived'
                 \/ req[r].pc = "restoring" /\ \E t \in Task : Overtaken(r, t)]_vars

\* While a project is archived its reminders and overdue alerts pause, even when
\* an edit that read it before commits after (PRD FR05).
ArchivePausesReminders ==
    Archived => \A t \in Task : Live(t) =>
                  /\ task[t].schedule["remindAt"] = Null
                  /\ task[t].schedule["overdueCheckAt"] = Null

\* The schedule columns of an existing task are only ever set to a future time,
\* so nothing is sent in a burst for instants that passed while the work was
\* finished or archived (schema.prisma, Task.remindAt).
NeverArmsThePast ==
    [][\A t \in Task, f \in Field :
         LET armed == task'[t].schedule[f] IN
         (Live(t) /\ armed # Null /\ armed # task[t].schedule[f]) => armed > clock]_vars

\* What is armed is for the task as it is: the overdue alert for its own deadline,
\* and for finished work nothing.
Planned(row) ==
    /\ row.schedule["overdueCheckAt"] \in {Null, row.due}
    /\ ~Open(row) => row.schedule = NoPlan

\* Every way of moving a deadline or of finishing a task re-plans it.  The plan
\* of a task comes to be for what the task no longer is in one way only: a restore
\* writes what it planned from a row that an edit has changed since it was read
\* (project.controller.ts:182-199).
PlanLostOnlyToStaleRestore ==
    [][\A t \in Task : Planned(task[t]) /\ ~Planned(task'[t])
         => \E r \in Request : /\ req[r].pc = "restoring" /\ req'[r] = Idle
                               /\ Overtaken(r, t)]_vars
===============================================================================
