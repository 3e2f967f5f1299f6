-------------------------- MODULE TaskScheduleProofs --------------------------
(***************************************************************************)
(* Proofs about TaskSchedule, for every set of tasks, requests and users,  *)
(* every horizon, every date and every lead time, and about Calendar, for  *)
(* every set of zones, whatever their offsets and changes of the clock.    *)
(***************************************************************************)
EXTENDS TaskSchedule, Calendar, TLAPS

-------------------------------------------------------------------------------
(* What computeSchedule returns *)

LEMMA BeforeBound ==
  ASSUME NEW i \in Time \cup {Null}, NEW lead \in Nat \cup {Null}
  PROVE  Before(i, lead) = Null \/ (Before(i, lead) \in Int /\ Before(i, lead) <= Horizon)
BY ScheduleAssumption DEF Before, Time

LEMMA AheadBound ==
  ASSUME NEW i, i = Null \/ (i \in Int /\ i <= Horizon), clock \in Time
  PROVE  Ahead(i) = Null \/ (Ahead(i) = i /\ Ahead(i) \in Time /\ Ahead(i) > clock)
BY ScheduleAssumption DEF Ahead, Time

\* A plan is made of instants ahead, the overdue alert is for the deadline, and
\* finished or archived work has none.
LEMMA PlanFacts ==
  ASSUME NEW row \in Row, NEW state, clock \in Time
  PROVE  LET planned == ComputeSchedule(row, state) IN
         /\ planned \in Schedule
         /\ \A f \in Field : planned[f] = Null \/ planned[f] > clock
         /\ planned["overdueCheckAt"] \in {Null, row.due}
         /\ (~Open(row) \/ state = "archived") => planned = NoPlan
<1> DEFINE remind == Ahead(Before(row.due, row.offset))
           starting == IF row.status = "todo" THEN Ahead(Before(row.start, StartLead)) ELSE Null
           planned == ComputeSchedule(row, state)
           Good(i) == i = Null \/ (i \in Time /\ i > clock)
<1>1. /\ row.due \in Time \cup {Null} /\ row.start \in Time \cup {Null}
      /\ row.offset \in Nat \cup {Null}
  BY ScheduleAssumption DEF Row
<1>2. Good(remind)
  BY <1>1, BeforeBound, AheadBound
<1>3. Good(Ahead(row.due)) /\ Ahead(row.due) \in {Null, row.due}
  <2>1. row.due = Null \/ (row.due \in Int /\ row.due <= Horizon)
    BY <1>1, ScheduleAssumption DEF Time
  <2> QED
    BY <2>1, AheadBound
<1>4. Good(starting)
  BY <1>1, BeforeBound, AheadBound, ScheduleAssumption
<1>5. CASE ~Open(row) \/ state = "archived"
  <2>1. planned = NoPlan
    BY <1>5 DEF ComputeSchedule
  <2>2. NoPlan \in Schedule /\ \A f \in Field : NoPlan[f] = Null
    BY DEF NoPlan, Schedule
  <2> QED
    BY <2>1, <2>2 DEF Field
<1>6. CASE ~(~Open(row) \/ state = "archived")
  <2> HIDE DEF remind, starting
  <2>1. planned = [f \in Field |-> CASE f = "remindAt"        -> remind
                                  [] f = "overdueCheckAt"  -> Ahead(row.due)
                                  [] f = "startReminderAt" -> starting]
    BY <1>6 DEF ComputeSchedule, remind, starting
  <2>2. /\ planned["remindAt"] = remind /\ planned["overdueCheckAt"] = Ahead(row.due)
        /\ planned["startReminderAt"] = starting
    BY <2>1 DEF Field
  <2>3. \A f \in Field : Good(planned[f])
    BY <2>2, <1>2, <1>3, <1>4 DEF Field
  <2>4. planned \in Schedule
    <3> DEFINE instant(f) == CASE f = "remindAt"        -> remind
                               [] f = "overdueCheckAt"  -> Ahead(row.due)
                               [] f = "startReminderAt" -> starting
    <3>1. planned = [f \in Field |-> instant(f)]
      BY <2>1
    <3> HIDE DEF instant, planned
    <3>2. \A f \in Field : instant(f) \in Time \cup {Null}
      BY <3>1, <2>3
    <3> QED
      BY <3>1, <3>2 DEF Schedule
  <2> QED
    BY <1>3, <1>6, <2>2, <2>3, <2>4
<1> QED
  BY <1>5, <1>6

-------------------------------------------------------------------------------
(* Rows *)

LEMMA IdleType == Idle \in RequestState
BY ScheduleAssumption DEF Idle, RequestState, NoRows

LEMMA UnbornType == Unborn \in Row
<1>1. NoPlan \in Schedule
  BY DEF NoPlan, Schedule
<1> QED
  BY <1>1, ScheduleAssumption DEF Unborn, Row, Status

LEMMA BodyType ==
  ASSUME NEW b \in Body
  PROVE  /\ b.status \in Status /\ b.due \in Time \cup {Null} /\ b.start \in Time \cup {Null}
         /\ b.offset \in Leads \cup {Null} /\ b.assignee \in User \cup {Null}
BY ScheduleAssumption DEF Body, Time

LEMMA WithBodyType ==
  ASSUME NEW row \in Row, NEW b \in Body
  PROVE  /\ WithBody(row, b) \in Row
         /\ WithBody(row, b).schedule = row.schedule /\ WithBody(row, b).life = row.life
         /\ WithBody(row, b).version = row.version
BY BodyType DEF WithBody, Row

LEMMA WithLifeType ==
  ASSUME NEW row \in Row, NEW life \in {"unborn", "live", "deleted"}
  PROVE  [row EXCEPT !.life = life] \in Row
BY DEF Row

LEMMA WithVersionType ==
  ASSUME NEW row \in Row, NEW v \in 0 .. MaxVersion
  PROVE  [row EXCEPT !.version = v] \in Row
BY DEF Row

LEMMA WithScheduleType ==
  ASSUME NEW row \in Row, NEW planned \in Schedule
  PROVE  [row EXCEPT !.schedule = planned] \in Row
BY DEF Row

LEMMA NewTaskType ==
  ASSUME NEW b \in Body, clock \in Time
  PROVE  /\ NewTask(b) \in Row /\ NewTask(b).life = "live" /\ NewTask(b).version = 0
         /\ NewTask(b).schedule["overdueCheckAt"] \in {Null, NewTask(b).due}
         /\ ~Open(NewTask(b)) => NewTask(b).schedule = NoPlan
<1> DEFINE born == [Unborn EXCEPT !.life = "live"]
           row == WithBody(born, b)
           planned == ComputeSchedule(row, Null)
<1>1. born \in Row /\ born.life = "live" /\ born.version = 0
  BY UnbornType, WithLifeType DEF Unborn
<1> HIDE DEF born
<1>2. row \in Row /\ row.life = "live" /\ row.version = 0
  BY <1>1, WithBodyType
<1> HIDE DEF row
<1>3. /\ planned \in Schedule /\ planned["overdueCheckAt"] \in {Null, row.due}
      /\ ~Open(row) => planned = NoPlan
  BY <1>2, PlanFacts
<1> HIDE DEF planned
<1>4. NewTask(b) = [row EXCEPT !.schedule = planned]
  BY DEF NewTask, row, planned, born
<1>5. [row EXCEPT !.schedule = planned] \in Row
  BY <1>2, <1>3, WithScheduleType
<1>6. /\ NewTask(b).life = row.life /\ NewTask(b).version = row.version
      /\ NewTask(b).due = row.due /\ NewTask(b).status = row.status
      /\ NewTask(b).schedule = planned
  BY <1>2, <1>4 DEF Row
<1> QED
  BY <1>2, <1>3, <1>4, <1>5, <1>6 DEF Open

-------------------------------------------------------------------------------
(* Type correctness *)

\* What a request in flight has loaded, beyond the type of its fields.
Loaded(q) ==
    /\ (q.pc = "loaded" /\ q.op \in {"create", "edit", "deleteTask"}) => q.task \in Task
    /\ (q.pc = "loaded" /\ q.op = "create") => q.rows[q.task] \in Row
    /\ (q.pc = "loaded" /\ q.op = "archive") => q.seen \in Settable \cup {"archived"}

IInv == TypeOK /\ \A r \in Request : Loaded(req[r])

LEMMA InitType == Init => IInv
<1> SUFFICES ASSUME Init PROVE IInv
  OBVIOUS
<1>1. clock \in Time
  BY ScheduleAssumption DEF Init, Time
<1>2. project \in Project
  BY DEF Init, Project, Settable
<1>3. task \in [Task -> Row]
  <2>1. {Unborn} \cup {NewTask(b) : b \in Body} \subseteq Row
    BY <1>1, UnbornType, NewTaskType
  <2> QED
    BY <2>1 DEF Init
<1>4. req \in [Request -> RequestState]
  BY IdleType DEF Init
<1>5. \A r \in Request : Loaded(req[r])
  BY DEF Init, Idle, Loaded
<1> QED
  BY <1>1, <1>2, <1>3, <1>4, <1>5 DEF TypeOK, IInv

LEMMA UpdateRequest ==
  ASSUME IInv, NEW r \in Request, NEW q \in RequestState, Loaded(q),
         req' = [req EXCEPT ![r] = q]
  PROVE  req' \in [Request -> RequestState] /\ \A s \in Request : Loaded(req'[s])
BY DEF IInv, TypeOK

LEMMA FinishRequest ==
  ASSUME IInv, NEW r \in Request, req' = [req EXCEPT ![r] = Idle]
  PROVE  req' \in [Request -> RequestState] /\ \A s \in Request : Loaded(req'[s])
<1>1. Loaded(Idle)
  BY DEF Loaded, Idle
<1> QED
  BY <1>1, IdleType, UpdateRequest

\* A step that writes one task's row.
LEMMA WriteRow ==
  ASSUME IInv, NEW t \in Task, NEW row \in Row, task' = [task EXCEPT ![t] = row]
  PROVE  task' \in [Task -> Row]
BY DEF IInv, TypeOK

LEMMA LoadingStepsType ==
  ASSUME IInv, NEW r \in Request
  PROVE  /\ \A t \in Task, b \in Body : CreateLoad(r, t, b) => IInv'
         /\ \A t \in Task, op \in Ops : TaskLoad(r, t, op) => IInv'
         /\ \A op \in Ops : ProjectLoad(r, op) => IInv'
         /\ RestoreRead(r) => IInv'
         /\ Abort(r) => IInv'
<1>0. clock \in Time /\ project \in Project /\ task \in [Task -> Row] /\ req[r] \in RequestState
  BY DEF IInv, TypeOK
<1>1. ASSUME NEW t \in Task, NEW b \in Body, CreateLoad(r, t, b) PROVE IInv'
  <2> DEFINE rows == [NoRows EXCEPT ![t] = NewTask(b)]
             q == [Idle EXCEPT !.pc = "loaded", !.op = "create", !.task = t, !.rows = rows]
  <2>1. rows \in [Task -> Row \cup {Null}] /\ rows[t] \in Row
    BY <1>0, NewTaskType DEF NoRows
  <2> HIDE DEF rows
  <2>2. q \in RequestState /\ q.pc = "loaded" /\ q.op = "create" /\ q.task = t /\ q.rows = rows
    BY <2>1, IdleType DEF Idle, RequestState, AllOps
  <2>3. req' = [req EXCEPT ![r] = q] /\ UNCHANGED <<clock, project, task>>
    BY <1>1 DEF CreateLoad, Load, rows
  <2> HIDE DEF q
  <2>4. Loaded(q)
    BY <2>1, <2>2 DEF Loaded
  <2> QED
    BY <2>2, <2>3, <2>4, UpdateRequest DEF IInv, TypeOK
<1>2. ASSUME NEW t \in Task, NEW op \in Ops, TaskLoad(r, t, op) PROVE IInv'
  <2> DEFINE q == [Idle EXCEPT !.pc = "loaded", !.op = op, !.task = t,
                               !.version = task[t].version]
  <2>1. task[t].version \in 0 .. MaxVersion
    BY <1>0 DEF Row
  <2>2. q \in RequestState /\ q.task = t /\ q.op = op
    BY <2>1, IdleType, ScheduleAssumption DEF Idle, RequestState
  <2>3. req' = [req EXCEPT ![r] = q] /\ UNCHANGED <<clock, project, task>>
        /\ op \in {"edit", "deleteTask"}
    BY <1>2 DEF TaskLoad, Load
  <2> HIDE DEF q
  <2>4. Loaded(q)
    BY <2>2, <2>3 DEF Loaded
  <2> QED
    BY <2>2, <2>3, <2>4, UpdateRequest DEF IInv, TypeOK
<1>3. ASSUME NEW op \in Ops, ProjectLoad(r, op) PROVE IInv'
  <2> DEFINE seen == CASE op = "restore" -> project.prior
                       [] op = "archive" -> project.state
                       [] OTHER          -> Null
             q == [Idle EXCEPT !.pc = "loaded", !.op = op, !.seen = seen]
  <2>1. /\ seen \in Settable \cup {"archived", Null}
        /\ op = "archive" => seen \in Settable \cup {"archived"}
    BY <1>0 DEF Project
  <2>2. req' = [req EXCEPT ![r] = q] /\ UNCHANGED <<clock, project, task>>
        /\ op \in {"archive", "restore", "update"}
    BY <1>3 DEF ProjectLoad, Load
  <2> HIDE DEF seen
  <2>3. q \in RequestState /\ q.seen = seen /\ q.op = op
    BY <2>1, IdleType, ScheduleAssumption DEF Idle, RequestState
  <2> HIDE DEF q
  <2>4. Loaded(q)
    BY <2>1, <2>2, <2>3 DEF Loaded
  <2> QED
    BY <2>2, <2>3, <2>4, UpdateRequest DEF IInv, TypeOK
<1>4. ASSUME RestoreRead(r) PROVE IInv'
  <2> DEFINE rows == [t \in Task |->
                IF Live(t) /\ Open(task[t]) /\ (task[t].due # Null \/ task[t].start # Null)
                THEN task[t] ELSE Null]
             q == [req[r] EXCEPT !.pc = "restoring", !.rows = rows]
  <2>1. rows \in [Task -> Row \cup {Null}]
    BY <1>0
  <2>2. req' = [req EXCEPT ![r] = q] /\ UNCHANGED <<clock, project, task>>
    BY <1>4 DEF RestoreRead, RowsToPlan
  <2> HIDE DEF rows
  <2>3. q \in RequestState /\ q.pc = "restoring"
    BY <1>0, <2>1 DEF RequestState
  <2> HIDE DEF q
  <2>4. Loaded(q)
    BY <2>3 DEF Loaded
  <2> QED
    BY <2>2, <2>3, <2>4, UpdateRequest DEF IInv, TypeOK
<1>5. ASSUME Abort(r) PROVE IInv'
  BY <1>5, FinishRequest DEF Abort, IInv, TypeOK
<1> QED
  BY <1>1, <1>2, <1>3, <1>4, <1>5

-------------------------------------------------------------------------------
(* The steps that write rows *)

\* A step leaves a task where it is in its life, and whatever it newly arms is
\* ahead of the clock.
Replanned(t) ==
    /\ task'[t].life = task[t].life
    /\ \A f \in Field : \/ task'[t].schedule[f] \in {Null, task[t].schedule[f]}
                        \/ task'[t].schedule[f] > clock

LEMMA Unwritten ==
  ASSUME IInv, UNCHANGED task
  PROVE  \A t \in Task : Replanned(t)
BY DEF Replanned

LEMMA OneRowWritten ==
  ASSUME IInv, NEW t \in Task, NEW row \in Row, task' = [task EXCEPT ![t] = row],
         row.life = task[t].life,
         \A f \in Field : \/ row.schedule[f] \in {Null, task[t].schedule[f]}
                          \/ row.schedule[f] > clock
  PROVE  \A s \in Task : Replanned(s)
BY DEF IInv, TypeOK, Replanned

LEMMA CreateTaskKeeps ==
  ASSUME IInv, NEW r \in Request, CreateTask(r)
  PROVE  IInv'
<1> DEFINE t == req[r].task
<1>1. t \in Task /\ req[r].rows[t] \in Row
  BY DEF CreateTask, IInv, Loaded
<1>2. task' \in [Task -> Row]
  BY <1>1, WriteRow DEF CreateTask
<1> QED
  BY <1>2, FinishRequest DEF CreateTask, IInv, TypeOK

\* What an edit writes: the body over the row it finds, re-planned if an input
\* of its schedule changed.
LEMMA EditedRow ==
  ASSUME IInv, NEW r \in Request, NEW b \in Body, EditTask(r, b)
  PROVE  \E t \in Task, after \in Row :
           /\ after.schedule = task[t].schedule /\ after.life = task[t].life
           /\ task' = [task EXCEPT ![t] =
                         IF ScheduleInputsChanged(task[t], after)
                         THEN [after EXCEPT !.schedule = ComputeSchedule(after, project.state)]
                         ELSE after]
<1> DEFINE t == req[r].task
           body == WithBody(task[t], b)
           after == [body EXCEPT !.version = task[t].version + 1]
<1>1. t \in Task /\ task[t] \in Row
  BY DEF EditTask, IInv, TypeOK, Loaded
<1>2. /\ body \in Row /\ body.schedule = task[t].schedule /\ body.life = task[t].life
  BY <1>1, WithBodyType
<1>3. task[t].version + 1 \in 0 .. MaxVersion
  BY <1>1, ScheduleAssumption DEF EditTask, Row
<1>4. task' = [task EXCEPT ![t] =
                 IF ScheduleInputsChanged(task[t], after)
                 THEN [after EXCEPT !.schedule = ComputeSchedule(after, project.state)]
                 ELSE after]
  BY DEF EditTask
<1> HIDE DEF body
<1>5. after.schedule = body.schedule /\ after.life = body.life
  BY <1>2 DEF Row
<1>6. after \in Row
  BY <1>2, <1>3, WithVersionType
<1> HIDE DEF after
<1> QED
  BY <1>1, <1>2, <1>4, <1>5, <1>6

LEMMA Replan ==
  ASSUME NEW row \in Row, NEW planned \in Schedule
  PROVE  LET new == [row EXCEPT !.schedule = planned] IN
         /\ new \in Row /\ new.schedule = planned /\ new.life = row.life
         /\ new.due = row.due /\ new.status = row.status
<1>1. [row EXCEPT !.schedule = planned] \in Row
  BY WithScheduleType
<1> QED
  BY <1>1 DEF Row

LEMMA EditTaskKeeps ==
  ASSUME IInv, NEW r \in Request, NEW b \in Body, EditTask(r, b)
  PROVE  IInv' /\ \A t \in Task : Replanned(t)
<1>1. PICK t \in Task, after \in Row :
           /\ after.schedule = task[t].schedule /\ after.life = task[t].life
           /\ task' = [task EXCEPT ![t] =
                         IF ScheduleInputsChanged(task[t], after)
                         THEN [after EXCEPT !.schedule = ComputeSchedule(after, project.state)]
                         ELSE after]
  BY EditedRow
<1> DEFINE planned == ComputeSchedule(after, project.state)
           row == IF ScheduleInputsChanged(task[t], after)
                  THEN [after EXCEPT !.schedule = planned] ELSE after
<1>2. clock \in Time
  BY DEF IInv, TypeOK
<1>3. planned \in Schedule /\ \A f \in Field : planned[f] = Null \/ planned[f] > clock
  BY <1>2, PlanFacts
<1>4. task' = [task EXCEPT ![t] = row]
  BY <1>1
<1> HIDE DEF planned
<1>5. /\ row \in Row /\ row.life = task[t].life
      /\ \A f \in Field : \/ row.schedule[f] \in {Null, task[t].schedule[f]}
                          \/ row.schedule[f] > clock
  BY <1>1, <1>3, Replan
<1> HIDE DEF row
<1>6. task' \in [Task -> Row]
  BY <1>4, <1>5, WriteRow
<1>7. IInv'
  BY <1>6, FinishRequest DEF EditTask, IInv, TypeOK
<1>8. \A s \in Task : Replanned(s)
  BY <1>4, <1>5, OneRowWritten
<1> QED
  BY <1>7, <1>8

LEMMA DeleteTaskKeeps ==
  ASSUME IInv, NEW r \in Request, DeleteTask(r)
  PROVE  /\ IInv'
         /\ \A t \in Task : \/ Replanned(t)
                            \/ task'[t].life = "deleted" /\ task'[t].schedule = NoPlan
<1> DEFINE t == req[r].task
           row == [Unborn EXCEPT !.life = "deleted"]
<1>1. t \in Task
  BY DEF DeleteTask, IInv, Loaded
<1>2. row \in Row /\ row.life = "deleted" /\ row.schedule = NoPlan
  BY UnbornType, WithLifeType DEF Unborn
<1>3. task' = [task EXCEPT ![t] = row]
  BY DEF DeleteTask
<1> HIDE DEF row
<1>4. task' \in [Task -> Row]
  BY <1>1, <1>2, <1>3, WriteRow
<1>5. IInv'
  BY <1>4, FinishRequest DEF DeleteTask, IInv, TypeOK
<1> QED
  BY <1>1, <1>2, <1>3, <1>5 DEF IInv, TypeOK, Replanned

LEMMA ClaimKeeps ==
  ASSUME IInv, ClaimStep
  PROVE  IInv' /\ \A t \in Task : Replanned(t)
<1>1. PICK t \in Task, f \in Field : Claim(t, f, task[t].schedule[f])
  BY DEF ClaimStep
<1> DEFINE planned == [task[t].schedule EXCEPT ![f] = Null]
           row == [task[t] EXCEPT !.schedule = planned]
<1>2. task[t] \in Row /\ task[t].schedule \in Schedule
  BY DEF IInv, TypeOK, Row
<1>3. planned \in Schedule /\ \A g \in Field : planned[g] \in {Null, task[t].schedule[g]}
  BY <1>2 DEF Schedule
<1>4. task' = [task EXCEPT ![t] = row] /\ UNCHANGED <<clock, project, req>>
  BY <1>1 DEF Claim
<1> HIDE DEF planned
<1>5. row \in Row /\ row.life = task[t].life /\ row.schedule = planned
  <2>1. row \in Row
    BY <1>2, <1>3, WithScheduleType
  <2> QED
    BY <1>2, <2>1 DEF Row
<1> HIDE DEF row
<1>6. task' \in [Task -> Row]
  BY <1>4, <1>5, WriteRow
<1>7. \A s \in Task : Replanned(s)
  BY <1>3, <1>4, <1>5, OneRowWritten
<1> QED
  BY <1>4, <1>6, <1>7 DEF IInv, TypeOK

LEMMA UpdateProjectKeeps ==
  ASSUME IInv, NEW r \in Request, NEW s \in Settable \cup {"archived"}, UpdateProject(r, s)
  PROVE  IInv' /\ \A t \in Task : Replanned(t)
<1>1. UNCHANGED <<clock, task>>
  BY DEF UpdateProject
<1>2. project' \in Project
  BY DEF UpdateProject, IInv, TypeOK, Project
<1>3. IInv'
  BY <1>1, <1>2, FinishRequest DEF UpdateProject, IInv, TypeOK
<1> QED
  BY <1>1, <1>3, Unwritten

LEMMA ArchiveProjectKeeps ==
  ASSUME IInv, NEW r \in Request, ArchiveProject(r)
  PROVE  IInv' /\ \A t \in Task : Replanned(t)
<1> DEFINE cleared(t) == [task[t].schedule EXCEPT !["remindAt"] = Null,
                                                  !["overdueCheckAt"] = Null]
           row(t) == [task[t] EXCEPT !.schedule = cleared(t)]
<1>1. ASSUME NEW t \in Task
      PROVE  /\ row(t) \in Row /\ row(t).life = task[t].life
             /\ \A f \in Field : row(t).schedule[f] \in {Null, task[t].schedule[f]}
  <2>1. task[t] \in Row /\ task[t].schedule \in Schedule
    BY DEF IInv, TypeOK, Row
  <2>2. cleared(t) \in Schedule /\ \A f \in Field : cleared(t)[f] \in {Null, task[t].schedule[f]}
    BY <2>1 DEF Schedule
  <2> HIDE DEF cleared
  <2>3. row(t) \in Row
    BY <2>1, <2>2, WithScheduleType
  <2> QED
    BY <2>1, <2>2, <2>3 DEF Row
<1>2. /\ project' = [state |-> "archived", prior |-> req[r].seen]
      /\ task' = [t \in Task |-> IF Live(t) THEN row(t) ELSE task[t]]
      /\ req' = [req EXCEPT ![r] = Idle] /\ UNCHANGED clock
  BY DEF ArchiveProject
<1> HIDE DEF row
<1>3. task \in [Task -> Row] /\ clock \in Time
  BY DEF IInv, TypeOK
<1>4. task' \in [Task -> Row]
  BY <1>1, <1>2, <1>3
<1>5. project' \in Project
  <2>1. req[r].seen \in Settable \cup {"archived"}
    BY DEF ArchiveProject, IInv, Loaded
  <2> QED
    BY <1>2, <2>1 DEF Project
<1>6. \A t \in Task : Replanned(t)
  BY <1>1, <1>2 DEF Replanned
<1> QED
  BY <1>2, <1>3, <1>4, <1>5, <1>6, FinishRequest DEF IInv, TypeOK

LEMMA RestoreProjectKeeps ==
  ASSUME IInv, NEW r \in Request, RestoreProject(r)
  PROVE  IInv' /\ \A t \in Task : Replanned(t)
<1> DEFINE state == IF req[r].seen = Null THEN "active" ELSE req[r].seen
           rows == req[r].rows
           planned(t) == ComputeSchedule(rows[t], state)
           row(t) == [task[t] EXCEPT !.schedule = planned(t)]
<1>1. /\ task \in [Task -> Row] /\ clock \in Time
      /\ rows \in [Task -> Row \cup {Null}] /\ req[r].seen \in Settable \cup {"archived", Null}
  BY DEF IInv, TypeOK, RequestState
<1>2. /\ project' = [state |-> state, prior |-> Null]
      /\ task' = [t \in Task |-> IF rows[t] # Null THEN row(t) ELSE task[t]]
      /\ req' = [req EXCEPT ![r] = Idle] /\ UNCHANGED clock
  BY DEF RestoreProject
<1>3. project' \in Project
  BY <1>1, <1>2 DEF Project, Settable
<1> HIDE DEF state, rows
<1>4. ASSUME NEW t \in Task, rows[t] # Null
      PROVE  /\ row(t) \in Row /\ row(t).life = task[t].life
             /\ \A f \in Field : row(t).schedule[f] = Null \/ row(t).schedule[f] > clock
  <2>1. task[t] \in Row /\ rows[t] \in Row
    BY <1>1, <1>4
  <2>2. planned(t) \in Schedule /\ \A f \in Field : planned(t)[f] = Null \/ planned(t)[f] > clock
    BY <1>1, <2>1, PlanFacts
  <2> HIDE DEF planned
  <2>3. row(t) \in Row
    BY <2>1, <2>2, WithScheduleType
  <2> QED
    BY <2>1, <2>2, <2>3 DEF Row
<1> HIDE DEF row
<1>5. task' \in [Task -> Row]
  BY <1>1, <1>2, <1>4
<1>6. \A t \in Task : Replanned(t)
  BY <1>2, <1>4, <1>1 DEF Replanned
<1> QED
  BY <1>1, <1>2, <1>3, <1>5, <1>6, FinishRequest DEF IInv, TypeOK

LEMMA TickKeeps ==
  ASSUME IInv, Tick
  PROVE  IInv' /\ \A t \in Task : Replanned(t)
<1>1. clock' \in Time /\ UNCHANGED <<project, task, req>>
  BY ScheduleAssumption DEF Tick, IInv, TypeOK, Time
<1> QED
  BY <1>1, Unwritten DEF IInv, TypeOK

LEMMA LoadingStepsKeep ==
  ASSUME IInv, NEW r \in Request,
         \/ \E t \in Task, b \in Body : CreateLoad(r, t, b)
         \/ \E t \in Task, op \in Ops : TaskLoad(r, t, op)
         \/ \E op \in Ops : ProjectLoad(r, op)
         \/ RestoreRead(r)
         \/ Abort(r)
  PROVE  IInv' /\ \A t \in Task : Replanned(t)
<1>1. UNCHANGED task
  BY DEF CreateLoad, TaskLoad, ProjectLoad, Load, RestoreRead, Abort
<1> QED
  BY <1>1, LoadingStepsType, Unwritten

LEMMA StepKeepsType == IInv /\ [Next]_vars => IInv'
<1> SUFFICES ASSUME IInv, [Next]_vars PROVE IInv'
  OBVIOUS
<1>1. ASSUME NEW r \in Request, RequestStep(r) PROVE IInv'
  BY <1>1, LoadingStepsKeep, CreateTaskKeeps, EditTaskKeeps, DeleteTaskKeeps,
     UpdateProjectKeeps, ArchiveProjectKeeps, RestoreProjectKeeps DEF RequestStep
<1>2. CASE UNCHANGED vars
  BY <1>2 DEF vars, IInv, TypeOK
<1> QED
  BY <1>1, <1>2, ClaimKeeps, TickKeeps DEF Next

\* Every value a handler reads, plans or writes is of its declared kind: an
\* armed instant is always within the clock's range, whatever lead time it was
\* computed with, and archiving never records "no prior state".
THEOREM TypeCorrect == Spec => []TypeOK
<1>1. IInv => TypeOK
  BY DEF IInv
<1> QED
  BY <1>1, InitType, StepKeepsType, PTL DEF Spec

-------------------------------------------------------------------------------
(* Nothing is armed for the past *)

Creating(r) == req[r].pc = "loaded" /\ req[r].op = "create"

\* A task being created does not exist yet, and no two requests create the same.
Fresh ==
    /\ \A r \in Request : Creating(r) => task[req[r].task].life = "unborn"
    /\ \A r, s \in Request : (Creating(r) /\ Creating(s) /\ req[r].task = req[s].task) => r = s

LEMMA InitFresh == Init => Fresh
BY DEF Init, Fresh, Creating, Idle

\* A step that creates no task and starts no creation.
LEMMA FreshKept ==
  ASSUME IInv, Fresh, \A t \in Task : Replanned(t),
         \A s \in Request : req'[s] = req[s] \/ req'[s].pc # "loaded" \/ req'[s].op # "create"
  PROVE  Fresh'
BY DEF IInv, Loaded, Fresh, Creating, Replanned

LEMMA FinishKeepsFresh ==
  ASSUME IInv, Fresh, NEW r \in Request, req' = [req EXCEPT ![r] = Idle],
         \A t \in Task : Replanned(t)
  PROVE  Fresh'
<1>1. \A s \in Request : req'[s] = req[s] \/ req'[s].pc # "loaded"
  BY DEF IInv, TypeOK, Idle
<1> QED
  BY <1>1, FreshKept

LEMMA LoadingKeepsFresh ==
  ASSUME IInv, Fresh, NEW r \in Request
  PROVE  /\ \A t \in Task, b \in Body : CreateLoad(r, t, b) => Fresh'
         /\ \A t \in Task, op \in Ops : TaskLoad(r, t, op) => Fresh'
         /\ \A op \in Ops : ProjectLoad(r, op) => Fresh'
         /\ RestoreRead(r) => Fresh'
<1>1. ASSUME NEW t \in Task, NEW b \in Body, CreateLoad(r, t, b) PROVE Fresh'
  <2> DEFINE q == [Idle EXCEPT !.pc = "loaded", !.op = "create", !.task = t,
                               !.rows = [NoRows EXCEPT ![t] = NewTask(b)]]
  <2>1. /\ task[t].life = "unborn" /\ UNCHANGED task /\ req' = [req EXCEPT ![r] = q]
        /\ \A s \in Request : req[s].op = "create" => req[s].task # t
    BY <1>1 DEF CreateLoad, Load
  <2>2. q.task = t
    BY DEF Idle
  <2> HIDE DEF q
  <2>3. req'[r] = q /\ \A s \in Request \ {r} : req'[s] = req[s]
    BY <2>1 DEF IInv, TypeOK
  <2> QED
    BY <2>1, <2>2, <2>3 DEF Fresh, Creating
<1>2. ASSUME NEW t \in Task, NEW op \in Ops, TaskLoad(r, t, op) PROVE Fresh'
  <2> DEFINE q == [Idle EXCEPT !.pc = "loaded", !.op = op, !.task = t,
                               !.version = task[t].version]
  <2>1. op # "create" /\ UNCHANGED task /\ req' = [req EXCEPT ![r] = q]
    BY <1>2 DEF TaskLoad, Load
  <2>2. q.op = op
    BY DEF Idle
  <2> HIDE DEF q
  <2>3. \A s \in Request : req'[s] = req[s] \/ req'[s].op # "create"
    BY <2>1, <2>2 DEF IInv, TypeOK
  <2> QED
    BY <2>1, <2>3, FreshKept, Unwritten
<1>3. ASSUME NEW op \in Ops, ProjectLoad(r, op) PROVE Fresh'
  <2> DEFINE seen == CASE op = "restore" -> project.prior
                       [] op = "archive" -> project.state
                       [] OTHER          -> Null
             q == [Idle EXCEPT !.pc = "loaded", !.op = op, !.seen = seen]
  <2>1. op # "create" /\ UNCHANGED task /\ req' = [req EXCEPT ![r] = q]
    BY <1>3 DEF ProjectLoad, Load
  <2> HIDE DEF seen
  <2>2. q.op = op
    BY DEF Idle
  <2> HIDE DEF q
  <2>3. \A s \in Request : req'[s] = req[s] \/ req'[s].op # "create"
    BY <2>1, <2>2 DEF IInv, TypeOK
  <2> QED
    BY <2>1, <2>3, FreshKept, Unwritten
<1>4. ASSUME RestoreRead(r) PROVE Fresh'
  <2> DEFINE rows == [t \in Task |->
                IF Live(t) /\ Open(task[t]) /\ (task[t].due # Null \/ task[t].start # Null)
                THEN task[t] ELSE Null]
             q == [req[r] EXCEPT !.pc = "restoring", !.rows = rows]
  <2>1. UNCHANGED task /\ req' = [req EXCEPT ![r] = q]
    BY <1>4 DEF RestoreRead, RowsToPlan
  <2> HIDE DEF rows
  <2>2. q.pc = "restoring"
    BY DEF IInv, TypeOK, RequestState
  <2> HIDE DEF q
  <2>3. \A s \in Request : req'[s] = req[s] \/ req'[s].pc # "loaded"
    BY <2>1, <2>2 DEF IInv, TypeOK
  <2> QED
    BY <2>1, <2>3, FreshKept, Unwritten
<1> QED
  BY <1>1, <1>2, <1>3, <1>4

LEMMA CreateTaskFacts ==
  ASSUME IInv, Fresh, NEW r \in Request, CreateTask(r)
  PROVE  Fresh' /\ \A t \in Task : Live(t) => task'[t] = task[t]
<1> DEFINE t == req[r].task
<1>1. /\ t \in Task /\ task[t].life = "unborn"
      /\ \A u \in Task \ {t} : task'[u] = task[u]
  BY DEF CreateTask, IInv, TypeOK, Loaded, Fresh, Creating
<1>2. ~Creating(r)' /\ \A s \in Request \ {r} : req'[s] = req[s]
  BY DEF CreateTask, IInv, TypeOK, Creating, Idle
<1>3. ASSUME NEW s \in Request, Creating(s)'
      PROVE  s # r /\ Creating(s) /\ req'[s] = req[s] /\ req[s].task \in Task \ {t}
  BY <1>2, <1>3 DEF CreateTask, Creating, Fresh, IInv, Loaded
<1>4. Fresh'
  BY <1>1, <1>3 DEF Fresh
<1> QED
  BY <1>1, <1>4 DEF Live

LEMMA DeleteTaskKeepsFresh ==
  ASSUME IInv, Fresh, NEW r \in Request, DeleteTask(r)
  PROVE  Fresh'
<1> DEFINE t == req[r].task
<1>1. t \in Task /\ task[t].life = "live" /\ \A u \in Task \ {t} : task'[u] = task[u]
  BY DEF DeleteTask, Live, IInv, TypeOK, Loaded
<1>2. \A s \in Request : req'[s] = req[s] \/ req'[s].pc # "loaded"
  BY DEF DeleteTask, IInv, TypeOK, Idle
<1>3. ASSUME NEW s \in Request, Creating(s)'
      PROVE  Creating(s) /\ req'[s] = req[s] /\ req[s].task \in Task \ {t}
  BY <1>1, <1>2, <1>3 DEF Creating, Fresh, IInv, Loaded
<1> QED
  BY <1>1, <1>3 DEF Fresh

LEMMA StepKeepsFresh == IInv /\ Fresh /\ [Next]_vars => Fresh'
<1> SUFFICES ASSUME IInv, Fresh, [Next]_vars PROVE Fresh'
  OBVIOUS
<1>1. ASSUME NEW r \in Request, RequestStep(r) PROVE Fresh'
  <2>1. CASE \E b \in Body : EditTask(r, b)
    BY <2>1, EditTaskKeeps, FinishKeepsFresh DEF EditTask
  <2>2. CASE \E s \in Settable \cup {"archived"} : UpdateProject(r, s)
    BY <2>2, UpdateProjectKeeps, FinishKeepsFresh DEF UpdateProject
  <2>3. CASE ArchiveProject(r)
    BY <2>3, ArchiveProjectKeeps, FinishKeepsFresh DEF ArchiveProject
  <2>4. CASE RestoreProject(r)
    BY <2>4, RestoreProjectKeeps, FinishKeepsFresh DEF RestoreProject
  <2>5. CASE Abort(r)
    BY <2>5, Unwritten, FinishKeepsFresh DEF Abort
  <2> QED
    BY <1>1, <2>1, <2>2, <2>3, <2>4, <2>5, LoadingKeepsFresh, CreateTaskFacts,
       DeleteTaskKeepsFresh DEF RequestStep
<1>2. CASE UNCHANGED vars
  BY <1>2, Unwritten, FreshKept DEF vars
<1>3. CASE ClaimStep
  BY <1>3, ClaimKeeps, FreshKept DEF ClaimStep, Claim
<1>4. CASE Tick
  BY <1>4, TickKeeps, FreshKept DEF Tick
<1> QED
  BY <1>1, <1>2, <1>3, <1>4 DEF Next

LEMMA StepArmsAhead ==
  ASSUME IInv, Fresh, [Next]_vars
  PROVE  \A t \in Task, f \in Field :
           LET armed == task'[t].schedule[f] IN
           (Live(t) /\ armed # Null /\ armed # task[t].schedule[f]) => armed > clock
<1>1. ASSUME NEW t \in Task
      PROVE  \/ Replanned(t)
             \/ Live(t) => task'[t] = task[t] \/ task'[t].schedule = NoPlan
  <2>1. ASSUME NEW r \in Request, RequestStep(r)
        PROVE  \/ Replanned(t)
               \/ Live(t) => task'[t] = task[t] \/ task'[t].schedule = NoPlan
    BY <2>1, LoadingStepsKeep, CreateTaskFacts, EditTaskKeeps, DeleteTaskKeeps,
       UpdateProjectKeeps, ArchiveProjectKeeps, RestoreProjectKeeps DEF RequestStep
  <2>2. CASE UNCHANGED vars
    BY <2>2, Unwritten DEF vars
  <2> QED
    BY <2>1, <2>2, ClaimKeeps, TickKeeps DEF Next
<1> QED
  BY <1>1 DEF Replanned, NoPlan

\* Whatever the interleaving of creations, edits, archives, restores and claims,
\* the schedule of an existing task is only ever set to a future instant.
THEOREM ArmsOnlyTheFuture == Spec => NeverArmsThePast
<1>1. Init => IInv /\ Fresh
  BY InitType, InitFresh
<1>2. IInv /\ Fresh /\ [Next]_vars => (IInv /\ Fresh)'
  BY StepKeepsType, StepKeepsFresh
<1>3. IInv /\ Fresh /\ [Next]_vars
      => [\A t \in Task, f \in Field :
            LET armed == task'[t].schedule[f] IN
            (Live(t) /\ armed # Null /\ armed # task[t].schedule[f]) => armed > clock]_vars
  BY StepArmsAhead
<1> QED
  BY <1>1, <1>2, <1>3, PTL DEF Spec, NeverArmsThePast

-------------------------------------------------------------------------------
(* What is armed is for the task as it is *)

\* A request only ever does what this instance lets it do.
Permitted(q) == (q.pc = "loaded" => q.op \in Ops) /\ (q.pc = "restoring" => "restore" \in Ops)

\* Every row about to be created is planned.
Prepared ==
    /\ \A r \in Request : Creating(r) => Planned(req[r].rows[req[r].task])
    /\ \A r \in Request : Permitted(req[r])

\* And so is every row there is.
Consistent == Prepared /\ \A t \in Task : Planned(task[t])

LEMMA UnbornPlanned == Planned(Unborn)
BY DEF Planned, Unborn, NoPlan, Field, Open

LEMMA NewTaskPlanned ==
  ASSUME NEW b \in Body, clock \in Time
  PROVE  Planned(NewTask(b))
BY NewTaskType DEF Planned

LEMMA InitConsistent == Init => Consistent
<1> SUFFICES ASSUME Init PROVE Consistent
  OBVIOUS
<1>1. clock \in Time /\ task \in [Task -> {Unborn} \cup {NewTask(b) : b \in Body}]
  BY ScheduleAssumption DEF Init, Time
<1>2. \A t \in Task : Planned(task[t])
  BY <1>1, UnbornPlanned, NewTaskPlanned
<1>3. \A r \in Request : req[r].pc = "idle"
  BY DEF Init, Idle
<1> QED
  BY <1>2, <1>3 DEF Consistent, Prepared, Creating, Permitted

LEMMA EditedPlanned ==
  ASSUME IInv, NEW r \in Request, NEW b \in Body, EditTask(r, b),
         NEW u \in Task, Planned(task[u])
  PROVE  Planned(task'[u])
<1>1. PICK t \in Task, after \in Row :
           /\ after.schedule = task[t].schedule /\ after.life = task[t].life
           /\ task' = [task EXCEPT ![t] =
                         IF ScheduleInputsChanged(task[t], after)
                         THEN [after EXCEPT !.schedule = ComputeSchedule(after, project.state)]
                         ELSE after]
  BY EditedRow
<1> DEFINE planned == ComputeSchedule(after, project.state)
<1>2. clock \in Time /\ task \in [Task -> Row]
  BY DEF IInv, TypeOK
<1>3. /\ planned \in Schedule /\ planned["overdueCheckAt"] \in {Null, after.due}
      /\ ~Open(after) => planned = NoPlan
  BY <1>2, PlanFacts
<1>4. CASE ScheduleInputsChanged(task[t], after)
  <2> DEFINE row == [after EXCEPT !.schedule = planned]
  <2>1. task' = [task EXCEPT ![t] = row]
    BY <1>1, <1>4
  <2> HIDE DEF planned
  <2>2. row.schedule = planned /\ row.due = after.due /\ row.status = after.status
    BY <1>3, Replan
  <2> HIDE DEF row
  <2>3. Planned(row)
    BY <1>3, <2>2 DEF Planned, Open
  <2> QED
    BY <1>2, <2>1, <2>3
<1>5. CASE ~ScheduleInputsChanged(task[t], after)
  <2>1. task' = [task EXCEPT ![t] = after]
    BY <1>1, <1>5
  <2>2. after.due = task[t].due /\ (Open(after) <=> Open(task[t]))
    BY <1>5 DEF ScheduleInputsChanged, Open
  <2>3. Planned(task[t]) => Planned(after)
    BY <1>1, <2>2 DEF Planned
  <2> QED
    BY <1>2, <2>1, <2>3
<1> QED
  BY <1>4, <1>5

\* The steps of RequestStep that leave every row alone, and creation and
\* deletion, which write rows nobody plans again.
LEMMA OtherRequestPlanned ==
  ASSUME IInv, Prepared, NEW r \in Request, RequestStep(r),
         ~RestoreProject(r), ~\E b \in Body : EditTask(r, b),
         NEW t \in Task, Planned(task[t])
  PROVE  Planned(task'[t])
<1>1. CASE CreateTask(r)
  <2>1. req[r].task \in Task /\ Planned(req[r].rows[req[r].task])
    BY <1>1 DEF CreateTask, IInv, Loaded, Prepared, Creating
  <2> QED
    BY <1>1, <2>1 DEF CreateTask, IInv, TypeOK
<1>2. CASE DeleteTask(r)
  <2> DEFINE row == [Unborn EXCEPT !.life = "deleted"]
  <2>1. Planned(row)
    BY UnbornPlanned DEF Planned, Unborn, Open
  <2>2. task' = [task EXCEPT ![req[r].task] = row]
    BY <1>2 DEF DeleteTask
  <2> HIDE DEF row
  <2> QED
    BY <2>1, <2>2 DEF IInv, TypeOK
<1>3. CASE ArchiveProject(r)
  <2> DEFINE cleared == [task[t].schedule EXCEPT !["remindAt"] = Null,
                                                 !["overdueCheckAt"] = Null]
  <2>1. task[t] \in Row /\ task[t].schedule \in Schedule /\ Planned(task[t])
    BY DEF IInv, TypeOK, Row
  <2>2. /\ cleared \in Schedule /\ cleared["overdueCheckAt"] = Null
        /\ task[t].schedule = NoPlan => cleared = NoPlan
    BY <2>1 DEF Schedule, NoPlan, Field
  <2>3. task'[t] = [task[t] EXCEPT !.schedule = cleared] \/ task'[t] = task[t]
    BY <1>3 DEF ArchiveProject
  <2> HIDE DEF cleared
  <2>4. CASE task'[t] = [task[t] EXCEPT !.schedule = cleared]
    <3>1. task'[t].schedule = cleared /\ task'[t].status = task[t].status
      BY <2>1, <2>2, <2>4, Replan
    <3> QED
      BY <2>1, <2>2, <3>1 DEF Planned, Open
  <2> QED
    BY <2>1, <2>3, <2>4
<1>5. CASE UNCHANGED task
  BY <1>5
<1>6. \/ CreateTask(r) \/ DeleteTask(r) \/ ArchiveProject(r) \/ UNCHANGED task
  BY DEF RequestStep, CreateLoad, TaskLoad, ProjectLoad, Load, UpdateProject, RestoreRead,
     Abort
<1> QED
  BY <1>1, <1>2, <1>3, <1>5, <1>6

LEMMA ClaimPlanned ==
  ASSUME IInv, ClaimStep, NEW u \in Task, Planned(task[u])
  PROVE  Planned(task'[u])
<1>1. PICK t \in Task, f \in Field : Claim(t, f, task[t].schedule[f])
  BY DEF ClaimStep
<1> DEFINE planned == [task[t].schedule EXCEPT ![f] = Null]
           row == [task[t] EXCEPT !.schedule = planned]
<1>2. task[t] \in Row /\ task[t].schedule \in Schedule
  BY DEF IInv, TypeOK, Row
<1>3. /\ planned \in Schedule /\ planned["overdueCheckAt"] \in {Null, task[t].schedule["overdueCheckAt"]}
      /\ task[t].schedule = NoPlan => planned = NoPlan
  BY <1>2 DEF Schedule, NoPlan, Field
<1>4. task' = [task EXCEPT ![t] = row]
  BY <1>1 DEF Claim
<1> HIDE DEF planned
<1>5. row.schedule = planned /\ row.due = task[t].due /\ row.status = task[t].status
  BY <1>2, <1>3, Replan
<1> HIDE DEF row
<1>6. Planned(task[t]) => Planned(row)
  BY <1>2, <1>3, <1>5 DEF Planned, Open
<1> QED
  BY <1>4, <1>6 DEF IInv, TypeOK

\* What requests hold after a step.
LEMMA RequestsConsistent ==
  ASSUME IInv, Prepared, NEW r \in Request, RequestStep(r),
         NEW s \in Request
  PROVE  /\ (Creating(s) => Planned(req[s].rows[req[s].task]))'
         /\ Permitted(req'[s])
<1> DEFINE Fine(q) ==
             /\ (q.pc = "loaded" /\ q.op = "create") => Planned(q.rows[q.task])
             /\ Permitted(q)
<1>1. Fine(req[s])
  BY DEF Prepared, Creating
<1>2. SUFFICES Fine(req'[s])
  BY DEF Creating
<1>3. Fine(Idle)
  BY DEF Idle, Permitted
<1>4. ASSUME NEW t \in Task, NEW b \in Body, CreateLoad(r, t, b) PROVE Fine(req'[s])
  <2> DEFINE q == [Idle EXCEPT !.pc = "loaded", !.op = "create", !.task = t,
                               !.rows = [NoRows EXCEPT ![t] = NewTask(b)]]
  <2>1. req' = [req EXCEPT ![r] = q] /\ "create" \in Ops
    BY <1>4 DEF CreateLoad, Load
  <2>2. Planned(NewTask(b))
    BY NewTaskPlanned DEF IInv, TypeOK
  <2>3. q.pc = "loaded" /\ q.op = "create" /\ q.task = t /\ q.rows[t] = NewTask(b)
    BY DEF Idle, NoRows
  <2> HIDE DEF q
  <2>4. Fine(q)
    BY <2>1, <2>2, <2>3 DEF Permitted
  <2> HIDE DEF Fine
  <2> QED
    BY <1>1, <2>1, <2>4 DEF IInv, TypeOK
<1>5. ASSUME NEW t \in Task, NEW op \in Ops, TaskLoad(r, t, op) PROVE Fine(req'[s])
  <2> DEFINE q == [Idle EXCEPT !.pc = "loaded", !.op = op, !.task = t,
                               !.version = task[t].version]
  <2>1. req' = [req EXCEPT ![r] = q] /\ op \in {"edit", "deleteTask"}
    BY <1>5 DEF TaskLoad, Load
  <2>2. q.pc = "loaded" /\ q.op = op
    BY DEF Idle
  <2> HIDE DEF q
  <2>3. Fine(q)
    BY <2>1, <2>2 DEF Permitted
  <2> HIDE DEF Fine
  <2> QED
    BY <1>1, <2>1, <2>3 DEF IInv, TypeOK
<1>6. ASSUME NEW op \in Ops, ProjectLoad(r, op) PROVE Fine(req'[s])
  <2> DEFINE seen == CASE op = "restore" -> project.prior
                       [] op = "archive" -> project.state
                       [] OTHER          -> Null
             q == [Idle EXCEPT !.pc = "loaded", !.op = op, !.seen = seen]
  <2>1. req' = [req EXCEPT ![r] = q] /\ op \in {"archive", "restore", "update"}
    BY <1>6 DEF ProjectLoad, Load
  <2> HIDE DEF seen
  <2>2. q.pc = "loaded" /\ q.op = op
    BY DEF Idle
  <2> HIDE DEF q
  <2>3. Fine(q)
    BY <2>1, <2>2 DEF Permitted
  <2> HIDE DEF Fine
  <2> QED
    BY <1>1, <2>1, <2>3 DEF IInv, TypeOK
<1>7. ASSUME RestoreRead(r) PROVE Fine(req'[s])
  <2>1. PICK rows : rows = RowsToPlan
    OBVIOUS
  <2>2. PICK q : q = [req[r] EXCEPT !.pc = "restoring", !.rows = rows]
    OBVIOUS
  <2>3. req' = [req EXCEPT ![r] = q] /\ req[r].pc = "loaded" /\ req[r].op = "restore"
    BY <1>7, <2>1, <2>2 DEF RestoreRead
  <2>4. q.pc = "restoring" /\ "restore" \in Ops
    BY <2>2, <2>3 DEF IInv, TypeOK, RequestState, Prepared, Permitted
  <2>5. Fine(q)
    BY <2>4 DEF Permitted
  <2> HIDE DEF Fine
  <2> QED
    BY <1>1, <2>3, <2>5 DEF IInv, TypeOK
<1>8. CASE req' = [req EXCEPT ![r] = Idle]
  <2> HIDE DEF Fine
  <2> QED
    BY <1>1, <1>3, <1>8 DEF IInv, TypeOK
<1>9. \/ \E t \in Task, b \in Body : CreateLoad(r, t, b)
      \/ \E t \in Task, op \in Ops : TaskLoad(r, t, op)
      \/ \E op \in Ops : ProjectLoad(r, op)
      \/ RestoreRead(r)
      \/ req' = [req EXCEPT ![r] = Idle]
  BY DEF RequestStep, CreateTask, EditTask, DeleteTask, UpdateProject, ArchiveProject,
         RestoreProject, Abort
<1> HIDE DEF Fine
<1> QED
  BY <1>4, <1>5, <1>6, <1>7, <1>8, <1>9

LEMMA StepKeepsPrepared == IInv /\ Prepared /\ [Next]_vars => Prepared'
<1> SUFFICES ASSUME IInv, Prepared, [Next]_vars PROVE Prepared'
  OBVIOUS
<1>1. ASSUME NEW r \in Request, RequestStep(r) PROVE Prepared'
  BY <1>1, RequestsConsistent DEF Prepared
<1>2. CASE UNCHANGED req
  BY <1>2 DEF Prepared, Creating
<1> QED
  BY <1>1, <1>2 DEF Next, ClaimStep, Claim, Tick, vars

LEMMA StepKeepsConsistent ==
  ASSUME "restore" \notin Ops
  PROVE  IInv /\ Consistent /\ [Next]_vars => Consistent'
<1> SUFFICES ASSUME IInv, Consistent, [Next]_vars PROVE Consistent'
  OBVIOUS
<1>1. Prepared'
  BY StepKeepsPrepared DEF Consistent
<1>2. ASSUME NEW r \in Request, RequestStep(r), NEW t \in Task PROVE Planned(task'[t])
  <2>1. ~RestoreProject(r)
    BY DEF Consistent, Prepared, Permitted, RestoreProject
  <2> QED
    BY <1>2, <2>1, EditedPlanned, OtherRequestPlanned DEF Consistent
<1>3. ASSUME ClaimStep, NEW t \in Task PROVE Planned(task'[t])
  BY <1>3, ClaimPlanned DEF Consistent
<1>4. CASE UNCHANGED task
  BY <1>1, <1>4 DEF Consistent
<1> QED
  BY <1>1, <1>2, <1>3, <1>4 DEF Next, Tick, vars, Consistent

LEMMA ConsistentAlways ==
  ASSUME "restore" \notin Ops
  PROVE  Spec => [](IInv /\ Consistent)
<1>1. Init => IInv /\ Consistent
  BY InitType, InitConsistent
<1>2. IInv /\ Consistent /\ [Next]_vars => (IInv /\ Consistent)'
  BY StepKeepsType, StepKeepsConsistent
<1> QED
  BY <1>1, <1>2, PTL DEF Spec

\* As long as no project is restored, what is armed is for the task as it is: the
\* five comparisons of scheduleInputsChanged are enough.
THEOREM PlansFit ==
  ASSUME "restore" \notin Ops
  PROVE  Spec => [](\A t \in Task : Planned(task[t]))
<1>1. Consistent => \A t \in Task : Planned(task[t])
  BY DEF Consistent
<1> QED
  BY <1>1, ConsistentAlways, PTL

-------------------------------------------------------------------------------
(* What a restore does to plans *)

\* A row that is still live is as it was read, but for its schedule, or an edit
\* has given it another version.
Aged(was, row) ==
    /\ row.life # "unborn"
    /\ row.life = "live" =>
         /\ row.version >= was.version
         /\ row.version = was.version => row.due = was.due /\ row.status = was.status

\* What a restore has read is an earlier state of rows that exist.
Behind == \A r \in Request : req[r].pc = "restoring" =>
            \A t \in Task : req[r].rows[t] # Null => Aged(req[r].rows[t], task[t])

\* A step leaves a row that exists as an edit, a re-planning or a deletion does.
Ages(t) == task[t].life # "unborn" =>
             /\ task'[t].life # "unborn"
             /\ task'[t].life = "live" => task[t].life = "live" /\ Aged(task[t], task'[t])

LEMMA SameAges ==
  ASSUME IInv, NEW t \in Task,
         \/ task'[t] = task[t]
         \/ \E planned : task'[t] = [task[t] EXCEPT !.schedule = planned]
  PROVE  Ages(t)
<1>0. task[t] \in Row /\ task[t].version \in Int
  BY ScheduleAssumption DEF IInv, TypeOK, Row
<1>1. /\ task'[t].life = task[t].life /\ task'[t].version = task[t].version
      /\ task'[t].due = task[t].due /\ task'[t].status = task[t].status
  BY <1>0 DEF Row
<1> QED
  BY <1>0, <1>1 DEF Ages, Aged

LEMMA EditedAges ==
  ASSUME IInv, NEW r \in Request, NEW b \in Body, EditTask(r, b), NEW t \in Task
  PROVE  Ages(t)
<1>1. task \in [Task -> Row] /\ req[r].task \in Task /\ task[t].version \in Int
  BY ScheduleAssumption DEF EditTask, IInv, TypeOK, Loaded, Row
<1>2. CASE t # req[r].task
  <2>1. task'[t] = task[t]
    BY <1>1, <1>2 DEF EditTask
  <2> QED
    BY <2>1, SameAges
<1>3. CASE t = req[r].task
  <2>1. PICK body : body = WithBody(task[t], b)
    OBVIOUS
  <2>2. PICK after : after = [body EXCEPT !.version = task[t].version + 1]
    OBVIOUS
  <2>3. PICK planned : planned = ComputeSchedule(after, project.state)
    OBVIOUS
  <2>4. task'[t] = after \/ task'[t] = [after EXCEPT !.schedule = planned]
    BY <1>1, <1>3, <2>1, <2>2, <2>3 DEF EditTask
  <2>5. body \in Row /\ body.life = task[t].life
    BY <1>1, <2>1, WithBodyType
  <2>6. task'[t].version = task[t].version + 1 /\ task'[t].life = task[t].life
    BY <2>2, <2>4, <2>5 DEF Row
  <2>7. Live(t)
    BY <1>3 DEF EditTask
  <2> QED
    BY <1>1, <2>6, <2>7 DEF Ages, Aged, Live
<1> QED
  BY <1>2, <1>3

LEMMA StepAges ==
  ASSUME IInv, Fresh, [Next]_vars, NEW t \in Task
  PROVE  Ages(t)
<1>0. task \in [Task -> Row]
  BY DEF IInv, TypeOK
<1>1. ASSUME NEW r \in Request, CreateTask(r) PROVE Ages(t)
  <2>1. task[req[r].task].life = "unborn" /\ (t # req[r].task => task'[t] = task[t])
    BY <1>0, <1>1 DEF CreateTask, Fresh, Creating
  <2> QED
    BY <2>1, SameAges DEF Ages
<1>2. ASSUME NEW r \in Request, DeleteTask(r) PROVE Ages(t)
  <2>1. task'[t] = task[t] \/ task'[t].life = "deleted"
    BY <1>0, <1>2 DEF DeleteTask, Unborn
  <2> QED
    BY <2>1, SameAges DEF Ages
<1>3. ASSUME NEW r \in Request, ArchiveProject(r) PROVE Ages(t)
  <2>1. PICK planned : planned = [task[t].schedule EXCEPT !["remindAt"] = Null,
                                                          !["overdueCheckAt"] = Null]
    OBVIOUS
  <2>2. task'[t] = task[t] \/ task'[t] = [task[t] EXCEPT !.schedule = planned]
    BY <1>3, <2>1 DEF ArchiveProject
  <2> QED
    BY <2>2, SameAges
<1>4. ASSUME NEW r \in Request, RestoreProject(r) PROVE Ages(t)
  <2>1. PICK planned : planned = ComputeSchedule(req[r].rows[t],
                                   IF req[r].seen = Null THEN "active" ELSE req[r].seen)
    OBVIOUS
  <2>2. task'[t] = task[t] \/ task'[t] = [task[t] EXCEPT !.schedule = planned]
    BY <1>4, <2>1 DEF RestoreProject
  <2> QED
    BY <2>2, SameAges
<1>5. CASE ClaimStep
  <2>1. PICK u \in Task, f \in Field : Claim(u, f, task[u].schedule[f])
    BY <1>5 DEF ClaimStep
  <2>2. PICK planned : planned = [task[u].schedule EXCEPT ![f] = Null]
    OBVIOUS
  <2>3. task'[t] = task[t] \/ task'[t] = [task[t] EXCEPT !.schedule = planned]
    BY <1>0, <2>1, <2>2 DEF Claim
  <2> QED
    BY <2>3, SameAges
<1>6. CASE UNCHANGED task
  BY <1>6, SameAges
<1>7. ASSUME NEW r \in Request, RequestStep(r), ~UNCHANGED task
      PROVE  CreateTask(r) \/ DeleteTask(r) \/ ArchiveProject(r) \/ RestoreProject(r)
             \/ \E b \in Body : EditTask(r, b)
  BY <1>7 DEF RequestStep, CreateLoad, TaskLoad, ProjectLoad, Load, UpdateProject, RestoreRead,
     Abort
<1> QED
  BY <1>1, <1>2, <1>3, <1>4, <1>5, <1>6, <1>7, EditedAges DEF Next, Tick, vars

\* Reading what is there is not behind; waiting is, by an age.
LEMMA StillBehind ==
  ASSUME IInv, IInv', NEW t \in Task, Ages(t), NEW was \in Row, Aged(was, task[t])
  PROVE  Aged(was, task'[t])
<1>1. was.version \in Int /\ task[t].version \in Int /\ task'[t].version \in Int
  <2>1. task'[t] \in Row /\ task[t] \in Row
    BY DEF IInv, TypeOK
  <2> QED
    BY <2>1, ScheduleAssumption DEF Row
<1>2. CASE task'[t].life = "live"
  <2>1. /\ task'[t].version >= task[t].version /\ task[t].version >= was.version
        /\ task'[t].version = task[t].version => task'[t].due = task[t].due
                                                /\ task'[t].status = task[t].status
        /\ task[t].version = was.version => task[t].due = was.due /\ task[t].status = was.status
    BY <1>2 DEF Ages, Aged
  <2> QED
    BY <1>1, <1>2, <2>1 DEF Aged, Ages
<1> QED
  BY <1>2 DEF Aged, Ages

LEMMA StepKeepsBehind ==
  ASSUME IInv, IInv', Fresh, Behind, [Next]_vars PROVE Behind'
<1> SUFFICES ASSUME NEW r \in Request, req'[r].pc = "restoring",
                    NEW t \in Task, req'[r].rows[t] # Null
             PROVE  Aged(req'[r].rows[t], task'[t])
  BY DEF Behind
<1>0. task[t] \in Row /\ task'[t] \in Row /\ task[t].version \in Int
  BY ScheduleAssumption DEF IInv, TypeOK, Row
<1>1. CASE RestoreRead(r)
  <2>1. PICK rows : rows = RowsToPlan
    OBVIOUS
  <2>2. req'[r].rows = rows /\ UNCHANGED task
    BY <1>1, <2>1 DEF RestoreRead, IInv, TypeOK, RequestState
  <2>3. req'[r].rows[t] = task[t] /\ Live(t)
    BY <2>1, <2>2 DEF RowsToPlan
  <2> QED
    BY <1>0, <2>2, <2>3 DEF Aged, Live
<1>2. CASE req'[r] = req[r]
  <2>1. Aged(req[r].rows[t], task[t]) /\ req[r].rows[t] \in Row
    BY <1>2 DEF Behind, IInv, TypeOK, RequestState
  <2> QED
    BY <1>2, <2>1, StepAges, StillBehind
<1>3. ASSUME NEW s \in Request, RequestStep(s) PROVE req'[r] = req[r] \/ RestoreRead(r)
  <2>0. req \in [Request -> RequestState]
    BY DEF IInv, TypeOK
  <2>1. CASE r # s
    BY <1>3, <2>0, <2>1 DEF RequestStep, CreateLoad, CreateTask, TaskLoad, EditTask, DeleteTask,
       ProjectLoad, Load, UpdateProject, ArchiveProject, RestoreRead, RestoreProject, Abort
  <2>2. CASE r = s
    <3>1. Idle.pc = "idle"
      BY DEF Idle
    <3>2. ~ (\E u \in Task, b \in Body : CreateLoad(r, u, b))
      BY DEF CreateLoad, Load, Idle, IInv, TypeOK
    <3>3. ~ (\E u \in Task, op \in Ops : TaskLoad(r, u, op))
      BY DEF TaskLoad, Load, Idle, IInv, TypeOK
    <3>4. ~ (\E op \in Ops : ProjectLoad(r, op))
      BY DEF ProjectLoad, Load, Idle, IInv, TypeOK
    <3>5. req' # [req EXCEPT ![r] = Idle]
      BY <3>1 DEF IInv, TypeOK
    <3> QED
      BY <1>3, <2>2, <3>2, <3>3, <3>4, <3>5 DEF RequestStep, CreateTask, EditTask, DeleteTask,
         UpdateProject, ArchiveProject, RestoreProject, Abort
  <2> QED
    BY <2>1, <2>2
<1> QED
  BY <1>1, <1>2, <1>3 DEF Next, ClaimStep, Claim, Tick, vars

\* A restore that no edit has overtaken plans each row for what it is.
LEMMA RestoredPlanned ==
  ASSUME IInv, Behind, NEW r \in Request, RestoreProject(r), NEW t \in Task,
         Planned(task[t]), ~Overtaken(r, t)
  PROVE  Planned(task'[t])
<1>1. PICK was, state : was = req[r].rows[t]
                        /\ state = IF req[r].seen = Null THEN "active" ELSE req[r].seen
  OBVIOUS
<1>2. task[t] \in Row /\ clock \in Time /\ was \in Row \cup {Null}
  BY <1>1 DEF IInv, TypeOK, RequestState
<1>3. CASE was = Null
  <2>1. task'[t] = task[t]
    BY <1>1, <1>3 DEF RestoreProject
  <2> QED
    BY <2>1
<1>4. CASE was # Null
  <2>1. PICK planned : planned = ComputeSchedule(was, state)
    OBVIOUS
  <2>2. Live(t) /\ task'[t] = [task[t] EXCEPT !.schedule = planned]
    BY <1>1, <1>4, <2>1 DEF RestoreProject
  <2>3. Aged(was, task[t]) /\ was.version = task[t].version
    BY <1>1, <1>4 DEF Behind, RestoreProject, Overtaken
  <2>4. was.due = task[t].due /\ was.status = task[t].status
    BY <2>2, <2>3 DEF Aged, Live
  <2>5. /\ planned["overdueCheckAt"] \in {Null, was.due}
        /\ ~Open(was) => planned = NoPlan
    BY <1>2, <1>4, <2>1, PlanFacts
  <2>6. /\ task'[t].schedule = planned
        /\ task'[t].due = was.due /\ task'[t].status = was.status
    BY <1>2, <2>2, <2>4 DEF Row
  <2> QED
    BY <2>5, <2>6 DEF Planned, Open
<1> QED
  BY <1>3, <1>4

LEMMA StepKeepsPlans ==
  ASSUME IInv, Prepared, Behind, [Next]_vars,
         NEW t \in Task, Planned(task[t]), ~Planned(task'[t])
  PROVE  \E r \in Request : req[r].pc = "restoring" /\ req'[r] = Idle /\ Overtaken(r, t)
<1>1. PICK r \in Request : RequestStep(r)
  BY ClaimPlanned DEF Next, Tick, vars
<1>2. RestoreProject(r)
  BY <1>1, EditedPlanned, OtherRequestPlanned
<1>3. req[r].pc = "restoring" /\ req'[r] = Idle
  BY <1>2 DEF RestoreProject, IInv, TypeOK
<1> QED
  BY <1>2, <1>3, RestoredPlanned

\* Whatever edits, creations, sweeps, archives and restores overlap, and however
\* many: a task's plan is for what the task is, until a restore writes one it made
\* from a row that was edited since.
THEOREM PlansAreKept == Spec => PlanLostOnlyToStaleRestore
<1>1. Init => IInv /\ Fresh /\ Prepared /\ Behind
  BY InitType, InitFresh, InitConsistent DEF Consistent, Init, Behind, Idle
<1>2. IInv /\ Fresh /\ Prepared /\ Behind /\ [Next]_vars
        => (IInv /\ Fresh /\ Prepared /\ Behind)'
  BY StepKeepsType, StepKeepsFresh, StepKeepsPrepared, StepKeepsBehind
<1>3. IInv /\ Prepared /\ Behind /\ [Next]_vars
        => [\A t \in Task : Planned(task[t]) /\ ~Planned(task'[t])
              => \E r \in Request : /\ req[r].pc = "restoring" /\ req'[r] = Idle
                                    /\ Overtaken(r, t)]_vars
  BY StepKeepsPlans
<1> QED
  BY <1>1, <1>2, <1>3, PTL DEF Spec, PlanLostOnlyToStaleRestore

-------------------------------------------------------------------------------
(* Archived work is paused *)

\* One step of the rows of an archived project.
LEMMA StepKeepsPaused ==
  ASSUME "restore" \notin Ops, "create" \notin Ops
  PROVE  IInv /\ Consistent /\ ArchivePausesReminders /\ [Next]_vars => ArchivePausesReminders'
<1> DEFINE Paused(t) == Live(t) => /\ task[t].schedule["remindAt"] = Null
                                   /\ task[t].schedule["overdueCheckAt"] = Null
<1> SUFFICES ASSUME IInv, Consistent, ArchivePausesReminders, [Next]_vars, Archived',
                    NEW t \in Task
             PROVE  Paused(t)'
  BY DEF ArchivePausesReminders
<1>1. task[t] \in Row /\ task[t].schedule \in Schedule
  BY DEF IInv, TypeOK, Row
<1>2. Archived => Paused(t)
  BY DEF ArchivePausesReminders
<1>3. ASSUME NEW r \in Request, ArchiveProject(r) PROVE Paused(t)'
  <2> DEFINE cleared == [task[t].schedule EXCEPT !["remindAt"] = Null,
                                                 !["overdueCheckAt"] = Null]
  <2>1. cleared \in Schedule /\ cleared["remindAt"] = Null /\ cleared["overdueCheckAt"] = Null
    BY <1>1 DEF Schedule, Field
  <2>2. task'[t] = IF Live(t) THEN [task[t] EXCEPT !.schedule = cleared] ELSE task[t]
    BY <1>3 DEF ArchiveProject
  <2> HIDE DEF cleared
  <2> QED
    BY <1>1, <2>1, <2>2, Replan DEF Live
<1>4. ASSUME NEW r \in Request, NEW b \in Body, EditTask(r, b) PROVE Paused(t)'
  <2>1. PICK u \in Task, after \in Row :
             /\ after.schedule = task[u].schedule /\ after.life = task[u].life
             /\ task' = [task EXCEPT ![u] =
                           IF ScheduleInputsChanged(task[u], after)
                           THEN [after EXCEPT !.schedule = ComputeSchedule(after, project.state)]
                           ELSE after]
    BY <1>4, EditedRow
  <2>2. project.state = "archived" /\ clock \in Time /\ task \in [Task -> Row]
    BY <1>4 DEF EditTask, Archived, IInv, TypeOK
  <2> DEFINE planned == ComputeSchedule(after, project.state)
  <2>3. planned \in Schedule /\ planned = NoPlan
    BY <2>2, PlanFacts
  <2>4. CASE t # u
    BY <1>2, <2>1, <2>2, <2>4 DEF Archived, Live
  <2>5. CASE t = u /\ ~ScheduleInputsChanged(task[u], after)
    BY <1>2, <2>1, <2>2, <2>5 DEF Archived, Live
  <2>6. CASE t = u /\ ScheduleInputsChanged(task[u], after)
    <3>1. task'[t] = [after EXCEPT !.schedule = planned]
      BY <2>1, <2>2, <2>6
    <3> HIDE DEF planned
    <3>2. task'[t].schedule = NoPlan
      BY <2>3, <3>1, Replan
    <3> QED
      BY <3>2 DEF NoPlan, Field
  <2> QED
    BY <2>4, <2>5, <2>6
<1>5. ASSUME NEW r \in Request, DeleteTask(r) PROVE Paused(t)'
  <2>1. task'[t] = task[t] \/ task'[t].life = "deleted"
    BY <1>1, <1>5 DEF DeleteTask, IInv, TypeOK, Unborn
  <2> QED
    BY <1>2, <1>5, <2>1 DEF DeleteTask, Archived, Live
<1>6. CASE ClaimStep
  <2>1. PICK u \in Task, f \in Field : Claim(u, f, task[u].schedule[f])
    BY <1>6 DEF ClaimStep
  <2> DEFINE planned == [task[u].schedule EXCEPT ![f] = Null]
  <2>2. /\ UNCHANGED project /\ task' = [task EXCEPT ![u] = [task[u] EXCEPT !.schedule = planned]]
        /\ Live(u) /\ task \in [Task -> Row]
    BY <2>1 DEF Claim, IInv, TypeOK
  <2>3. planned \in Schedule /\ \A g \in Field : planned[g] \in {Null, task[u].schedule[g]}
    BY <2>2 DEF Schedule, Row
  <2> HIDE DEF planned
  <2>4. CASE t # u
    BY <1>2, <2>2, <2>4 DEF Archived, Live
  <2>5. CASE t = u
    <3>1. task'[t].schedule = planned
      BY <2>2, <2>3, <2>5, Replan
    <3>2. Archived
      BY <2>2 DEF Archived
    <3> QED
      BY <1>2, <2>2, <2>3, <2>5, <3>1, <3>2 DEF Field
  <2> QED
    BY <2>4, <2>5
<1>7. CASE UNCHANGED task /\ Archived
  BY <1>2, <1>7 DEF Live
<1>8. ASSUME NEW r \in Request, RequestStep(r)
      PROVE  \/ ArchiveProject(r)
             \/ \E b \in Body : EditTask(r, b)
             \/ DeleteTask(r)
             \/ UNCHANGED task /\ Archived
  <2>1. ~CreateTask(r) /\ ~RestoreProject(r)
    BY DEF Consistent, Prepared, Permitted, CreateTask, RestoreProject
  <2>2. ASSUME NEW s \in Settable \cup {"archived"}, UpdateProject(r, s)
        PROVE  UNCHANGED task /\ Archived
    <3>1. UNCHANGED task /\ project'.state = s
      BY <2>2 DEF UpdateProject, IInv, TypeOK, Project
    <3> QED
      BY <2>2, <3>1 DEF UpdateProject, Archived, Settable
  <2> DEFINE Loads == \/ \E u \in Task, b \in Body : CreateLoad(r, u, b)
                      \/ \E u \in Task, op \in Ops : TaskLoad(r, u, op)
                      \/ \E op \in Ops : ProjectLoad(r, op)
                      \/ RestoreRead(r)
                      \/ Abort(r)
             Updates == \E s \in Settable \cup {"archived"} : UpdateProject(r, s)
  <2>3. Loads => UNCHANGED task /\ Archived
    <3>1. Loads => UNCHANGED <<project, task>>
      BY DEF CreateLoad, TaskLoad, ProjectLoad, Load, RestoreRead, Abort
    <3> QED
      BY <3>1 DEF Archived
  <2>4. Updates => UNCHANGED task /\ Archived
    BY <2>2
  <2>5. \/ Loads \/ Updates \/ ArchiveProject(r) \/ DeleteTask(r)
        \/ \E b \in Body : EditTask(r, b)
    BY <1>8, <2>1 DEF RequestStep
  <2> HIDE DEF Loads, Updates
  <2> QED
    BY <2>3, <2>4, <2>5
<1>9. CASE UNCHANGED <<project, task>>
  BY <1>7, <1>9 DEF Archived
<1> HIDE DEF Paused
<1> QED
  BY <1>3, <1>4, <1>5, <1>6, <1>7, <1>8, <1>9 DEF Next, Tick, vars

\* As long as nothing is created or restored, the reminders and overdue alerts of
\* an archived project stay paused, even against edits that read it before: the
\* edit re-reads the project's state in its own transaction.
THEOREM ArchivedIsPaused ==
  ASSUME "restore" \notin Ops, "create" \notin Ops
  PROVE  Spec => []ArchivePausesReminders
<1>1. Init => ArchivePausesReminders
  BY DEF Init, ArchivePausesReminders, Archived
<1>2. IInv /\ Consistent /\ ArchivePausesReminders /\ [Next]_vars => ArchivePausesReminders'
  BY StepKeepsPaused
<1> QED
  BY <1>1, <1>2, ConsistentAlways, PTL DEF Spec

-------------------------------------------------------------------------------
(* An open task's alert is not lost *)

\* A row with its deadline ahead of i, open, has its alert armed for it.
Alert(row, i) ==
    (row.life = "live" /\ Open(row) /\ row.due # Null /\ row.due > i)
      => row.schedule["overdueCheckAt"] = row.due

\* The same of the rows about to be created.
Promised == \A r \in Request : Creating(r) => Alert(req[r].rows[req[r].task], clock)

LEMMA ArmedIsAlert == ArmedForDeadline <=> (Archived \/ \A t \in Task : Alert(task[t], clock))
BY DEF ArmedForDeadline, Alert, Live

LEMMA PlanAlert ==
  ASSUME NEW row, NEW state, Open(row), state # "archived"
  PROVE  ComputeSchedule(row, state)["overdueCheckAt"] = Ahead(row.due)
<1> DEFINE f == "overdueCheckAt"
           instant(g) == CASE g = "remindAt"        -> Ahead(Before(row.due, row.offset))
                           [] g = "overdueCheckAt"  -> Ahead(row.due)
                           [] g = "startReminderAt" -> IF row.status = "todo"
                                          THEN Ahead(Before(row.start, StartLead)) ELSE Null
<1>1. ComputeSchedule(row, state) = [g \in Field |-> instant(g)]
  BY DEF ComputeSchedule
<1>2. instant("overdueCheckAt") = Ahead(row.due)
  OBVIOUS
<1> HIDE DEF instant
<1> QED
  BY <1>1, <1>2 DEF Field

\* A row planned now is alerted for, and stays so as time passes.
LEMMA PlannedAlert ==
  ASSUME NEW row \in Row, NEW base \in Row, NEW state, state # "archived", clock \in Time,
         row.schedule = ComputeSchedule(base, state),
         row.due = base.due, row.status = base.status
  PROVE  Alert(row, clock)
<1>1. Open(row) => row.schedule["overdueCheckAt"] = Ahead(row.due)
  BY PlanAlert DEF Open
<1> QED
  BY <1>1 DEF Alert, Ahead

LEMMA AlertLasts ==
  ASSUME NEW row \in Row, NEW i \in Int, Alert(row, i)
  PROVE  Alert(row, i + 1)
<1>1. row.due = Null \/ row.due \in Int
  BY ScheduleAssumption DEF Row, Time
<1> QED
  BY <1>1 DEF Alert

LEMMA NewTaskAlert ==
  ASSUME NEW b \in Body, clock \in Time
  PROVE  Alert(NewTask(b), clock)
<1> DEFINE born == [Unborn EXCEPT !.life = "live"]
           row == WithBody(born, b)
           planned == ComputeSchedule(row, Null)
<1>1. born \in Row
  BY UnbornType, WithLifeType
<1> HIDE DEF born
<1>2. row \in Row
  BY <1>1, WithBodyType
<1> HIDE DEF row
<1>3. planned \in Schedule
  BY <1>2, PlanFacts
<1>4. Null # "archived"
  BY ScheduleAssumption
<1>5. NewTask(b) = [row EXCEPT !.schedule = planned]
  BY DEF NewTask, row, born
<1>6. /\ NewTask(b) \in Row /\ NewTask(b).schedule = planned
      /\ NewTask(b).due = row.due /\ NewTask(b).status = row.status
  BY <1>2, <1>3, <1>5, Replan DEF planned
<1> QED
  BY <1>2, <1>4, <1>6, PlannedAlert

\* Where a step leaves a row of the board alone, or its alert or its deadline.
LEMMA AlertKept ==
  ASSUME NEW row, NEW new, NEW i, Alert(row, i),
         new.life = row.life, new.status = row.status, new.due = row.due,
         new.schedule["overdueCheckAt"] = row.schedule["overdueCheckAt"]
  PROVE  Alert(new, i)
BY DEF Alert, Open

LEMMA EditedAlert ==
  ASSUME IInv, NEW r \in Request, NEW b \in Body, EditTask(r, b), ~Archived,
         \A t \in Task : Alert(task[t], clock)
  PROVE  \A t \in Task : Alert(task'[t], clock)
<1>1. PICK t \in Task, after \in Row :
           /\ after.schedule = task[t].schedule /\ after.life = task[t].life
           /\ task' = [task EXCEPT ![t] =
                         IF ScheduleInputsChanged(task[t], after)
                         THEN [after EXCEPT !.schedule = ComputeSchedule(after, project.state)]
                         ELSE after]
  BY EditedRow
<1> DEFINE planned == ComputeSchedule(after, project.state)
<1>2. clock \in Time /\ task \in [Task -> Row]
  BY DEF IInv, TypeOK
<1>3. planned \in Schedule
  BY <1>2, PlanFacts
<1>4. CASE ScheduleInputsChanged(task[t], after)
  <2> DEFINE row == [after EXCEPT !.schedule = planned]
  <2>1. task' = [task EXCEPT ![t] = row]
    BY <1>1, <1>4
  <2>2. /\ row \in Row /\ row.schedule = planned
        /\ row.due = after.due /\ row.status = after.status
    BY <1>3, Replan
  <2> HIDE DEF row
  <2>3. Alert(row, clock)
    BY <1>2, <2>2, PlannedAlert DEF Archived
  <2> QED
    BY <1>2, <2>1, <2>3
<1>5. CASE ~ScheduleInputsChanged(task[t], after)
  <2>1. task' = [task EXCEPT ![t] = after]
    BY <1>1, <1>5
  <2>2. after.due = task[t].due /\ (Open(after) <=> Open(task[t]))
    BY <1>5 DEF ScheduleInputsChanged, Open
  <2>3. Alert(after, clock)
    BY <1>1, <2>2 DEF Alert
  <2> QED
    BY <1>2, <2>1, <2>3
<1> QED
  BY <1>4, <1>5

\* The sweep claims what is due, so never the alert of a deadline ahead.
LEMMA ClaimedAlert ==
  ASSUME IInv, ClaimStep, \A t \in Task : Alert(task[t], clock)
  PROVE  \A t \in Task : Alert(task'[t], clock)
<1>1. PICK t \in Task, f \in Field : Due(t, f, clock) /\ Claim(t, f, task[t].schedule[f])
  BY DEF ClaimStep
<1> DEFINE planned == [task[t].schedule EXCEPT ![f] = Null]
           row == [task[t] EXCEPT !.schedule = planned]
<1>2. task[t] \in Row /\ task[t].schedule \in Schedule /\ Alert(task[t], clock) /\ clock \in Int
  BY DEF IInv, TypeOK, Row, Time
<1>3. planned \in Schedule
  BY <1>2 DEF Schedule, Field
<1>4. task' = [task EXCEPT ![t] = row]
  BY <1>1 DEF Claim
<1>5. f # "overdueCheckAt" => planned["overdueCheckAt"] = task[t].schedule["overdueCheckAt"]
  BY <1>2 DEF Schedule, Field
<1>6. task[t].schedule[f] <= clock
  BY <1>1 DEF Due
<1> HIDE DEF planned
<1>7. /\ row.schedule = planned /\ row.due = task[t].due /\ row.status = task[t].status
      /\ row.life = task[t].life
  BY <1>2, <1>3, Replan
<1> HIDE DEF row
<1>8. CASE f # "overdueCheckAt"
  <2>1. Alert(row, clock)
    BY <1>2, <1>5, <1>7, <1>8, AlertKept
  <2> QED
    BY <1>4, <2>1 DEF IInv, TypeOK
<1>9. CASE f = "overdueCheckAt"
  <2>1. ~(row.life = "live" /\ Open(row) /\ row.due # Null /\ row.due > clock)
    <3>1. task[t].due = Null \/ task[t].due \in Int
      BY <1>2, ScheduleAssumption DEF Row, Time
    <3>2. Alert(task[t], clock) /\ (row.life = task[t].life) /\ (Open(row) <=> Open(task[t]))
      BY <1>2, <1>7 DEF Open
    <3> QED
      BY <1>2, <1>6, <1>7, <1>9, <3>1, <3>2 DEF Alert
  <2>2. Alert(row, clock)
    BY <2>1 DEF Alert
  <2> QED
    BY <1>4, <2>2 DEF IInv, TypeOK
<1> QED
  BY <1>8, <1>9

LEMMA DeletedAlert ==
  ASSUME IInv, NEW r \in Request, DeleteTask(r), \A t \in Task : Alert(task[t], clock)
  PROVE  \A t \in Task : Alert(task'[t], clock)
<1> DEFINE row == [Unborn EXCEPT !.life = "deleted"]
<1>1. row.life = "deleted"
  BY DEF Unborn
<1>2. task' = [task EXCEPT ![req[r].task] = row]
  BY DEF DeleteTask
<1> HIDE DEF row
<1>3. Alert(row, clock)
  BY <1>1 DEF Alert
<1> QED
  BY <1>2, <1>3 DEF IInv, TypeOK

LEMMA CreatedAlert ==
  ASSUME IInv, Promised, NEW r \in Request, CreateTask(r), \A t \in Task : Alert(task[t], clock)
  PROVE  \A t \in Task : Alert(task'[t], clock)
<1>1. req[r].task \in Task /\ Alert(req[r].rows[req[r].task], clock)
  BY DEF CreateTask, IInv, Loaded, Promised, Creating
<1> QED
  BY <1>1 DEF CreateTask, IInv, TypeOK

LEMMA TickedAlert ==
  ASSUME IInv, Tick
  PROVE  /\ \A t \in Task : Alert(task[t], clock) => Alert(task[t], clock)'
         /\ Promised => Promised'
<1>1. clock \in Int /\ clock' = clock + 1 /\ UNCHANGED <<task, req>> /\ task \in [Task -> Row]
  BY DEF Tick, IInv, TypeOK, Time
<1>2. ASSUME NEW row \in Row, Alert(row, clock) PROVE Alert(row, clock + 1)
  BY <1>1, <1>2, AlertLasts
<1>3. ASSUME NEW t \in Task, Alert(task[t], clock) PROVE Alert(task'[t], clock')
  BY <1>1, <1>2, <1>3
<1>4. ASSUME Promised, NEW r \in Request, Creating(r)'
      PROVE  Alert(req'[r].rows[req'[r].task], clock')
  <2>1. req[r].rows[req[r].task] \in Row
    BY <1>1, <1>4 DEF IInv, Loaded, Creating
  <2>2. Alert(req[r].rows[req[r].task], clock)
    BY <1>1, <1>4 DEF Promised, Creating
  <2> QED
    BY <1>1, <1>2, <2>1, <2>2
<1> QED
  BY <1>3, <1>4 DEF Promised, Alert

\* What requests promise after a step of one of them.
LEMMA PromisesKept ==
  ASSUME IInv, Promised, NEW r \in Request, RequestStep(r)
  PROVE  Promised'
<1> DEFINE Fine(q) == (q.pc = "loaded" /\ q.op = "create") => Alert(q.rows[q.task], clock)
<1>1. \A s \in Request : Fine(req[s])
  BY DEF Promised, Creating
<1>2. clock' = clock /\ clock \in Time /\ req \in [Request -> RequestState]
  BY DEF RequestStep, CreateLoad, CreateTask, TaskLoad, EditTask, DeleteTask, ProjectLoad, Load,
     UpdateProject, ArchiveProject, RestoreRead, RestoreProject, Abort, IInv, TypeOK
<1>3. SUFFICES \A s \in Request : Fine(req'[s])
  BY <1>2 DEF Promised, Creating
<1>4. Fine(Idle)
  BY DEF Idle
<1>5. ASSUME NEW q, Fine(q), req' = [req EXCEPT ![r] = q] PROVE \A s \in Request : Fine(req'[s])
  <2> HIDE DEF Fine
  <2> QED
    BY <1>1, <1>2, <1>5
<1>6. ASSUME NEW t \in Task, NEW b \in Body, CreateLoad(r, t, b)
      PROVE  \A s \in Request : Fine(req'[s])
  <2> DEFINE q == [Idle EXCEPT !.pc = "loaded", !.op = "create", !.task = t,
                               !.rows = [NoRows EXCEPT ![t] = NewTask(b)]]
  <2>1. req' = [req EXCEPT ![r] = q]
    BY <1>6 DEF CreateLoad, Load
  <2>2. q.task = t /\ q.rows[t] = NewTask(b)
    BY DEF Idle, NoRows
  <2> HIDE DEF q
  <2>3. Fine(q)
    BY <1>2, <2>2, NewTaskAlert
  <2> HIDE DEF Fine
  <2> QED
    BY <1>5, <2>1, <2>3
<1>7. ASSUME NEW t \in Task, NEW op \in Ops, TaskLoad(r, t, op)
      PROVE  \A s \in Request : Fine(req'[s])
  <2> DEFINE q == [Idle EXCEPT !.pc = "loaded", !.op = op, !.task = t,
                               !.version = task[t].version]
  <2>1. req' = [req EXCEPT ![r] = q] /\ op # "create"
    BY <1>7 DEF TaskLoad, Load
  <2>2. q.op = op
    BY DEF Idle
  <2> HIDE DEF q
  <2>3. Fine(q)
    BY <2>1, <2>2
  <2> HIDE DEF Fine
  <2> QED
    BY <1>5, <2>1, <2>3
<1>8. ASSUME NEW op \in Ops, ProjectLoad(r, op) PROVE \A s \in Request : Fine(req'[s])
  <2> DEFINE seen == CASE op = "restore" -> project.prior
                       [] op = "archive" -> project.state
                       [] OTHER          -> Null
             q == [Idle EXCEPT !.pc = "loaded", !.op = op, !.seen = seen]
  <2>1. req' = [req EXCEPT ![r] = q] /\ op # "create"
    BY <1>8 DEF ProjectLoad, Load
  <2> HIDE DEF seen
  <2>2. q.op = op
    BY DEF Idle
  <2> HIDE DEF q
  <2>3. Fine(q)
    BY <2>1, <2>2
  <2> HIDE DEF Fine
  <2> QED
    BY <1>5, <2>1, <2>3
<1>9. ASSUME RestoreRead(r) PROVE \A s \in Request : Fine(req'[s])
  <2> DEFINE rows == [t \in Task |->
                IF Live(t) /\ Open(task[t]) /\ (task[t].due # Null \/ task[t].start # Null)
                THEN task[t] ELSE Null]
             q == [req[r] EXCEPT !.pc = "restoring", !.rows = rows]
  <2>1. req' = [req EXCEPT ![r] = q]
    BY <1>9 DEF RestoreRead, RowsToPlan
  <2> HIDE DEF rows
  <2>2. q.pc = "restoring"
    BY <1>2 DEF RequestState
  <2> HIDE DEF q
  <2>3. Fine(q)
    BY <2>2
  <2> HIDE DEF Fine
  <2> QED
    BY <1>5, <2>1, <2>3
<1>10. CASE req' = [req EXCEPT ![r] = Idle]
  <2> HIDE DEF Fine
  <2> QED
    BY <1>4, <1>5, <1>10
<1>11. \/ \E t \in Task, b \in Body : CreateLoad(r, t, b)
       \/ \E t \in Task, op \in Ops : TaskLoad(r, t, op)
       \/ \E op \in Ops : ProjectLoad(r, op)
       \/ RestoreRead(r)
       \/ req' = [req EXCEPT ![r] = Idle]
  BY DEF RequestStep, CreateTask, EditTask, DeleteTask, UpdateProject, ArchiveProject,
     RestoreProject, Abort
<1> HIDE DEF Fine
<1> QED
  BY <1>6, <1>7, <1>8, <1>9, <1>10, <1>11

LEMMA StepKeepsPromised == IInv /\ Promised /\ [Next]_vars => Promised'
<1> SUFFICES ASSUME IInv, Promised, [Next]_vars PROVE Promised'
  OBVIOUS
<1>1. CASE ClaimStep
  BY <1>1 DEF ClaimStep, Claim, Promised, Creating, Alert
<1>2. CASE UNCHANGED vars
  BY <1>2 DEF vars, Promised, Creating, Alert
<1> QED
  BY <1>1, <1>2, PromisesKept, TickedAlert DEF Next

LEMMA InitAlert == Init => Promised /\ \A t \in Task : Alert(task[t], clock)
<1> SUFFICES ASSUME Init PROVE Promised /\ \A t \in Task : Alert(task[t], clock)
  OBVIOUS
<1>1. clock \in Time /\ task \in [Task -> {Unborn} \cup {NewTask(b) : b \in Body}]
  BY ScheduleAssumption DEF Init, Time
<1>2. Alert(Unborn, clock)
  BY DEF Alert, Unborn
<1>3. \A r \in Request : req[r].pc = "idle"
  BY DEF Init, Idle
<1> QED
  BY <1>1, <1>2, <1>3, NewTaskAlert DEF Promised, Creating

\* A step of a request, while the project is not archived, leaves every alert armed.
LEMMA AlertsStay ==
  ASSUME "restore" \notin Ops, IInv, Consistent, Promised, ~Archived, NEW r \in Request,
         RequestStep(r), ~ArchiveProject(r), \A t \in Task : Alert(task[t], clock)
  PROVE  \A t \in Task : Alert(task[t], clock)'
<1>1. clock' = clock
  BY DEF RequestStep, CreateLoad, CreateTask, TaskLoad, EditTask, DeleteTask, ProjectLoad, Load,
     UpdateProject, ArchiveProject, RestoreRead, RestoreProject, Abort
<1>2. SUFFICES \A t \in Task : Alert(task'[t], clock)
  BY <1>1 DEF Alert
<1>3. ~RestoreProject(r)
  BY DEF Consistent, Prepared, Permitted, RestoreProject
<1>4. CASE UNCHANGED task
  BY <1>4
<1>5. \/ CreateTask(r) \/ DeleteTask(r) \/ (\E b \in Body : EditTask(r, b)) \/ UNCHANGED task
  BY <1>3 DEF RequestStep, CreateLoad, TaskLoad, ProjectLoad, Load, UpdateProject, RestoreRead,
     Abort
<1> QED
  BY <1>4, <1>5, CreatedAlert, DeletedAlert, EditedAlert

LEMMA StepLosesNoAlert ==
  ASSUME "restore" \notin Ops, IInv, Consistent, Promised, [Next]_vars,
         ArmedForDeadline, ~ArmedForDeadline'
  PROVE  \E r \in Request :
           /\ req'[r] = Idle
           /\ \/ req[r].op = "update" /\ Archived /\ ~Archived'
              \/ req[r].pc = "restoring" /\ \E t \in Task : Overtaken(r, t)
<1>1. ~Archived' /\ ~(\A t \in Task : Alert(task[t], clock)')
  BY DEF ArmedForDeadline, Alert, Live
<1>2. CASE ~Archived
  <2>1. \A t \in Task : Alert(task[t], clock)
    BY <1>2, ArmedIsAlert
  <2>2. ~Tick
    BY <1>1, <2>1, TickedAlert
  <2>3. ~ClaimStep
    BY <1>1, <2>1, ClaimedAlert DEF ClaimStep, Claim, Alert
  <2>4. ~UNCHANGED vars
    BY <1>1, <2>1 DEF vars, Alert
  <2>5. \A r \in Request : ~ArchiveProject(r)
    BY <1>1 DEF ArchiveProject, Archived
  <2> QED
    BY <1>1, <1>2, <2>1, <2>2, <2>3, <2>4, <2>5, AlertsStay DEF Next
<1>3. CASE Archived
  <2>1. ~UNCHANGED project
    BY <1>1, <1>3 DEF Archived
  <2>2. PICK r \in Request : RequestStep(r)
    BY <2>1 DEF Next, vars, ClaimStep, Claim, Tick
  <2>3. ~RestoreProject(r) /\ ~ArchiveProject(r)
    BY <1>3 DEF Consistent, Prepared, Permitted, RestoreProject, ArchiveProject
  <2>4. PICK s \in Settable \cup {"archived"} : UpdateProject(r, s)
    BY <2>1, <2>2, <2>3 DEF RequestStep, CreateLoad, CreateTask, TaskLoad, EditTask, DeleteTask,
       ProjectLoad, Load, RestoreRead, Abort
  <2>5. req[r].op = "update" /\ req'[r] = Idle
    BY <2>4 DEF UpdateProject, IInv, TypeOK
  <2> QED
    BY <1>1, <1>3, <2>5
<1> QED
  BY <1>2, <1>3

\* As long as no project is restored, the overdue alert of open work is lost in
\* one way only, an update of the project that had read it before it was archived:
\* whatever edits, creations, claims and archives overlap, for any number of them.
THEOREM AlertIsKept ==
  ASSUME "restore" \notin Ops
  PROVE  Spec => AlertLostOnlyToStaleWrite
<1>1. Init => IInv /\ Consistent /\ Promised
  BY InitType, InitConsistent, InitAlert
<1>2. IInv /\ Consistent /\ Promised /\ [Next]_vars => (IInv /\ Consistent /\ Promised)'
  BY StepKeepsType, StepKeepsConsistent, StepKeepsPromised
<1>3. IInv /\ Consistent /\ Promised /\ [Next]_vars
        => [(ArmedForDeadline /\ ~ArmedForDeadline')
            => \E r \in Request :
                 /\ req'[r] = Idle
                 /\ \/ req[r].op = "update" /\ Archived /\ ~Archived'
                    \/ req[r].pc = "restoring" /\ \E t \in Task : Overtaken(r, t)]_vars
  BY StepLosesNoAlert
<1> QED
  BY <1>1, <1>2, <1>3, PTL DEF Spec, AlertLostOnlyToStaleWrite

-------------------------------------------------------------------------------
(* One request at a time *)

\* What a request has read is still so, and a restore knows a state to return to.
StillSo(q) ==
    /\ (q.pc = "loaded" /\ q.op = "update") => ~Archived
    /\ (q.pc = "loaded" /\ q.op = "archive") => q.seen = project.state
    /\ (q.pc = "loaded" /\ q.op = "restore") \/ q.pc = "restoring" => q.seen # "archived"
    /\ q.pc = "restoring" =>
         \A t \in Task :
           IF q.rows[t] = Null
           THEN ~(Live(t) /\ Open(task[t]) /\ task[t].due # Null)
           ELSE /\ q.rows[t] \in Row
                /\ q.rows[t].due = task[t].due /\ q.rows[t].status = task[t].status

SerialInv ==
    /\ Promised
    /\ Archived \/ \A t \in Task : Alert(task[t], clock)
    /\ project.prior # "archived"
    /\ \A r \in Request : StillSo(req[r])

LEMMA InitSerial == Init => SerialInv
<1>1. ASSUME Init, NEW r \in Request PROVE StillSo(req[r])
  BY <1>1 DEF Init, Idle, StillSo
<1>2. Init => project.prior # "archived"
  BY ScheduleAssumption DEF Init
<1> QED
  BY <1>1, <1>2, InitAlert DEF SerialInv

LEMMA RestoredAlert ==
  ASSUME IInv, SerialInv, NEW r \in Request, RestoreProject(r)
  PROVE  \A t \in Task : Alert(task'[t], clock)
<1> SUFFICES ASSUME NEW t \in Task PROVE Alert(task'[t], clock)
  OBVIOUS
<1> DEFINE base == req[r].rows[t]
           state == IF req[r].seen = Null THEN "active" ELSE req[r].seen
           planned == ComputeSchedule(base, state)
<1>1. clock \in Time /\ task[t] \in Row
  BY DEF IInv, TypeOK
<1>2. state # "archived" /\ task'[t] = IF base # Null THEN [task[t] EXCEPT !.schedule = planned]
                                       ELSE task[t]
  BY DEF RestoreProject, SerialInv, StillSo
<1>3. IF base = Null THEN ~(Live(t) /\ Open(task[t]) /\ task[t].due # Null)
      ELSE base \in Row /\ base.due = task[t].due /\ base.status = task[t].status
  BY DEF RestoreProject, SerialInv, StillSo
<1> HIDE DEF base, state
<1>4. CASE base = Null
  BY <1>2, <1>3, <1>4 DEF Alert, Live
<1>5. CASE base # Null
  <2>1. planned \in Schedule
    BY <1>1, <1>3, <1>5, PlanFacts
  <2> DEFINE row == [task[t] EXCEPT !.schedule = planned]
  <2>2. /\ row \in Row /\ row.schedule = planned
        /\ row.due = task[t].due /\ row.status = task[t].status
    BY <1>1, <2>1, Replan
  <2>3. task'[t] = row
    BY <1>2, <1>5
  <2> HIDE DEF row
  <2>4. Alert(row, clock)
    BY <1>1, <1>2, <1>3, <1>5, <2>2, PlannedAlert
  <2> QED
    BY <2>3, <2>4
<1> QED
  BY <1>4, <1>5

\* What the one request holds after its step.
LEMMA StepStillSo ==
  ASSUME \A x, y \in Request : x = y, IInv, SerialInv, NEW r \in Request, RequestStep(r)
  PROVE  project'.prior # "archived" /\ \A s \in Request : StillSo(req[s])'
<1>1. /\ project \in Project /\ task \in [Task -> Row] /\ req[r] \in RequestState
      /\ req \in [Request -> RequestState] /\ StillSo(req[r]) /\ project.prior # "archived"
  BY DEF IInv, TypeOK, SerialInv
<1>2. SUFFICES project'.prior # "archived" /\ StillSo(req[r])'
  OBVIOUS
<1>3. ASSUME NEW t \in Task, NEW b \in Body, CreateLoad(r, t, b)
      PROVE  project'.prior # "archived" /\ StillSo(req[r])'
  <2> DEFINE q == [Idle EXCEPT !.pc = "loaded", !.op = "create", !.task = t,
                               !.rows = [NoRows EXCEPT ![t] = NewTask(b)]]
  <2>1. req' = [req EXCEPT ![r] = q] /\ UNCHANGED project
    BY <1>3 DEF CreateLoad, Load
  <2>2. q.pc = "loaded" /\ q.op = "create"
    BY DEF Idle
  <2> HIDE DEF q
  <2>3. req'[r] = q
    BY <1>1, <2>1
  <2> QED
    BY <1>1, <2>1, <2>2, <2>3 DEF StillSo
<1>4. ASSUME NEW t \in Task, NEW op \in Ops, TaskLoad(r, t, op)
      PROVE  project'.prior # "archived" /\ StillSo(req[r])'
  <2> DEFINE q == [Idle EXCEPT !.pc = "loaded", !.op = op, !.task = t,
                               !.version = task[t].version]
  <2>1. req' = [req EXCEPT ![r] = q] /\ op \in {"edit", "deleteTask"} /\ UNCHANGED project
    BY <1>4 DEF TaskLoad, Load
  <2>2. q.pc = "loaded" /\ q.op = op
    BY DEF Idle
  <2> HIDE DEF q
  <2>3. req'[r] = q
    BY <1>1, <2>1
  <2> QED
    BY <1>1, <2>1, <2>2, <2>3 DEF StillSo
<1>5. ASSUME NEW op \in Ops, ProjectLoad(r, op)
      PROVE  project'.prior # "archived" /\ StillSo(req[r])'
  <2> DEFINE seen == CASE op = "restore" -> project.prior
                       [] op = "archive" -> project.state
                       [] OTHER          -> Null
             q == [Idle EXCEPT !.pc = "loaded", !.op = op, !.seen = seen]
  <2>1. /\ req' = [req EXCEPT ![r] = q] /\ UNCHANGED <<project, task>>
        /\ op \in {"archive", "restore", "update"} /\ op = "update" => ~Archived
    BY <1>5 DEF ProjectLoad, Load
  <2>2. op = "restore" => seen = project.prior
    OBVIOUS
  <2>3. op = "archive" => seen = project.state
    OBVIOUS
  <2> HIDE DEF seen
  <2>4. q.pc = "loaded" /\ q.op = op /\ q.seen = seen
    BY DEF Idle
  <2> HIDE DEF q
  <2>5. req'[r] = q
    BY <1>1, <2>1
  <2> QED
    BY <1>1, <2>1, <2>2, <2>3, <2>4, <2>5 DEF StillSo, Archived
<1>6. ASSUME NEW s \in Settable \cup {"archived"}, UpdateProject(r, s)
      PROVE  project'.prior # "archived" /\ StillSo(req[r])'
  <2>1. project'.prior = project.prior
    BY <1>1, <1>6 DEF UpdateProject, Project
  <2>2. req'[r].pc = "idle"
    BY <1>1, <1>6 DEF UpdateProject, Idle
  <2> QED
    BY <1>1, <2>1, <2>2 DEF StillSo
<1>7. ASSUME ArchiveProject(r) PROVE project'.prior # "archived" /\ StillSo(req[r])'
  <2>1. project'.prior = project.state
    BY <1>1, <1>7 DEF ArchiveProject, StillSo
  <2>2. req'[r].pc = "idle"
    BY <1>1, <1>7 DEF ArchiveProject, Idle
  <2> QED
    BY <1>7, <2>1, <2>2 DEF StillSo, ArchiveProject, Archived
<1>8. ASSUME RestoreRead(r) PROVE project'.prior # "archived" /\ StillSo(req[r])'
  <2> DEFINE rows == [t \in Task |->
                IF Live(t) /\ Open(task[t]) /\ (task[t].due # Null \/ task[t].start # Null)
                THEN task[t] ELSE Null]
             q == [req[r] EXCEPT !.pc = "restoring", !.rows = rows]
  <2>1. /\ req' = [req EXCEPT ![r] = q] /\ UNCHANGED <<project, task>>
        /\ req[r].pc = "loaded" /\ req[r].op = "restore"
    BY <1>8 DEF RestoreRead, RowsToPlan
  <2>2. \A t \in Task : IF rows[t] = Null
                        THEN ~(Live(t) /\ Open(task[t]) /\ task[t].due # Null)
                        ELSE rows[t] \in Row /\ rows[t] = task[t]
    BY <1>1, RowsAreNotNull
  <2> HIDE DEF rows
  <2>3. q.pc = "restoring" /\ q.rows = rows /\ q.seen = req[r].seen
    BY <1>1 DEF RequestState
  <2> HIDE DEF q
  <2>4. req'[r] = q
    BY <1>1, <2>1
  <2>5. q.seen # "archived"
    BY <1>1, <2>1, <2>3 DEF StillSo
  <2> QED
    BY <1>1, <2>1, <2>2, <2>3, <2>4, <2>5 DEF StillSo, Live, Open
<1>9. ASSUME RestoreProject(r) PROVE project'.prior # "archived" /\ StillSo(req[r])'
  <2>1. project'.prior = Null /\ req'[r].pc = "idle"
    BY <1>1, <1>9 DEF RestoreProject, Idle
  <2> QED
    BY <2>1, ScheduleAssumption DEF StillSo
<1>10. CASE req' = [req EXCEPT ![r] = Idle] /\ UNCHANGED project
  <2>1. req'[r].pc = "idle"
    BY <1>1, <1>10 DEF Idle
  <2> QED
    BY <1>1, <1>10, <2>1 DEF StillSo
<1>11. \/ \E t \in Task, b \in Body : CreateLoad(r, t, b)
       \/ \E t \in Task, op \in Ops : TaskLoad(r, t, op)
       \/ \E op \in Ops : ProjectLoad(r, op)
       \/ \E s \in Settable \cup {"archived"} : UpdateProject(r, s)
       \/ ArchiveProject(r) \/ RestoreRead(r) \/ RestoreProject(r)
       \/ req' = [req EXCEPT ![r] = Idle] /\ UNCHANGED project
  BY DEF RequestStep, CreateTask, EditTask, DeleteTask, Abort
<1> QED
  BY <1>3, <1>4, <1>5, <1>6, <1>7, <1>8, <1>9, <1>10, <1>11

LEMMA StepArmed ==
  ASSUME IInv, SerialInv, NEW r \in Request, RequestStep(r)
  PROVE  Archived' \/ \A t \in Task : Alert(task[t], clock)'
<1>1. clock' = clock
  BY DEF RequestStep, CreateLoad, CreateTask, TaskLoad, EditTask, DeleteTask, ProjectLoad, Load,
     UpdateProject, ArchiveProject, RestoreRead, RestoreProject, Abort
<1>2. SUFFICES Archived' \/ \A t \in Task : Alert(task'[t], clock)
  BY <1>1 DEF Alert
<1>3. CASE RestoreProject(r)
  BY <1>3, RestoredAlert
<1>4. CASE ArchiveProject(r)
  BY <1>4 DEF ArchiveProject, Archived
<1>5. CASE \E s \in Settable \cup {"archived"} : UpdateProject(r, s)
  BY <1>5 DEF UpdateProject, SerialInv, StillSo
<1>6. CASE UNCHANGED project /\ Archived
  BY <1>6 DEF Archived
<1>7. CASE ~Archived /\ UNCHANGED task
  BY <1>7 DEF SerialInv
<1>8. CASE /\ ~Archived
           /\ CreateTask(r) \/ DeleteTask(r) \/ \E b \in Body : EditTask(r, b)
  BY <1>8, CreatedAlert, DeletedAlert, EditedAlert DEF SerialInv
<1>9. \/ RestoreProject(r) \/ ArchiveProject(r)
      \/ \E s \in Settable \cup {"archived"} : UpdateProject(r, s)
      \/ /\ UNCHANGED project
         /\ \/ UNCHANGED task
            \/ CreateTask(r) \/ DeleteTask(r) \/ \E b \in Body : EditTask(r, b)
  BY DEF RequestStep, CreateLoad, CreateTask, TaskLoad, EditTask, DeleteTask, ProjectLoad, Load,
     RestoreRead, Abort
<1> QED
  BY <1>3, <1>4, <1>5, <1>6, <1>7, <1>8, <1>9

LEMMA ClaimStillSo ==
  ASSUME IInv, SerialInv, ClaimStep
  PROVE  project'.prior # "archived" /\ \A s \in Request : StillSo(req[s])'
<1>1. PICK t \in Task, f \in Field : Claim(t, f, task[t].schedule[f])
  BY DEF ClaimStep
<1> DEFINE planned == [task[t].schedule EXCEPT ![f] = Null]
           row == [task[t] EXCEPT !.schedule = planned]
<1>2. task[t] \in Row /\ task[t].schedule \in Schedule /\ task \in [Task -> Row]
  BY DEF IInv, TypeOK, Row
<1>3. planned \in Schedule
  BY <1>2 DEF Schedule, Field
<1>4. task' = [task EXCEPT ![t] = row] /\ UNCHANGED <<project, req>>
  BY <1>1 DEF Claim
<1> HIDE DEF planned
<1>5. row.due = task[t].due /\ row.status = task[t].status /\ row.life = task[t].life
  BY <1>2, <1>3, Replan
<1> HIDE DEF row
<1>6. \A u \in Task : /\ task'[u].due = task[u].due /\ task'[u].status = task[u].status
                      /\ task'[u].life = task[u].life
  BY <1>2, <1>4, <1>5
<1> QED
  BY <1>4, <1>6 DEF SerialInv, StillSo, Archived, Live, Open

LEMMA StepKeepsSerial ==
  ASSUME \A x, y \in Request : x = y
  PROVE  IInv /\ SerialInv /\ [Next]_vars => SerialInv'
<1> SUFFICES ASSUME IInv, SerialInv, [Next]_vars PROVE SerialInv'
  OBVIOUS
<1>1. Promised'
  BY StepKeepsPromised DEF SerialInv
<1>2. ASSUME NEW r \in Request, RequestStep(r) PROVE SerialInv'
  BY <1>1, <1>2, StepStillSo, StepArmed DEF SerialInv
<1>3. CASE ClaimStep
  <2>1. Archived' \/ \A t \in Task : Alert(task[t], clock)'
    BY <1>3, ClaimedAlert DEF SerialInv, ClaimStep, Claim, Archived, Alert
  <2> QED
    BY <1>1, <1>3, <2>1, ClaimStillSo DEF SerialInv
<1>4. CASE Tick
  <2>1. Archived' \/ \A t \in Task : Alert(task[t], clock)'
    BY <1>4, TickedAlert DEF SerialInv, Tick, Archived
  <2>2. project'.prior # "archived" /\ \A s \in Request : StillSo(req[s])'
    BY <1>4 DEF SerialInv, Tick, StillSo, Archived, Live
  <2> QED
    BY <1>1, <2>1, <2>2 DEF SerialInv
<1>5. CASE UNCHANGED vars
  <2>1. Archived' \/ \A t \in Task : Alert(task[t], clock)'
    BY <1>5 DEF SerialInv, vars, Archived, Alert
  <2>2. project'.prior # "archived" /\ \A s \in Request : StillSo(req[s])'
    BY <1>5 DEF SerialInv, vars, StillSo, Archived, Live
  <2> QED
    BY <1>1, <2>1, <2>2 DEF SerialInv
<1> QED
  BY <1>2, <1>3, <1>4, <1>5 DEF Next

\* With one request at a time, restores included, every open task of a project that
\* is not archived has its overdue alert armed for a deadline ahead: a lost alert
\* takes two requests that overlap.
THEOREM SerialAlerts ==
  ASSUME \A x, y \in Request : x = y
  PROVE  Spec => []ArmedForDeadline
<1>1. Init => IInv /\ SerialInv
  BY InitType, InitSerial
<1>2. IInv /\ SerialInv /\ [Next]_vars => (IInv /\ SerialInv)'
  BY StepKeepsType, StepKeepsSerial
<1>3. SerialInv => ArmedForDeadline
  BY ArmedIsAlert DEF SerialInv
<1> QED
  BY <1>1, <1>2, <1>3, PTL DEF Spec

-------------------------------------------------------------------------------
(* Days and their midnights (Calendar) *)

LEMMA DivisionFacts ==
  ASSUME NEW n \in Int, NEW k \in Nat \ {0}
  PROVE  /\ n \div k \in Int /\ n % k \in 0 .. k - 1
         /\ n = k * (n \div k) + (n % k)
OBVIOUS

LEMMA MultipleApart ==
  ASSUME NEW a \in Int, NEW b \in Int, NEW k \in Nat \ {0}, a < b
  PROVE  a * k + k <= b * k
<1>1. b - a - 1 >= 0 /\ k >= 0
  OBVIOUS
<1>2. (b - a - 1) * k >= 0
  BY <1>1
<1>3. (b - a - 1) * k = b * k - a * k - k
  OBVIOUS
<1> QED
  BY <1>2, <1>3

\* A quotient reaches d where its number reaches d times the divisor.
LEMMA QuotientFrom ==
  ASSUME NEW n \in Int, NEW k \in Nat \ {0}, NEW d \in Int
  PROVE  d <= n \div k <=> d * k <= n
<1> DEFINE q == n \div k
           rest == n % k
<1>1. q \in Int /\ rest \in 0 .. k - 1 /\ n = q * k + rest
  BY DivisionFacts
<1> HIDE DEF q, rest
<1>2. CASE d <= q
  <2>1. d * k <= q * k
    BY <1>1, <1>2, MultipleApart
  <2> QED
    BY <1>1, <1>2, <2>1
<1>3. CASE ~(d <= q)
  <2>1. q * k + k <= d * k
    BY <1>1, <1>3, MultipleApart
  <2> QED
    BY <1>1, <1>3, <2>1
<1> QED
  BY <1>2, <1>3 DEF q

LEMMA QuotientOf ==
  ASSUME NEW d \in Int, NEW k \in Nat \ {0}, NEW rest \in 0 .. k - 1
  PROVE  (d * k + rest) \div k = d
<1> DEFINE n == d * k + rest
<1>1. n \in Int
  OBVIOUS
<1>2. d <= n \div k
  <2>1. d * k <= n
    OBVIOUS
  <2> HIDE DEF n
  <2> QED
    BY <1>1, <2>1, QuotientFrom
<1>3. ~(d + 1 <= n \div k)
  <2>1. ~((d + 1) * k <= n)
    <3>1. (d + 1) * k = d * k + k
      OBVIOUS
    <3> QED
      BY <3>1
  <2> HIDE DEF n
  <2> QED
    BY <1>1, <2>1, QuotientFrom
<1>4. n \div k \in Int
  BY <1>1, DivisionFacts
<1> HIDE DEF n
<1>5. n \div k = d
  BY <1>2, <1>3, <1>4
<1> QED
  BY <1>5 DEF n

LEMMA ZoneType ==
  ASSUME NEW z \in Zone
  PROVE  z.before \in Int /\ z.after \in Int /\ z.at \in Int
BY CalendarAssumption

\* If any instant shows w, the conversion that looks the offset up twice finds
\* one (dueDate.ts): one lookup more is never needed.
LEMMA FromWallShown ==
  ASSUME NEW z \in Zone, NEW w \in Int
  PROVE  /\ FromWall(z, w) \in Int
         /\ Showing(z, w) # {} => Wall(z, FromWall(z, w)) = w
<1>1. z.before \in Int /\ z.after \in Int /\ z.at \in Int
  BY ZoneType
<1>2. FromWall(z, w) \in Int
  BY <1>1 DEF FromWall, OffsetAt
<1>3. ASSUME Showing(z, w) # {} PROVE Wall(z, FromWall(z, w)) = w
  <2>1. Wall(z, w - z.before) = w \/ Wall(z, w - z.after) = w
    BY <1>3 DEF Showing
  <2>2. (w - z.before) + z.before = w /\ (w - z.after) + z.after = w
    BY <1>1
  <2>3. w - z.before < z.at \/ w - z.after >= z.at \/ z.before = z.after
    BY <1>1, <2>1 DEF Wall, OffsetAt
  <2> QED
    BY <1>1, <2>3 DEF FromWall, Wall, OffsetAt
<1> QED
  BY <1>2, <1>3

\* A clock that shows w once shows at least w from then on, and less before:
\* what it repeats or skips lies on one side of w.
LEMMA OnceFrom ==
  ASSUME NEW z \in Zone, NEW w \in Int, NEW x \in Int, NEW i, Showing(z, w) = {i}
  PROVE  i \in Int /\ (i <= x <=> w <= Wall(z, x))
<1>1. z.before \in Int /\ z.after \in Int /\ z.at \in Int
  BY ZoneType
<1>2. i \in {w - z.before, w - z.after} /\ Wall(z, i) = w
  BY DEF Showing
<1>3. \A j \in {w - z.before, w - z.after} : Wall(z, j) = w => j = i
  BY DEF Showing
<1>4. i \in Int
  BY <1>1, <1>2
<1>5. CASE i = w - z.before
  <2>1. (w - z.before < z.at) \/ z.before = z.after
    BY <1>1, <1>2, <1>4, <1>5 DEF Wall, OffsetAt
  <2>2. (w - z.after < z.at) \/ z.before = z.after
    BY <1>1, <1>3, <1>5, <2>1 DEF Wall, OffsetAt
  <2> QED
    BY <1>1, <1>4, <1>5, <2>1, <2>2 DEF Wall, OffsetAt
<1>6. CASE i = w - z.after
  <2>1. (w - z.after >= z.at) \/ z.before = z.after
    BY <1>1, <1>2, <1>4, <1>6 DEF Wall, OffsetAt
  <2>2. (w - z.before >= z.at) \/ z.before = z.after
    BY <1>1, <1>3, <1>6, <2>1 DEF Wall, OffsetAt
  <2> QED
    BY <1>1, <1>4, <1>6, <2>1, <2>2 DEF Wall, OffsetAt
<1> QED
  BY <1>2, <1>4, <1>5, <1>6

LEMMA DayType ==
  ASSUME NEW z \in Zone, NEW x \in Int
  PROVE  Wall(z, x) \in Int /\ DayOf(z, x) \in Int /\ TimeOf(z, x) \in 0 .. DayLength - 1
<1>1. Wall(z, x) \in Int
  BY ZoneType DEF Wall, OffsetAt
<1> QED
  BY <1>1, DivisionFacts, CalendarAssumption DEF DayOf, TimeOf

\* Where a midnight comes once, the day begins there.
LEMMA DayFrom ==
  ASSUME NEW z \in Zone, NEW d \in Int, NEW x \in Int, Once(z, d)
  PROVE  Midnight(z, d) \in Int /\ (Midnight(z, d) <= x <=> d <= DayOf(z, x))
<1> DEFINE w == d * DayLength
           i == Midnight(z, d)
<1>1. w \in Int /\ DayLength \in Nat \ {0}
  BY CalendarAssumption
<1>2. Showing(z, w) = {i}
  BY DEF Once
<1> HIDE DEF i
<1>3. i \in Int /\ (i <= x <=> w <= Wall(z, x))
  <2> HIDE DEF w
  <2> QED
    BY <1>1, <1>2, OnceFrom
<1>4. d <= DayOf(z, x) <=> w <= Wall(z, x)
  BY <1>1, DayType, QuotientFrom DEF DayOf
<1> QED
  BY <1>3, <1>4 DEF i

DateType(dated) ==
    /\ dated \in Dated
    /\ dated.at = Unset <=> dated.kind = Unset
    /\ dated.kind = "date" <=> dated.zone # Unset

LEMMA FieldsType ==
  ASSUME NEW dated \in Dated, NEW dev \in Zone,
         dated.at = Unset <=> dated.kind = Unset, dated.kind = "date" <=> dated.zone # Unset
  PROVE  FieldsOf(dated, dev) \in Fields
<1>1. CASE dated.at = Unset
  BY <1>1 DEF FieldsOf, NoFields, Fields
<1>2. CASE dated.at # Unset /\ dated.kind = "date"
  <2>1. dated.zone \in Zone /\ dated.at \in Int
    BY <1>2 DEF Dated, Instant
  <2> QED
    BY <1>2, <2>1, DayType DEF FieldsOf, Fields
<1>3. CASE dated.at # Unset /\ dated.kind # "date"
  <2>1. dated.at \in Int
    BY <1>3 DEF Dated, Instant
  <2> QED
    BY <1>3, <2>1, DayType DEF FieldsOf, Fields
<1> QED
  BY <1>1, <1>2, <1>3

LEMMA UnsetIsNothing == Unset \notin Int /\ Unset \notin Zone /\ Unset # "date" /\ Unset # "datetime"
BY CalendarAssumption

LEMMA MomentType ==
  ASSUME NEW d \in Int, NEW t \in 0 .. DayLength - 1, NEW dev \in Zone
  PROVE  DateType(AtMoment(d, t, dev))
<1> DEFINE w == d * DayLength + t
<1>1. w \in Int
  BY CalendarAssumption
<1>2. BrowserInstant(dev, w) \in Int
  <2> HIDE DEF w
  <2> QED
    BY <1>1, ZoneType DEF BrowserInstant
<1> HIDE DEF w
<1>3. AtMoment(d, t, dev) = [at |-> BrowserInstant(dev, w), kind |-> "datetime", zone |-> Unset]
  BY DEF AtMoment, w
<1> QED
  BY <1>2, <1>3, UnsetIsNothing DEF DateType, Dated, Instant, Kind

LEMMA OnDayType ==
  ASSUME NEW d \in Int, NEW time \in 0 .. DayLength - 1, NEW z \in Zone
  PROVE  /\ DateType(OnDay(d, time, z))
         /\ OnDay(d, time, z) = [at |-> FromWall(z, d * DayLength + time), kind |-> "date",
                                 zone |-> z]
         /\ FromWall(z, d * DayLength + time) \in Int
<1> DEFINE w == d * DayLength + time
<1>1. w \in Int
  BY CalendarAssumption
<1> HIDE DEF w
<1>2. FromWall(z, w) \in Int
  BY <1>1, FromWallShown
<1>3. OnDay(d, time, z) = [at |-> FromWall(z, w), kind |-> "date", zone |-> z]
  BY DEF OnDay, w
<1>4. DateType(OnDay(d, time, z))
  BY <1>2, <1>3, UnsetIsNothing DEF DateType, Dated, Instant, Kind
<1> QED
  BY <1>2, <1>3, <1>4 DEF w

LEMMA NoDateType == DateType(NoDate)
BY UnsetIsNothing DEF DateType, NoDate, Dated, Kind

\* The four things a save may do with a date's fields.
LEMMA ResentCases ==
  ASSUME NEW fields \in Fields, NEW before, NEW time
  PROVE  \/ fields = FieldsOf(before, device) /\ Resent(fields, before, time) = before
         \/ /\ fields # FieldsOf(before, device) /\ fields.day \in Int /\ fields.time # Unset
            /\ Resent(fields, before, time) = AtMoment(fields.day, fields.time, device)
         \/ /\ fields # FieldsOf(before, device) /\ fields.day \in Int /\ fields.time = Unset
            /\ Resent(fields, before, time) = OnDay(fields.day, time, profile)
         \/ /\ fields.day = Unset /\ Resent(fields, before, time) = NoDate
<1>1. fields.day \in Int \/ fields.day = Unset
  BY DEF Fields
<1>2. fields.day \in Int => fields.day # Unset
  BY UnsetIsNothing
<1>3. CASE fields = FieldsOf(before, device)
  BY <1>3 DEF Resent
<1>4. CASE fields # FieldsOf(before, device) /\ fields.day \in Int /\ fields.time # Unset
  BY <1>2, <1>4 DEF Resent
<1>5. CASE fields # FieldsOf(before, device) /\ fields.day \in Int /\ fields.time = Unset
  BY <1>2, <1>5 DEF Resent
<1>6. CASE fields # FieldsOf(before, device) /\ fields.day = Unset
  BY <1>6 DEF Resent
<1> QED
  BY <1>1, <1>3, <1>4, <1>5, <1>6

LEMMA ResentType ==
  ASSUME NEW fields \in Fields, NEW before, DateType(before), NEW time \in 0 .. DayLength - 1,
         device \in Zone, profile \in Zone
  PROVE  DateType(Resent(fields, before, time))
<1>1. fields.time # Unset => fields.time \in 0 .. DayLength - 1
  BY DEF Fields
<1> QED
  BY <1>1, ResentCases, MomentType, OnDayType, NoDateType

-------------------------------------------------------------------------------
(* Calendar's types, and what a form still shows *)

\* A field nobody typed in shows the date that is saved, unless the browser moved.
Untouched ==
    sheet.open /\ ~sheet.travelled =>
      /\ "due" \notin sheet.typed => sheet.due = FieldsOf(plan.due, device)
      /\ "start" \notin sheet.typed => sheet.start = FieldsOf(plan.start, device)

DateInv == CalendarTypeOK /\ Untouched

LEMMA TypableType == Typable \subseteq Fields
<1>1. 1 \in 0 .. DayLength - 1 /\ PickedDay \subseteq Int
  BY CalendarAssumption
<1> QED
  BY <1>1 DEF Typable, Fields

LEMMA ShutType == Shut \in Sheet
BY DEF Shut, Sheet, NoFields, Fields

LEMMA InitDates == CalendarInit => DateInv
<1> SUFFICES ASSUME CalendarInit PROVE DateInv
  OBVIOUS
<1>1. plan \in Plan /\ plan.due = NoDate /\ plan.start = NoDate /\ plan.status = "todo"
      /\ plan.doneAt = Unset
  BY NoDateType DEF CalendarInit, Plan, DateType
<1>2. sheet = Shut /\ now \in 0 .. LastInstant /\ profile \in Zone /\ device \in Zone
  BY CalendarAssumption DEF CalendarInit
<1>3. InOrder(NoDate, NoDate) /\ DateType(NoDate)
  BY NoDateType DEF InOrder, NoDate
<1> QED
  BY <1>1, <1>2, <1>3, ShutType DEF DateInv, CalendarTypeOK, Untouched, DateType, Finished, Shut

\* What a save writes, if it may.
LEMMA SavedPlan ==
  ASSUME DateInv, SaveSheet
  PROVE  /\ plan' \in Plan /\ plan'.status = plan.status /\ plan'.doneAt = plan.doneAt
         /\ plan'.due = Resent(sheet.due, plan.due, EndOfDay) /\ DateType(plan'.due)
         /\ plan'.start = Resent(sheet.start, plan.start, StartOfDay) /\ DateType(plan'.start)
         /\ InOrder(plan'.start, plan'.due)
<1> DEFINE due == Resent(sheet.due, plan.due, EndOfDay)
           start == Resent(sheet.start, plan.start, StartOfDay)
<1>1. /\ sheet.due \in Fields /\ sheet.start \in Fields /\ device \in Zone /\ profile \in Zone
      /\ DateType(plan.due) /\ DateType(plan.start) /\ plan \in Plan
  BY DEF DateInv, CalendarTypeOK, Sheet, DateType, Plan
<1>2. EndOfDay \in 0 .. DayLength - 1 /\ StartOfDay \in 0 .. DayLength - 1
  BY CalendarAssumption DEF EndOfDay, StartOfDay
<1>3. DateType(due) /\ DateType(start)
  BY <1>1, <1>2, ResentType
<1>4. plan' = [plan EXCEPT !.due = due, !.start = start] /\ InOrder(start, due)
  BY DEF SaveSheet
<1> HIDE DEF due, start
<1>5. due \in Dated /\ start \in Dated
  BY <1>3 DEF DateType
<1>6. /\ plan' \in Plan /\ plan'.due = due /\ plan'.start = start
      /\ plan'.status = plan.status /\ plan'.doneAt = plan.doneAt
  BY <1>1, <1>4, <1>5 DEF Plan
<1> QED
  BY <1>3, <1>4, <1>6 DEF due, start

LEMMA TypeDateKeeps ==
  ASSUME DateInv, NEW which \in {"due", "start"}, NEW fields \in Fields, TypeDate(which, fields)
  PROVE  DateInv'
<1>1. sheet \in Sheet /\ UNCHANGED <<now, plan, profile, device>>
  BY DEF DateInv, CalendarTypeOK, TypeDate
<1>2. /\ sheet' \in Sheet /\ sheet'.open = sheet.open /\ sheet'.travelled = sheet.travelled
      /\ sheet'.typed = sheet.typed \cup {which}
      /\ which # "due" => sheet'.due = sheet.due
      /\ which # "start" => sheet'.start = sheet.start
  <2>1. CASE which = "due"
    BY <1>1, <2>1 DEF TypeDate, Sheet
  <2>2. CASE which = "start"
    BY <1>1, <2>2 DEF TypeDate, Sheet
  <2> QED
    BY <2>1, <2>2
<1>3. Untouched'
  BY <1>1, <1>2 DEF DateInv, Untouched
<1>4. CalendarTypeOK'
  BY <1>1, <1>2 DEF DateInv, CalendarTypeOK, Finished
<1> QED
  BY <1>3, <1>4 DEF DateInv

LEMMA SheetStepsKeep ==
  ASSUME DateInv, OpenSheet \/ SaveSheet \/ DiscardSheet
  PROVE  DateInv'
<1>1. CASE OpenSheet
  <2> DEFINE due == FieldsOf(plan.due, device)
             start == FieldsOf(plan.start, device)
  <2>1. plan.due \in Dated /\ plan.start \in Dated
    BY DEF DateInv, CalendarTypeOK, Plan
  <2>2. due \in Fields /\ start \in Fields
    BY <2>1, FieldsType DEF DateInv, CalendarTypeOK
  <2>3. /\ sheet' = [Shut EXCEPT !.open = TRUE, !.due = due, !.start = start]
        /\ UNCHANGED <<now, plan, profile, device>>
    BY <1>1 DEF OpenSheet
  <2> HIDE DEF due, start
  <2>4. sheet' \in Sheet /\ sheet'.due = due /\ sheet'.start = start
    BY <2>2, <2>3, ShutType DEF Shut, Sheet
  <2>5. Untouched'
    BY <2>3, <2>4 DEF Untouched, due, start
  <2> QED
    BY <2>3, <2>4, <2>5 DEF DateInv, CalendarTypeOK, Finished
<1>2. CASE SaveSheet
  <2>1. sheet' = Shut /\ UNCHANGED <<now, profile, device>>
    BY <1>2 DEF SaveSheet
  <2>2. Untouched'
    BY <2>1 DEF Untouched, Shut
  <2> QED
    BY <1>2, <2>1, <2>2, SavedPlan, ShutType DEF DateInv, CalendarTypeOK, DateType, Finished
<1>3. CASE DiscardSheet
  <2>1. sheet' = Shut /\ UNCHANGED <<now, plan, profile, device>>
    BY <1>3 DEF DiscardSheet
  <2>2. Untouched'
    BY <2>1 DEF Untouched, Shut
  <2> QED
    BY <2>1, <2>2, ShutType DEF DateInv, CalendarTypeOK, Finished
<1> QED
  BY <1>1, <1>2, <1>3

LEMMA ProgressKeeps ==
  ASSUME DateInv, NEW status \in {"todo", "started", "completed"}, SetProgress(status)
  PROVE  DateInv'
<1> DEFINE done == IF status = "completed" THEN now ELSE Unset
<1>1. now \in Int /\ plan \in Plan
  BY CalendarAssumption DEF DateInv, CalendarTypeOK
<1>2. done \in Instant \cup {Unset} /\ (status = "completed" <=> done # Unset)
  BY <1>1, UnsetIsNothing DEF Instant
<1>3. plan' = [plan EXCEPT !.status = status, !.doneAt = done] /\ UNCHANGED <<now, profile, device, sheet>>
  BY DEF SetProgress
<1> HIDE DEF done
<1>4. /\ plan' \in Plan /\ plan'.due = plan.due /\ plan'.start = plan.start
      /\ plan'.status = status /\ plan'.doneAt = done
  BY <1>1, <1>2, <1>3 DEF Plan
<1> QED
  BY <1>2, <1>3, <1>4 DEF DateInv, CalendarTypeOK, Untouched, Finished, InOrder

LEMMA ZonesKeep ==
  ASSUME DateInv, NEW z \in Zone, ChangeTimezone(z) \/ Travel(z)
  PROVE  DateInv'
<1>1. CASE ChangeTimezone(z)
  BY <1>1 DEF ChangeTimezone, DateInv, CalendarTypeOK, Untouched, Finished
<1>2. CASE Travel(z)
  <2>1. sheet \in Sheet /\ UNCHANGED <<now, plan, profile>> /\ device' = z
    BY <1>2 DEF Travel, DateInv, CalendarTypeOK
  <2>2. sheet' \in Sheet /\ sheet'.open = sheet.open /\ sheet'.travelled = sheet.open
    BY <1>2, <2>1 DEF Travel, Sheet
  <2>3. Untouched'
    BY <2>2 DEF Untouched
  <2> QED
    BY <2>1, <2>2, <2>3 DEF DateInv, CalendarTypeOK, Finished
<1> QED
  BY <1>1, <1>2

LEMMA StepKeepsDates == DateInv /\ [CalendarNext]_calendarVars => DateInv'
<1> SUFFICES ASSUME DateInv, [CalendarNext]_calendarVars PROVE DateInv'
  OBVIOUS
<1>1. CASE ClockTick
  BY <1>1, CalendarAssumption DEF ClockTick, DateInv, CalendarTypeOK, Untouched, Finished
<1>2. CASE UNCHANGED calendarVars
  BY <1>2 DEF calendarVars, DateInv, CalendarTypeOK, Untouched, Finished
<1>3. CASE \E which \in {"due", "start"}, f \in Typable : TypeDate(which, f)
  BY <1>3, TypableType, TypeDateKeeps
<1> QED
  BY <1>1, <1>2, <1>3, SheetStepsKeep, ProgressKeeps, ZonesKeep DEF CalendarNext

LEMMA DatesAlways == CalendarSpec => []DateInv
BY InitDates, StepKeepsDates, PTL DEF CalendarSpec

\* Dates, fields and the clock stay well-formed: a date has a kind exactly when it
\* has an instant, a zone exactly when it is a date without a time, completed work
\* its time of completion, and nothing starts after it is due.
THEOREM CalendarTypeCorrect == CalendarSpec => []CalendarTypeOK
<1>1. DateInv => CalendarTypeOK
  BY DEF DateInv
<1> QED
  BY <1>1, DatesAlways, PTL

-------------------------------------------------------------------------------
(* A saved date stays what was picked *)

LEMMA PickedComesBack ==
  ASSUME NEW which, NEW fields \in Fields, NEW before, NEW time \in 0 .. DayLength - 1,
         device \in Zone, profile \in Zone
  PROVE  PickedShown(which, fields, Resent(fields, before, time), time)
<1> SUFFICES ASSUME fields.time = Unset, Existing(profile, fields, time)
             PROVE  FieldsOf(Resent(fields, before, time), device) = fields
  BY DEF PickedShown
<1>1. CASE Resent(fields, before, time) = before /\ fields = FieldsOf(before, device)
  BY <1>1
<1>2. CASE fields.day \in Int /\ Resent(fields, before, time) = OnDay(fields.day, time, profile)
  <2> DEFINE w == fields.day * DayLength + time
             at == FromWall(profile, w)
  <2>1. w \in Int
    BY <1>2, CalendarAssumption
  <2>2. Showing(profile, w) # {}
    BY <1>2, UnsetIsNothing DEF Existing, Shows
  <2>3. at \in Int /\ Wall(profile, at) = w
    <3> HIDE DEF w
    <3> QED
      BY <2>1, <2>2, FromWallShown
  <2>4. OnDay(fields.day, time, profile) = [at |-> at, kind |-> "date", zone |-> profile]
    BY <1>2, OnDayType
  <2>5. w \div DayLength = fields.day
    BY <1>2, QuotientOf, CalendarAssumption
  <2> HIDE DEF w, at
  <2>6. DayOf(profile, at) = fields.day
    BY <2>3, <2>5 DEF DayOf
  <2>7. FieldsOf(OnDay(fields.day, time, profile), device) = [day |-> fields.day, time |-> Unset]
    BY <2>3, <2>4, <2>6, UnsetIsNothing DEF FieldsOf
  <2> QED
    BY <1>2, <2>7 DEF Fields
<1>3. CASE fields.day = Unset /\ Resent(fields, before, time) = NoDate
  <2>1. fields = NoFields
    BY <1>3 DEF Fields, NoFields
  <2> QED
    BY <1>3, <2>1 DEF FieldsOf, NoDate
<1> QED
  BY <1>1, <1>2, <1>3, ResentCases

LEMMA SaveKeepsPicked ==
  ASSUME DateInv, SaveSheet
  PROVE  /\ PickedShown("due", sheet.due, plan'.due, EndOfDay)
         /\ PickedShown("start", sheet.start, plan'.start, StartOfDay)
         /\ plan'.due # plan.due => "due" \in sheet.typed \/ sheet.travelled
         /\ plan'.start # plan.start => "start" \in sheet.typed \/ sheet.travelled
<1>1. sheet.due \in Fields /\ sheet.start \in Fields /\ device \in Zone /\ profile \in Zone
  BY DEF DateInv, CalendarTypeOK, Sheet
<1>2. EndOfDay \in 0 .. DayLength - 1 /\ StartOfDay \in 0 .. DayLength - 1
  BY CalendarAssumption DEF EndOfDay, StartOfDay
<1>3. /\ plan'.due = Resent(sheet.due, plan.due, EndOfDay)
      /\ plan'.start = Resent(sheet.start, plan.start, StartOfDay)
  BY SavedPlan
<1>4. sheet.due = FieldsOf(plan.due, device) => plan'.due = plan.due
  BY <1>3 DEF Resent
<1>5. sheet.start = FieldsOf(plan.start, device) => plan'.start = plan.start
  BY <1>3 DEF Resent
<1>6. sheet.open
  BY DEF SaveSheet
<1> QED
  BY <1>1, <1>2, <1>3, <1>4, <1>5, <1>6, PickedComesBack DEF DateInv, Untouched

LEMMA OtherKeepsDates ==
  ASSUME DateInv, [CalendarNext]_calendarVars, ~SaveSheet
  PROVE  plan'.due = plan.due /\ plan'.start = plan.start
<1>1. ASSUME NEW status \in {"todo", "started", "completed"}, SetProgress(status)
      PROVE  plan'.due = plan.due /\ plan'.start = plan.start
  BY <1>1 DEF SetProgress, DateInv, CalendarTypeOK, Plan
<1>2. UNCHANGED plan \/ \E status \in {"todo", "started", "completed"} : SetProgress(status)
  BY DEF CalendarNext, calendarVars, OpenSheet, DiscardSheet, ClockTick, TypeDate, ChangeTimezone,
     Travel
<1> QED
  BY <1>1, <1>2

\* For any zones with one change of the clock, any length of the day and any days
\* picked: a date without a time comes back as it was picked, and only a form in
\* which it was changed moves it.
THEOREM PickedDatesStay == CalendarSpec => DatesStayAsPicked
<1> DEFINE Stays ==
             /\ SaveSheet => /\ PickedShown("due", sheet.due, plan'.due, EndOfDay)
                             /\ PickedShown("start", sheet.start, plan'.start, StartOfDay)
             /\ plan'.due # plan.due => "due" \in sheet.typed \/ sheet.travelled
             /\ plan'.start # plan.start => "start" \in sheet.typed \/ sheet.travelled
<1>1. DateInv /\ [CalendarNext]_calendarVars => [Stays]_calendarVars
  BY SaveKeepsPicked, OtherKeepsDates
<1> QED
  BY <1>1, DatesAlways, PTL DEF CalendarSpec, DatesStayAsPicked

-------------------------------------------------------------------------------
(* The lists agree with the calendar *)

LEMMA WeekDay ==
  ASSUME NEW d \in Int
  PROVE  Monday(d) \in Int
BY DivisionFacts, CalendarAssumption DEF Monday

\* Dates as the lists use them.
LEMMA PlanInstants ==
  ASSUME DateInv
  PROVE  /\ now \in Int
         /\ HasDue(plan) => plan.due.at \in Int
         /\ Finished(plan) => plan.doneAt \in Int
         /\ plan.due.kind = "date" => plan.due.zone \in Zone
<1>1. now \in Int /\ plan.due \in Dated /\ plan \in Plan
  BY CalendarAssumption DEF DateInv, CalendarTypeOK, Plan
<1> QED
  BY <1>1 DEF DateInv, CalendarTypeOK, HasDue, Dated, Instant, Plan

LEMMA TodayAndUpcoming ==
  ASSUME DateInv, NEW z \in Zone, Once(z, DayOf(z, now)), Once(z, DayOf(z, now) + 1)
  PROVE  /\ Agree({"today", "upcoming"}, z)
         /\ InSomeList(z) /\ OnOverview(DayOf(z, now), z)
<1> DEFINE d == DayOf(z, now)
<1>1. now \in Int /\ (HasDue(plan) => plan.due.at \in Int)
  BY PlanInstants
<1>2. d \in Int /\ d + 1 \in Int
  BY <1>1, DayType
<1>3. \A x \in Int : /\ Midnight(z, d) \in Int /\ Midnight(z, d + 1) \in Int
                     /\ Midnight(z, d) <= x <=> d <= DayOf(z, x)
                     /\ Midnight(z, d + 1) <= x <=> d + 1 <= DayOf(z, x)
  BY <1>2, DayFrom
<1>4. StartOfToday(now, z) = Midnight(z, d) /\ StartOfTomorrow(now, z) = Midnight(z, d + 1)
  BY DEF StartOfToday, StartOfTomorrow
<1>5. Midnight(z, d) <= now
  BY <1>1, <1>2, <1>3
<1> DEFINE due == plan.due.at
           day == DayOf(z, due)
<1>6. HasDue(plan) => /\ due \in Int /\ day \in Int
                      /\ Midnight(z, d) <= due <=> d <= day
                      /\ Midnight(z, d + 1) <= due <=> d + 1 <= day
                      /\ Midnight(z, d) \in Int /\ Midnight(z, d + 1) \in Int
  BY <1>1, <1>3, DayType
<1>7. InView("today", plan, now, z) <=>
         HasDue(plan) /\ Midnight(z, d) <= due /\ due < Midnight(z, d + 1)
  BY <1>4 DEF InView
<1>8. InView("upcoming", plan, now, z) <=> HasDue(plan) /\ Midnight(z, d + 1) <= due
  BY <1>4 DEF InView
<1>9. InView("overdue", plan, now, z) <=> HasDue(plan) /\ due < now
  BY DEF InView
<1>10. MatchesFilter("today", plan, now, z) <=> HasDue(plan) /\ day = d
  BY DEF MatchesFilter
<1>11. MatchesFilter("upcoming", plan, now, z) <=> HasDue(plan) /\ day > d
  BY DEF MatchesFilter
<1>12. MatchesFilter("overdue", plan, now, z) <=> HasDue(plan) /\ due < now
  BY DEF MatchesFilter
<1> HIDE DEF d, day, due
<1>13. Agree({"today", "upcoming"}, z)
  <2>1. InView("today", plan, now, z) <=> MatchesFilter("today", plan, now, z)
    BY <1>2, <1>6, <1>7, <1>10
  <2>2. InView("upcoming", plan, now, z) <=> MatchesFilter("upcoming", plan, now, z)
    BY <1>2, <1>6, <1>8, <1>11
  <2> QED
    BY <2>1, <2>2 DEF Agree
<1>14. InSomeList(z)
  <2> SUFFICES ASSUME HasDue(plan)
               PROVE  \E v \in {"today", "upcoming", "overdue"} : InView(v, plan, now, z)
    BY DEF InSomeList
  <2>1. due \in Int /\ Midnight(z, d) \in Int /\ Midnight(z, d + 1) \in Int
    BY <1>6
  <2>2. \/ due < now
        \/ Midnight(z, d) <= due /\ due < Midnight(z, d + 1)
        \/ Midnight(z, d + 1) <= due
    BY <1>1, <1>5, <2>1
  <2> QED
    BY <1>7, <1>8, <1>9, <2>2
<1>15. OnOverview(d, z)
  <2> SUFFICES ASSUME HasDue(plan), plan.due.zone \in {z, Unset}, day <= d + DaysAhead
               PROVE  \/ OnAgenda(plan, now, z)
                      \/ \E k \in d + 1 .. d + DaysAhead : InColumn(plan, k, z)
    BY DEF OnOverview, day, due
  <2>1. PlannedDay(plan.due, z) = day
    <3>1. plan.due.kind = "date" => plan.due.zone = z
      BY PlanInstants, UnsetIsNothing
    <3> QED
      BY <3>1 DEF PlannedDay, day, due
  <2>2. day \in Int /\ due \in Int
    BY <1>6
  <2>3. CASE day < d
    <3>1. due < Midnight(z, d) /\ Midnight(z, d) \in Int
      BY <1>2, <1>6, <2>2, <2>3
    <3>2. due < now
      BY <1>1, <1>5, <2>2, <3>1
    <3> QED
      BY <1>12, <3>2 DEF OnAgenda
  <2>4. CASE day = d
    BY <1>10, <2>4 DEF OnAgenda
  <2>5. CASE d < day
    <3>1. day \in d + 1 .. d + DaysAhead
      BY <1>2, <2>2, <2>5, CalendarAssumption
    <3>2. InColumn(plan, day, z)
      BY <2>1 DEF InColumn
    <3> QED
      BY <3>1, <3>2
  <2> QED
    BY <1>2, <2>2, <2>3, <2>4, <2>5
<1> QED
  BY <1>13, <1>14, <1>15 DEF d

LEMMA ThisWeek ==
  ASSUME DateInv, NEW z \in Zone, Once(z, Monday(DayOf(z, now)))
  PROVE  Agree({"week"}, z)
<1> DEFINE d == Monday(DayOf(z, now))
<1>1. now \in Int /\ (Finished(plan) => plan.doneAt \in Int)
  BY PlanInstants
<1>2. d \in Int
  BY <1>1, DayType, WeekDay
<1>3. \A x \in Int : Midnight(z, d) <= x <=> d <= DayOf(z, x)
  BY <1>2, DayFrom
<1>4. InView("week", plan, now, z) <=> Finished(plan) /\ Midnight(z, d) <= plan.doneAt
  BY DEF InView, StartOfWeek
<1>5. MatchesFilter("week", plan, now, z) <=> Finished(plan) /\ DayOf(z, plan.doneAt) >= d
  BY DEF MatchesFilter
<1> HIDE DEF d
<1>6. Finished(plan) => DayOf(z, plan.doneAt) \in Int
  BY <1>1, DayType
<1>7. InView("week", plan, now, z) <=> MatchesFilter("week", plan, now, z)
  BY <1>1, <1>2, <1>3, <1>4, <1>5, <1>6
<1> QED
  BY <1>7 DEF Agree

LEMMA ThisMonth ==
  ASSUME DateInv, NEW z \in Zone, NEW m, m = DayOf(z, plan.doneAt) \div MonthLength,
         Finished(plan), Once(z, m * MonthLength), Once(z, (m + 1) * MonthLength)
  PROVE  InItsMonth(m, z)
<1> DEFINE done == plan.doneAt
           day == DayOf(z, done)
<1>1. done \in Int /\ day \in Int /\ MonthLength \in Nat \ {0}
  BY PlanInstants, DayType, CalendarAssumption
<1>2. m \in Int
  BY <1>1, DivisionFacts
<1>3. m * MonthLength <= day /\ ~((m + 1) * MonthLength <= day)
  <2>1. m <= day \div MonthLength /\ ~(m + 1 <= day \div MonthLength)
    BY <1>2
  <2> HIDE DEF day
  <2> QED
    BY <1>1, <1>2, <2>1, QuotientFrom
<1>4. m * MonthLength \in Int /\ (m + 1) * MonthLength \in Int
  BY <1>1, <1>2
<1> DEFINE first == m * MonthLength
           next == (m + 1) * MonthLength
<1> HIDE DEF done
<1>5. /\ Midnight(z, first) \in Int /\ (Midnight(z, first) <= done <=> first <= DayOf(z, done))
      /\ Midnight(z, next) \in Int /\ (Midnight(z, next) <= done <=> next <= DayOf(z, done))
  <2> HIDE DEF first, next
  <2>1. first \in Int /\ next \in Int /\ Once(z, first) /\ Once(z, next)
    BY <1>4 DEF first, next
  <2> QED
    BY <1>1, <2>1, DayFrom
<1>6. Midnight(z, first) <= done /\ done < Midnight(z, next)
  BY <1>1, <1>3, <1>5
<1>7. CountedIn(m, plan, z)
  BY <1>6 DEF CountedIn, StartOfMonth, done
<1> QED
  BY <1>7 DEF InItsMonth

\* For any zones with one change of the clock, and any lengths of the day, week and
\* month: wherever the midnights concerned come once, the server's bounds and the
\* client's lists agree, open work is in a list, and work is counted in its month.
THEOREM ListsFollowCalendar == CalendarSpec => []ViewsFollowCalendar
<1>1. ASSUME DateInv PROVE ViewsFollowCalendar
  BY <1>1, TodayAndUpcoming, ThisWeek, ThisMonth DEF ViewsFollowCalendar
<1> QED
  BY <1>1, DatesAlways, PTL
===============================================================================
