------------------------------ MODULE TaskBoard ------------------------------
(***************************************************************************)
(* The tasks of one workspace: who may change one, the version that guards *)
(* every edit, subtasks, completion notes, deadline extensions, and        *)
(* submitting the same new task twice.                                     *)
(*                                                                         *)
(* Sources (under src/server/src): controllers/task.controller.ts,         *)
(* utils/taskPermissions.ts, utils/subtaskSchedule.ts, and the half of     *)
(* controllers/member.controller.ts that unassigns a departing member.     *)
(*                                                                         *)
(* A handler loads the task and checks it, then writes in one transaction; *)
(* what it writes was computed from the row it loaded.  Reminders are left *)
(* to TaskSchedule, the archiving of projects too: which projects are      *)
(* archived does not change here.  Labels, title and the like are written  *)
(* by the same conditional update and are left out.                        *)
(***************************************************************************)
EXTENDS Naturals, FiniteSets

CONSTANTS
    Person,          \* people with a membership in the workspace
    Worker,          \* slots for HTTP requests in flight at the same time
    Top, Sub,        \* ids of top-level tasks and of subtasks
    Project,         \* the workspace's projects
    Archived,        \* those that are archived
    MaxInstant,      \* start and due dates are 1 .. MaxInstant
    MaxEdit,         \* bounds Task.version
    None             \* null: no project, assignee, parent or date

TaskId == Top \cup Sub

ASSUME BoardAssumption ==
    /\ Top \cap Sub = {} /\ Archived \subseteq Project
    /\ MaxInstant \in Nat /\ MaxEdit \in Nat \ {0}
    /\ None \notin Person \cup Top \cup Sub \cup Project \cup Nat

VARIABLES
    role,        \* Membership.role of the active members, "gone" once removed
    row,         \* the Task rows
    extension,   \* the DueDateExtension rows of each task, as a set
    work         \* the requests in flight

boardVars == <<role, row, extension, work>>

-------------------------------------------------------------------------------
(* The rows *)

Date     == (1 .. MaxInstant) \cup {None}
Progress == {"todo", "started", "completed"}     \* "started": in progress or in review

\* `finished' is completedAt, `note' completionNote, `keyed' tells a row that
\* carries the clientRequestId of the submit this model repeats.
TaskRow == [life : {"unborn", "live", "deleted"}, parent : Top \cup {None},
            project : Project \cup {None}, creator : Person \cup {None},
            assignee : Person \cup {None}, status : Progress,
            finished : BOOLEAN, note : BOOLEAN, start : Date, due : Date,
            original : Date, extended : Nat, keyed : BOOLEAN, version : 1 .. MaxEdit]

NoTask == [life |-> "unborn", parent |-> None, project |-> None, creator |-> None,
           assignee |-> None, status |-> "todo", finished |-> FALSE, note |-> FALSE,
           start |-> None, due |-> None, original |-> None, extended |-> 0,
           keyed |-> FALSE, version |-> 1]

\* The rows an extension of one task's deadline leaves; `reason' says one was given.
Extension == [from : 1 .. MaxInstant, to : 1 .. MaxInstant, reason : BOOLEAN, by : Person]

\* No extension is null.
ASSUME RecordsAreNotNull == None \notin Extension

Exists(t)   == row[t].life = "live"
Subtasks(t) == {s \in Sub : Exists(s) /\ row[s].parent = t}

\* A request holds what it computed from the row it loaded: the caller's right to
\* the task, the version asked for, the fields to write and the extension to log.
NoWork == [pc |-> "idle", op |-> "none", who |-> None, task |-> None, right |-> "none",
           version |-> 1, write |-> <<>>, log |-> None]

f ++ g == [x \in DOMAIN f \cup DOMAIN g |-> IF x \in DOMAIN g THEN g[x] ELSE f[x]]

BoardTypeOK ==
    /\ role \in [Person -> {"owner", "admin", "member", "gone"}]
    /\ row \in [TaskId -> TaskRow]
    /\ extension \in [TaskId -> SUBSET Extension]
    /\ \A w \in Worker : work[w] # NoWork =>
         /\ work[w].op \in {"edit", "delete", "create", "subtask"}
         /\ work[w].who \in Person /\ work[w].task \in TaskId
         /\ (work[w].op \in {"edit", "delete"}) = (work[w].right # "none")
         /\ NoTask ++ work[w].write \in TaskRow
         /\ work[w].log \in Extension \cup {None}

-------------------------------------------------------------------------------
(* utils/taskPermissions.ts and the checks of task.controller.ts *)

Member(p)  == role[p] # "gone"
Manager(p) == role[p] \in {"owner", "admin"}

ParentAssignee(t) == IF row[t].parent = None THEN None ELSE row[row[t].parent].assignee

\* canEditTask: the first of the four rules that gives p the right to t.
EditRight(p, t) ==
    IF Manager(p) THEN "manager"
    ELSE IF row[t].creator = p THEN "creator"
    ELSE IF row[t].assignee = p THEN "assignee"
    ELSE IF ParentAssignee(t) = p THEN "parent" ELSE "none"

\* canDeleteTask: being assigned is not enough.
DeleteRight(p, t) ==
    IF Manager(p) THEN "manager"
    ELSE IF row[t].creator = p THEN "creator"
    ELSE IF ParentAssignee(t) = p THEN "parent" ELSE "none"

Writable(t)       == row[t].project \notin Archived
AssignableTo(a)   == a # None => Member(a)
ProjectAllowed(p) == p \notin Archived

Ordered(start, due) == (start # None /\ due # None) => start <= due

Length(w) == IF w.start # None /\ w.due # None THEN w.due - w.start ELSE 0

TotalLength(ts, w) ==
    LET total[s \in SUBSET ts] ==
          IF s = {} THEN Length(w)
          ELSE LET x == CHOOSE x \in s : TRUE IN Length(row[x]) + total[s \ {x}]
    IN  total[ts]

\* assertSubtaskInsideTask: each of the four tests is of two dates that are set.
Inside(outer, inner) ==
    /\ Ordered(inner.due, outer.due) /\ Ordered(inner.start, outer.due)
    /\ Ordered(outer.start, inner.start) /\ Ordered(outer.start, inner.due)

\* assertSubtasksFitDuration: subtasks ts and one more window w, within outer.
FitDuration(outer, ts, w) == Length(outer) # 0 => TotalLength(ts, w) <= Length(outer)

Undated == [start |-> None, due |-> None]

\* assertScheduleFits for a task that will have the window w.
ScheduleFits(t, w) ==
    IF row[t].parent # None
    THEN LET p == row[t].parent
         IN  Inside(row[p], w) /\ FitDuration(row[p], Subtasks(p) \ {t}, w)
    ELSE /\ \A s \in Subtasks(t) : Inside(w, row[s])
         /\ FitDuration(w, Subtasks(t), Undated)

\* Mutant: reopening keeps the time and the note of the completion.
CompletionKept(from, to, note) ==
    IF to # from /\ to = "completed" THEN [finished |-> TRUE, note |-> note] ELSE <<>>

\* completionChange: entering Completed records it, leaving clears it.
CompletionChange(from, to, note) ==
    IF to = from THEN <<>>
    ELSE IF to = "completed" THEN [finished |-> TRUE, note |-> note]
    ELSE IF from = "completed" THEN [finished |-> FALSE, note |-> FALSE] ELSE <<>>

\* Mutant: an extension is one of the first deadline the task ever had.
ExtensionOfOriginal(seen, due, reason, p) ==
    IF seen.original # None /\ due # None /\ due > seen.original
    THEN [from |-> seen.original, to |-> due, reason |-> reason, by |-> p] ELSE None

\* An existing due date moved later: not one added, cleared or brought forward.
ExtensionOf(seen, due, reason, p) ==
    IF seen.due # None /\ due # None /\ due > seen.due
    THEN [from |-> seen.due, to |-> due, reason |-> reason, by |-> p] ELSE None

\* A body names the fields it changes.  Bodies change one thing at a time here.
Body == [status : Progress] \cup [status : Progress, note : {TRUE}] \cup [note : {TRUE}]
        \cup [assignee : Person \cup {None}] \cup [project : Project \cup {None}]
        \cup [due : Date] \cup [start : Date, due : Date]

-------------------------------------------------------------------------------
(* Requests *)

Start(w, q) ==
    /\ work[w] = NoWork
    /\ work' = [work EXCEPT ![w] = q]
    /\ UNCHANGED <<role, row, extension>>

Done(w) == work' = [work EXCEPT ![w] = NoWork]

\* A check failed, the version had moved on, the parent of a new subtask is gone,
\* the key of a new task is taken (the task it made is the answer), or the
\* process died.
GiveUp(w) ==
    /\ work[w] # NoWork
    /\ Done(w) /\ UNCHANGED <<role, row, extension>>

\* loadTaskForMember and the checks of editTask and updateTaskStatus.  A body
\* names a version its sender has seen: an older one than the row's could only
\* fail, so it is the row's.
EditLoad(w, p, t, b, reason) ==
    LET seen   == row[t]
        status == IF "status" \in DOMAIN b THEN b.status ELSE seen.status
        noted  == "note" \in DOMAIN b
        window == [start |-> IF "start" \in DOMAIN b THEN b.start ELSE seen.start,
                   due   |-> IF "due" \in DOMAIN b THEN b.due ELSE seen.due]
        moved  == window # [start |-> seen.start, due |-> seen.due]
        log    == IF "due" \in DOMAIN b THEN ExtensionOf(seen, b.due, reason, p) ELSE None
        done   == CompletionChange(seen.status, status, noted)
        kept   == seen.status = "completed" /\ status = "completed"
        noting == IF kept /\ noted THEN [note |-> TRUE] ELSE <<>>
        first  == IF "due" \in DOMAIN b /\ window.due # None /\ seen.original = None
                  THEN [original |-> window.due] ELSE <<>>
        longer == IF log # None THEN [extended |-> seen.extended + 1] ELSE <<>>
        named  == [f \in DOMAIN b \ {"note"} |-> b[f]]
    IN
    /\ Exists(t) /\ Member(p) /\ EditRight(p, t) # "none" /\ Writable(t)
    /\ "assignee" \in DOMAIN b => AssignableTo(b.assignee)
    /\ "project" \in DOMAIN b => /\ ProjectAllowed(b.project)
                                 /\ t \in Sub => b.project = seen.project
    /\ Ordered(window.start, window.due)
    /\ "due" \in DOMAIN b => ScheduleFits(t, window)
    /\ (t \in Top /\ status = "completed" /\ seen.status # "completed") => noted
    /\ (moved /\ seen.status # "todo" /\ role[p] # "owner") => reason
    /\ reason => moved
    /\ Start(w, [pc |-> "loaded", op |-> "edit", who |-> p, task |-> t,
                 right |-> EditRight(p, t), version |-> seen.version,
                 write |-> named ++ done ++ noting ++ first ++ longer, log |-> log])

\* Mutant: the update is by id alone.
AnyVersion(q) == Exists(q.task)

\* The conditional update of updateWithVersionCheck.
VersionMatches(q) == Exists(q.task) /\ row[q.task].version = q.version

\* Its transaction: the fields and a new version, the subtasks following a move,
\* the extension.
EditTask(w) ==
    LET q == work[w]
        t == q.task
        moves == t \in Top /\ "project" \in DOMAIN q.write /\ q.write.project # row[t].project
    IN
    /\ q.pc = "loaded" /\ q.op = "edit"
    /\ VersionMatches(q)
    /\ \A s \in Subtasks(t) \cup {t} : row[s].version < MaxEdit
    /\ row' = [s \in TaskId |->
                 IF s = t THEN [row[s] ++ q.write EXCEPT !.version = row[s].version + 1]
                 ELSE IF moves /\ s \in Subtasks(t)
                 THEN [row[s] EXCEPT !.project = q.write.project, !.version = row[s].version + 1]
                 ELSE row[s]]
    /\ extension' = IF q.log = None THEN extension
                    ELSE [extension EXCEPT ![t] = extension[t] \cup {q.log}]
    /\ Done(w) /\ UNCHANGED role

DeleteLoad(w, p, t) ==
    /\ Exists(t) /\ Member(p) /\ DeleteRight(p, t) # "none" /\ Writable(t)
    /\ Start(w, [NoWork EXCEPT !.pc = "loaded", !.op = "delete", !.who = p, !.task = t,
                               !.right = DeleteRight(p, t)])

\* By id, whatever the version; subtasks and extensions are deleted with it.
DeleteTask(w) ==
    LET q == work[w]
        gone == {q.task} \cup Subtasks(q.task)
    IN
    /\ q.pc = "loaded" /\ q.op = "delete" /\ Exists(q.task)
    /\ row' = [t \in TaskId |-> IF t \in gone THEN [NoTask EXCEPT !.life = "deleted"] ELSE row[t]]
    /\ extension' = [t \in TaskId |-> IF t \in gone THEN {} ELSE extension[t]]
    /\ Done(w) /\ UNCHANGED role

-------------------------------------------------------------------------------
(* New tasks and subtasks *)

\* What a new row holds, whichever way it is made.
NewRow(p, status, window, a) ==
    [NoTask EXCEPT !.life = "live", !.creator = p, !.assignee = a, !.status = status,
                   !.finished = (status = "completed"), !.note = (status = "completed"),
                   !.start = window.start, !.due = window.due, !.original = window.due]

Fresh(t) == row[t].life = "unborn" /\ \A w \in Worker : work[w].task # t

Insert(w, p, t, op, new) ==
    Start(w, [NoWork EXCEPT !.pc = "loaded", !.op = op, !.who = p, !.task = t, !.write = new])

KeyTaken == \E t \in Top : Exists(t) /\ row[t].keyed

\* createWorkspaceTask: the lookup by clientRequestId and the parsing of the body.
CreateLoad(w, p, t, status, project, window, a, keyed) ==
    /\ t \in Top /\ Fresh(t) /\ Member(p)
    /\ keyed => ~KeyTaken
    /\ ProjectAllowed(project) /\ AssignableTo(a) /\ Ordered(window.start, window.due)
    /\ Insert(w, p, t, "create", [NewRow(p, status, window, a) EXCEPT
                                    !.project = project, !.keyed = keyed])

KeyAllows(new) == new.keyed => ~KeyTaken

CreateTask(w) ==
    LET q == work[w] IN
    /\ q.pc = "loaded" /\ q.op = "create"
    /\ KeyAllows(q.write)
    /\ row' = [row EXCEPT ![q.task] = q.write]
    /\ Done(w) /\ UNCHANGED <<role, extension>>

\* createSubtask: any member; workspace, project and parent as loaded.
SubtaskLoad(w, p, t, parent, status, window, a) ==
    /\ t \in Sub /\ Fresh(t) /\ Member(p)
    /\ parent \in Top /\ Exists(parent) /\ Writable(parent)
    /\ Ordered(window.start, window.due) /\ Inside(row[parent], window)
    /\ FitDuration(row[parent], Subtasks(parent), window)
    /\ AssignableTo(a)
    /\ Insert(w, p, t, "subtask", [NewRow(p, status, window, a) EXCEPT
                                     !.parent = parent, !.project = row[parent].project])

\* The foreign key refuses a parent that was deleted meanwhile.
CreateSubtask(w) ==
    LET q == work[w] IN
    /\ q.pc = "loaded" /\ q.op = "subtask"
    /\ Exists(q.write.parent)
    /\ row' = [row EXCEPT ![q.task] = q.write]
    /\ Done(w) /\ UNCHANGED <<role, extension>>

-------------------------------------------------------------------------------
(* The membership under it (see Membership) *)

\* endMembership: a departing member's open tasks become unassigned.
MemberLeaves(p) ==
    /\ role[p] \in {"admin", "member"}
    /\ \A t \in TaskId : row[t].version < MaxEdit
    /\ role' = [role EXCEPT ![p] = "gone"]
    /\ row' = [t \in TaskId |->
                 IF row[t].assignee = p /\ row[t].status # "completed"
                 THEN [row[t] EXCEPT !.assignee = None, !.version = row[t].version + 1]
                 ELSE row[t]]
    /\ UNCHANGED <<extension, work>>

\* A workspace whose members' roles are settled, with no task yet or with one as
\* its creator left it.
BoardInit ==
    /\ role \in [Person -> {"owner", "admin", "member"}]
    /\ Cardinality({p \in Person : role[p] = "owner"}) <= 1
    /\ \/ row = [s \in TaskId |-> NoTask]
       \/ \E t \in Top, p \in Person, pr \in Project \cup {None}, a \in Person \cup {None}, d \in Date :
            row = [s \in TaskId |-> IF s # t THEN NoTask
                     ELSE [NewRow(p, "todo", [start |-> None, due |-> d], a) EXCEPT !.project = pr]]
    /\ extension = [t \in TaskId |-> {}]
    /\ work = [w \in Worker |-> NoWork]

\* The loads of the operations `ops', an edit's with one of `bodies'.
LoadStep(w, p, ops, bodies) ==
    \/ /\ "edit" \in ops
       /\ \E t \in {s \in TaskId : Exists(s) /\ EditRight(p, s) # "none"} :
            \E b \in bodies, reason \in BOOLEAN : EditLoad(w, p, t, b, reason)
    \/ "delete" \in ops /\ \E t \in TaskId : DeleteLoad(w, p, t)
    \/ /\ "create" \in ops
       /\ \E t \in Top, s \in {"todo", "completed"}, pr \in Project \cup {None},
             a \in Person \cup {None}, d \in Date, k \in BOOLEAN :
            CreateLoad(w, p, t, s, pr, [start |-> None, due |-> d], a, k)
    \/ /\ "subtask" \in ops
       /\ \E t \in Sub, parent \in Top, s \in {"todo", "completed"},
             a \in Person \cup {None}, d \in Date :
            SubtaskLoad(w, p, t, parent, s, [start |-> None, due |-> d], a)

CommitStep(w) == EditTask(w) \/ DeleteTask(w) \/ CreateTask(w) \/ CreateSubtask(w) \/ GiveUp(w)

BoardStep(ops, bodies) ==
    \/ \E w \in {v \in Worker : work[v] = NoWork}, p \in Person : LoadStep(w, p, ops, bodies)
    \/ \E w \in Worker : CommitStep(w)
    \/ \E p \in Person : MemberLeaves(p)

BoardNext == BoardStep({"edit", "delete", "create", "subtask"}, Body)

BoardSpec == BoardInit /\ [][BoardNext]_boardVars
-------------------------------------------------------------------------------
(* What must hold *)

\* A task is completed exactly when it carries its completion time, and a
\* top-level one then has its note: no two status changes and note edits that
\* cross leave the one without the other (PRD FR06).
CompletionConsistent ==
    \A t \in TaskId : Exists(t) =>
      /\ row[t].finished <=> row[t].status = "completed"
      /\ row[t].note => row[t].finished
      /\ (t \in Top /\ row[t].finished) => row[t].note

\* "Assigned" means currently assigned (PRD section 8): whoever may edit a task only
\* because it is assigned to them changes nothing once it was reassigned, or taken
\* from them as they left, even by a request that was checked before.
OnlyWhileAssigned ==
    [][\A w \in Worker :
         LET q == work[w] IN
         (q.op = "edit" /\ q.right = "assignee" /\ row'[q.task] # row[q.task] /\ work'[w] = NoWork)
         => row[q.task].assignee = q.who]_boardVars

\* Every time a deadline is moved later the row counts it and one extension with
\* the deadline that was really replaced is kept, with a reason if work had
\* started and it was not the Owner who moved it.
ExtensionsRecorded ==
    [][\A t \in TaskId :
         (Exists(t) /\ row[t].due # None /\ row'[t].due # None /\ row'[t].due > row[t].due)
         => /\ row'[t].extended = row[t].extended + 1
            /\ \E x \in extension'[t] :
                 /\ x.from = row[t].due /\ x.to = row'[t].due
                 /\ (row[t].status # "todo" /\ role[x.by] # "owner") => x.reason]_boardVars
===============================================================================
