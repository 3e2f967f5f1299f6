----------------------------- MODULE WorkspaceView -----------------------------
(***************************************************************************)
(* What the pages of one workspace show of it: a list of tasks             *)
(* (useWorkspaceTasks) and the people, projects and labels                 *)
(* (WorkspaceResourcesContext).  Every load is a call whose answer may     *)
(* arrive after the workspace was switched, the shell was left or another  *)
(* account signed in; tasks created and deleted here announce themselves   *)
(* to the list and set off another load.                                   *)
(***************************************************************************)
EXTENDS WorkspaceContext

CONSTANTS
    TaskName,       \* tasks that may come to exist
    MaxLoad         \* bound: loads of the list under way at once

VARIABLES
    place,          \* [task -> its workspace, or NoWorkspace before it exists]
    deleted,        \* the tasks that exist no more
    pending,        \* tasks this tab is creating, with the workspace meant
    rows,           \* the tasks the list shows
    resources,      \* the workspace whose people, projects and labels are shown
    load,           \* loads under way, of the list and of the resources
    mine            \* ghost: tasks created here since the shell was opened

viewVars == <<place, deleted, pending, rows, resources, load, mine>>

\* A load: its number among the list's (only the newest may write), whether
\* the server has answered, and with which tasks.
ListLoad == [of : Workspace, newest : BOOLEAN, said : {"nothing", "tasks", "failed"},
             tasks : SUBSET TaskName]
NewLoad(w) == [of |-> w, newest |-> TRUE, said |-> "nothing", tasks |-> {}]

ViewTypeOK ==
    /\ place \in [TaskName -> Workspace \cup {NoWorkspace}]
    /\ deleted \subseteq TaskName /\ mine \subseteq TaskName /\ rows \subseteq TaskName
    /\ pending \subseteq [task : TaskName, in : Workspace]
    /\ resources \in Workspace \cup {NoWorkspace}
    /\ load.tasks \subseteq ListLoad /\ load.resources \subseteq Workspace
    /\ Cardinality({l \in load.tasks : l.newest}) <= 1

\* The workspace of the mounted providers, if any.
Shown == IF Opened THEN ActiveWorkspace ELSE NoWorkspace

TasksOf(w) == {t \in TaskName : place[t] = w} \ deleted

Overtaken(loads) == {[l EXCEPT !.newest = FALSE] : l \in loads}

\* A load of the list: every earlier one loses its right to write.
Loading(w) == /\ Cardinality(load.tasks) < MaxLoad
              /\ load' = [load EXCEPT !.tasks = Overtaken(@) \cup {NewLoad(w)}]

-----------------------------------------------------------------------------
\* A step of the context, and the effects of the providers and the page when
\* the workspace shown changes: everything is emptied and loaded for the new
\* one.  Closing the shell unmounts them: what is under way is not heard.
Remount ==
    LET to == Shown'
        kept == IF Shown = NoWorkspace THEN [tasks |-> {}, resources |-> {}] ELSE load
    IN  /\ rows' = {}
        /\ resources' = NoWorkspace
        /\ mine' = {}
        /\ load' = IF to = NoWorkspace THEN [tasks |-> {}, resources |-> {}]
                   ELSE [tasks     |-> Overtaken(kept.tasks) \cup {NewLoad(to)},
                         resources |-> kept.resources \cup {to}]

ContextMoves ==
    /\ ContextNext
    /\ IF Shown' = Shown THEN UNCHANGED <<rows, resources, load, mine>> ELSE Remount
    /\ Cardinality(load'.tasks) <= MaxLoad
    /\ UNCHANGED <<place, deleted, pending>>

\* The server reads the tasks of the workspace for a member of it.
ServeTasks(l) ==
    /\ l \in load.tasks /\ l.said = "nothing"
    /\ \E said \in {"tasks", "failed"} :
         /\ said = "tasks" => l.of \in ToSet(member[tab.user])
         /\ load' = [load EXCEPT !.tasks = (@ \ {l}) \cup
                {[l EXCEPT !.said = said, !.tasks = IF said = "tasks" THEN TasksOf(l.of) ELSE {}]}]
    /\ UNCHANGED <<contextVars, place, deleted, pending, rows, resources, mine>>

\* Mutated form: the order of the answers decides.
AnyAnswer(l) == TRUE

\* An answer that may still write: the newest request's.
MayWrite(l) == l.newest

TasksArrive(l) ==
    /\ l \in load.tasks /\ l.said # "nothing"
    /\ load' = [load EXCEPT !.tasks = @ \ {l}]
    /\ rows' = IF l.said = "tasks" /\ MayWrite(l) THEN l.tasks ELSE rows
    /\ UNCHANGED <<contextVars, place, deleted, pending, resources, mine>>

\* People, projects and labels: only those of the workspace now open are shown.
ResourcesArrive(w) ==
    /\ w \in load.resources
    /\ load' = [load EXCEPT !.resources = @ \ {w}]
    /\ \/ w \in ToSet(member[tab.user]) /\ resources' = IF w = ActiveWorkspace THEN w ELSE resources
       \/ UNCHANGED resources
    /\ UNCHANGED <<contextVars, place, deleted, pending, rows, mine>>

\* The tab regains focus, or "try again": a load of the same workspace.
LoadAgain ==
    /\ Shown # NoWorkspace
    /\ Loading(Shown)
    /\ UNCHANGED <<contextVars, place, deleted, pending, rows, resources, mine>>

-----------------------------------------------------------------------------
\* A task is created in the open workspace; the workspace may change before
\* the answer.
AskToCreate(t) ==
    /\ Shown # NoWorkspace /\ place[t] = NoWorkspace
    /\ \A p \in pending : p.task # t
    /\ pending' = pending \cup {[task |-> t, in |-> Shown]}
    /\ UNCHANGED <<contextVars, place, deleted, rows, resources, load, mine>>

\* Mutated form: the new task is shown, and what is loading may paint over it.
ShowOnly(w, t) == /\ rows' = IF w = Shown THEN rows \cup {t} ELSE rows
                  /\ UNCHANGED load

\* The created event: a list of the task's workspace shows it at once, and
\* every list loads again.
ShowCreated(w, t) == /\ rows' = IF w = Shown THEN rows \cup {t} ELSE rows
                     /\ Loading(Shown)

Created(p) ==
    /\ p \in pending
    /\ pending' = pending \ {p}
    /\ place' = [place EXCEPT ![p.task] = p.in]
    /\ mine' = IF p.in = Shown THEN mine \cup {p.task} ELSE mine
    /\ IF Shown = NoWorkspace THEN UNCHANGED <<rows, load>> ELSE ShowCreated(p.in, p.task)
    /\ UNCHANGED <<contextVars, deleted, resources>>

\* A deleted task leaves every list, and every list loads again.
DeleteListed(t) ==
    /\ Shown # NoWorkspace /\ t \in rows \ deleted
    /\ deleted' = deleted \cup {t}
    /\ rows' = rows \ {t}
    /\ Loading(Shown)
    /\ UNCHANGED <<contextVars, place, pending, resources, mine>>

\* Someone else creates or deletes a task.
ElsewhereTask(t) ==
    /\ \A p \in pending : p.task # t
    /\ \/ place[t] = NoWorkspace /\ UNCHANGED deleted
          /\ \E w \in Workspace : place' = [place EXCEPT ![t] = w]
       \/ place[t] # NoWorkspace /\ t \notin mine /\ UNCHANGED place
          /\ deleted' = deleted \cup {t}
    /\ UNCHANGED <<contextVars, pending, rows, resources, load, mine>>

-----------------------------------------------------------------------------
ViewInit ==
    /\ ContextInit
    /\ place = [t \in TaskName |-> NoWorkspace]
    /\ deleted = {} /\ pending = {} /\ rows = {} /\ mine = {}
    /\ resources = NoWorkspace
    /\ load = [tasks |-> {}, resources |-> {}]

ViewLoadStep == \/ \E l \in load.tasks : ServeTasks(l) \/ TasksArrive(l)
            \/ \E w \in load.resources : ResourcesArrive(w)
            \/ LoadAgain

TaskStep == \/ \E t \in TaskName : AskToCreate(t) \/ DeleteListed(t) \/ ElsewhereTask(t)
            \/ \E p \in pending : Created(p)

ViewNext == ContextMoves \/ ViewLoadStep \/ TaskStep

ViewSpec == ViewInit /\ [][ViewNext]_<<contextVars, viewVars>>

-----------------------------------------------------------------------------
\* The list is that of the open workspace: a slow answer for one is never painted
\* under the name of another (useWorkspaceTasks.ts:30-32,
\* WorkspaceResourcesContext.tsx:44), and a task created here stays in it whatever
\* loads were asked before it existed and answer after (useWorkspaceTasks.ts:87-94).
OnlyActiveWorkspace ==
    Shown # NoWorkspace => /\ \A t \in rows : place[t] = Shown
                           /\ resources \in {NoWorkspace, Shown}
OwnTaskListed == \A t \in mine \ deleted : Shown = place[t] => t \in rows
ListOfWorkspace == OnlyActiveWorkspace /\ OwnTaskListed
===============================================================================
