------------------------------ MODULE TaskDrawer ------------------------------
(***************************************************************************)
(* One task open in several people's drawers at once: the copy each shows, *)
(* the draft typed over it, and the calls that save, reload or change the  *)
(* status under it.                                                        *)
(*                                                                         *)
(* Sources (under src/client/src): components/tasks/TaskDrawer.tsx,        *)
(* context/TaskContext.tsx, hooks/useStatusChange.ts and                   *)
(* components/tasks/CompletionNoteProvider.tsx.  The server's side is the  *)
(* conditional update of TaskBoard, reduced to a version and the fields.   *)
(*                                                                         *)
(* A call is sent, answered by the server and applied by the page, in three *)
(* steps; calls overtake each other and any of them can be lost on the way *)
(* there or back.  Everyone here may edit the task.                        *)
(***************************************************************************)
EXTENDS Naturals, FiniteSets

CONSTANTS
    Viewer,       \* people with the task open
    FormField,    \* fields of the form (DetailForm)
    FieldValue,   \* what a field can hold
    MaxSaved,     \* bounds Task.version
    MaxCall,      \* bounds the calls one page has in flight
    Nothing       \* null: no copy loaded, no form

ASSUME DrawerAssumption ==
    /\ MaxSaved \in Nat /\ MaxCall \in Nat
    /\ \A f \in FormField : f # "status" /\ f # "version"

VARIABLES
    saved,        \* the Task row
    drawer,       \* each person's drawer
    typed,        \* fields each has typed that differ from the copy underneath
    call          \* the calls in flight

drawerVars == <<saved, drawer, typed, call>>

-------------------------------------------------------------------------------
(* The row, the drawers and the calls *)

Form   == [FormField -> FieldValue]
Stage  == {"open", "completed"}

\* The row, and a copy of it in a page; `there' is false once it was deleted.
Copy   == [there : BOOLEAN, version : 1 .. MaxSaved, status : Stage, form : Form]

Drawer == [open : BOOLEAN, task : Copy \cup {Nothing}, form : Form \cup {Nothing},
           save : {"idle", "saving", "saved", "failed"}, conflict : BOOLEAN,
           failed : BOOLEAN]

Closed == [open |-> FALSE, task |-> Nothing, form |-> Nothing, save |-> "idle",
           conflict |-> FALSE, failed |-> FALSE]

\* `changes' are the fields a save sends, `meant' those its sender had typed, `to'
\* the status a status change asks for, `before' the copy it was asked of; `mine'
\* tells whether the drawer that sent it is still the one that is open.
Call == [by : Viewer, kind : {"load", "save", "status", "delete"}, mine : BOOLEAN,
         at : {"sent", "done", "conflict", "failed"}, meant : SUBSET FormField,
         version : 1 .. MaxSaved, to : Stage \cup {Nothing},
         before : Copy \cup {Nothing}, answer : Copy \cup {Nothing}]

NewCall(p, kind) == [by |-> p, kind |-> kind, mine |-> TRUE, at |-> "sent",
                     meant |-> {}, version |-> 1, to |-> Nothing, before |-> Nothing,
                     answer |-> Nothing, changes |-> <<>>]

DrawerTypeOK ==
    /\ saved \in Copy
    /\ drawer \in [Viewer -> Drawer]
    /\ typed \in [Viewer -> SUBSET FormField]
    /\ \A c \in call : /\ [f \in DOMAIN c \ {"changes"} |-> c[f]] \in Call
                       /\ DOMAIN c.changes \subseteq FormField
    /\ \A p \in Viewer : (drawer[p].task = Nothing) = (drawer[p].form = Nothing)

CallsOf(p) == {c \in call : c.by = p}
Send(p, c) == Cardinality(CallsOf(p)) < MaxCall /\ call' = call \cup {c}

\* isDirty: the form differs from the copy underneath.
Dirty(d) == d.task # Nothing /\ d.form # d.task.form

\* Mutant: the draft follows the copy too.
Over(d, copy) == [d EXCEPT !.task = copy, !.form = copy.form]

\* The task event "upsert" in an open drawer, and the answer of loadTask: a draft
\* is kept, anything else follows the copy.
Under(d, copy) == [d EXCEPT !.task = copy, !.form = IF Dirty(d) THEN d.form ELSE copy.form]

\* What is typed over a copy that holds the same is typed no more.
StillTyped(d, fs) == {f \in fs : d.task # Nothing /\ d.form[f] # d.task.form[f]}

-------------------------------------------------------------------------------
(* What a person does *)

Put(p, d) == /\ drawer' = [drawer EXCEPT ![p] = d]
             /\ typed' = [typed EXCEPT ![p] = StillTyped(d, typed[p])]

OpenDrawer(p) ==
    /\ drawer[p] = Closed
    /\ Send(p, NewCall(p, "load"))
    /\ Put(p, [Closed EXCEPT !.open = TRUE]) /\ UNCHANGED saved

\* The retry of a failed load.
Reload(p) ==
    /\ drawer[p].failed
    /\ Send(p, NewCall(p, "load"))
    /\ UNCHANGED <<saved, drawer, typed>>

Usable(p) == LET d == drawer[p] IN d.task # Nothing /\ ~d.failed

\* updateField; the fields stay enabled while a save is in flight.
Type(p, f, v) ==
    LET d == drawer[p]
        next == [d EXCEPT !.form = [d.form EXCEPT ![f] = v],
                          !.save = IF d.save = "saving" THEN d.save ELSE "idle"]
    IN
    /\ Usable(p) /\ d.form[f] # v
    /\ drawer' = [drawer EXCEPT ![p] = next]
    /\ typed' = [typed EXCEPT ![p] = StillTyped(next, typed[p] \cup {f})]
    /\ UNCHANGED <<saved, call>>

Discard(p) ==
    LET d == drawer[p] IN
    /\ Usable(p) /\ Dirty(d) /\ d.save # "saving"
    /\ Put(p, [d EXCEPT !.form = d.task.form, !.save = "idle", !.conflict = FALSE])
    /\ UNCHANGED <<saved, call>>

\* requestClose and openOther: unsaved edits go only if the person says so.
Close(p) ==
    /\ drawer[p].open
    /\ call' = {IF c.by = p THEN [c EXCEPT !.mine = FALSE] ELSE c : c \in call}
    /\ Put(p, Closed) /\ UNCHANGED saved

\* handleSave: the fields in which the form differs from the copy shown now.
Save(p) ==
    LET d == drawer[p]
        changed == {f \in FormField : d.form[f] # d.task.form[f]}
    IN
    /\ Usable(p) /\ Dirty(d) /\ d.save # "saving"
    /\ Send(p, [NewCall(p, "save") EXCEPT !.version = d.task.version,
                  !.changes = [f \in changed |-> d.form[f]], !.meant = typed[p]])
    /\ Put(p, [d EXCEPT !.save = "saving", !.conflict = FALSE]) /\ UNCHANGED saved

\* useStatusChange and updateTaskStatus: the new status shows at once.
ChangeStatus(p, s) ==
    LET d == drawer[p] IN
    /\ Usable(p) /\ d.task.status # s
    /\ Send(p, [NewCall(p, "status") EXCEPT !.version = d.task.version, !.to = s, !.before = d.task])
    /\ Put(p, Under(d, [d.task EXCEPT !.status = s])) /\ UNCHANGED saved

Delete(p) ==
    /\ Usable(p)
    /\ Send(p, NewCall(p, "delete"))
    /\ UNCHANGED <<saved, drawer, typed>>

-------------------------------------------------------------------------------
(* What the server answers *)

Answered(c, at, copy) == call' = (call \ {c}) \cup {[c EXCEPT !.at = at, !.answer = copy]}

Write(c, row) ==
    /\ saved.there /\ c.version = saved.version /\ saved.version < MaxSaved
    /\ saved' = row
    /\ Answered(c, "done", row)

Serve(c) ==
    /\ c.at = "sent"
    /\ \/ c.kind = "load" /\ saved.there /\ Answered(c, "done", saved) /\ UNCHANGED saved
       \/ c.kind = "save" /\ Write(c, [saved EXCEPT !.version = saved.version + 1,
              !.form = [f \in FormField |-> IF f \in DOMAIN c.changes THEN c.changes[f] ELSE saved.form[f]]])
       \/ c.kind = "status" /\ Write(c, [saved EXCEPT !.version = saved.version + 1, !.status = c.to])
       \/ /\ c.kind \in {"save", "status"} /\ saved.there /\ c.version # saved.version
          /\ Answered(c, "conflict", Nothing) /\ UNCHANGED saved
       \/ /\ c.kind = "delete" /\ saved.there
          /\ saved' = [saved EXCEPT !.there = FALSE] /\ Answered(c, "done", Nothing)
       \/ ~saved.there /\ Answered(c, "failed", Nothing) /\ UNCHANGED saved
    /\ UNCHANGED <<drawer, typed>>

\* Lost on the way there, or on the way back after the server did its part.
Lose(c) ==
    /\ c.at \in {"sent", "done"}
    /\ Answered(c, "failed", Nothing)
    /\ UNCHANGED <<saved, drawer, typed>>

\* Someone saves this task from anywhere else: a board, a list, another browser.
SavedElsewhere(f, v) ==
    /\ saved.there /\ saved.version < MaxSaved /\ saved.form[f] # v
    /\ saved' = [saved EXCEPT !.version = saved.version + 1, !.form = [saved.form EXCEPT ![f] = v]]
    /\ UNCHANGED <<drawer, typed, call>>

-------------------------------------------------------------------------------
(* What the page does with the answer *)

Take(c) == call' = call \ {c} /\ UNCHANGED saved

\* A version conflict announces "stale", on which an open drawer reloads.
TakeAndReload(c) == call' = (call \ {c}) \cup {NewCall(c.by, "load")} /\ UNCHANGED saved

LoadAnswer(c) ==
    LET d == drawer[c.by] IN
    /\ c.kind = "load" /\ c.at # "sent"
    /\ Take(c)
    /\ Put(c.by, IF ~c.mine THEN d
                 ELSE IF c.at = "done" THEN [Under(d, c.answer) EXCEPT !.failed = FALSE]
                 ELSE [d EXCEPT !.failed = TRUE])

\* An announced copy reaches whatever drawer is open, a conflict makes it reload.
Announce(c, d, copy) ==
    /\ IF c.at = "conflict" /\ d.open THEN TakeAndReload(c) ELSE Take(c)
    /\ Put(c.by, IF d.open /\ copy # Nothing THEN Under(d, copy) ELSE d)

\* handleSave's answer, in the drawer that asked: the saved copy replaces the copy
\* and the form.  In a later one it is just announced.
SaveAnswer(c) ==
    LET d == drawer[c.by] IN
    /\ c.kind = "save" /\ c.at # "sent"
    /\ IF ~c.mine THEN Announce(c, d, c.answer)
       ELSE /\ IF c.at = "conflict" THEN TakeAndReload(c) ELSE Take(c)
            /\ Put(c.by, IF c.at = "done"
                 THEN [d EXCEPT !.task = c.answer, !.form = c.answer.form, !.save = "saved"]
                 ELSE [d EXCEPT !.save = "failed", !.conflict = (c.at = "conflict")])

\* updateTaskStatus's answer: the saved copy, or the one it was asked of.
StatusAnswer(c) ==
    /\ c.kind = "status" /\ c.at # "sent"
    /\ Announce(c, drawer[c.by], IF c.at = "done" THEN c.answer ELSE c.before)

\* handleDelete's answer: the drawer closes; a failure leaves it as it was.
DeleteAnswer(c) ==
    /\ c.kind = "delete" /\ c.at # "sent"
    /\ Take(c)
    /\ Put(c.by, IF c.at = "done" THEN Closed ELSE drawer[c.by])

DrawerInit ==
    /\ saved \in [there : {TRUE}, version : {1}, status : {"open"}, form : {[f \in FormField |-> v] : v \in FieldValue}]
    /\ drawer = [p \in Viewer |-> Closed]
    /\ typed = [p \in Viewer |-> {}]
    /\ call = {}

PersonStep(p) ==
    \/ OpenDrawer(p) \/ Reload(p) \/ Discard(p) \/ Close(p) \/ Save(p) \/ Delete(p)
    \/ \E f \in FormField, v \in FieldValue : Type(p, f, v)
    \/ \E s \in Stage : ChangeStatus(p, s)

AnswerStep(c) == LoadAnswer(c) \/ SaveAnswer(c) \/ StatusAnswer(c) \/ DeleteAnswer(c)

DrawerNext ==
    \/ \E p \in Viewer : PersonStep(p)
    \/ \E c \in call : Serve(c) \/ Lose(c) \/ AnswerStep(c)
    \/ \E f \in FormField, v \in FieldValue : SavedElsewhere(f, v)

DrawerSpec == DrawerInit /\ [][DrawerNext]_drawerVars
-------------------------------------------------------------------------------
(* What must hold *)

\* Whatever is reloaded, refused or announced under a draft, what a person typed
\* stays until they save it, discard it or close the drawer (TaskDrawer.tsx:9-11).
EditsSurvive ==
    [][\A c \in call :
         (LoadAnswer(c) \/ StatusAnswer(c) \/ (SaveAnswer(c) /\ c.at # "done"))
         => \A p \in Viewer : \A f \in typed[p] : drawer'[p].form[f] = drawer[p].form[f]]_drawerVars

\* A saved draft changes what its author typed and nothing else, so a stale edit
\* cannot silently overwrite a newer one (task.controller.ts:79-80).  Refuted: after
\* a conflict the draft is compared with the newer copy, and the fields another
\* person changed are sent back as they were.
OnlyTypedFieldsSaved ==
    [][\A c \in call : (c.kind = "save" /\ Serve(c) /\ saved'.version # saved.version)
         => \A f \in FormField : saved'.form[f] # saved.form[f] => f \in c.meant]_drawerVars
===============================================================================
