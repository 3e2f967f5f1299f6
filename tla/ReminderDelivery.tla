--------------------------- MODULE ReminderDelivery ---------------------------
(***************************************************************************)
(* The reminder sweep: claim a due schedule, re-check the work, record the *)
(* delivery, send the email, and retry what failed; on several server      *)
(* instances, beside the operator's manual retry, while the tasks of       *)
(* TaskSchedule and the people they belong to change underneath.           *)
(*                                                                         *)
(* Sources (under src/server/src): jobs/taskReminder.ts, retryDelivery in  *)
(* controllers/adminOperations.controller.ts, notifyTaskSchedule in        *)
(* services/notificationService.ts.                                        *)
(*                                                                         *)
(* A process is one sweep (concurrency 1 per instance) or one operator     *)
(* request.  Each `await' of the code is a point where others run, so each *)
(* database statement or transaction and the call to the email provider is *)
(* a step of its own; the reads of one re-check are one step.              *)
(***************************************************************************)
EXTENDS TaskSchedule

CONSTANTS
    Worker,       \* server instances running the sweep
    Operator,     \* operator retry requests
    Creator,      \* the user who created the tasks
    Grace,        \* MISSED_GRACE_MS
    MaxAttempts,  \* MAX_EMAIL_ATTEMPTS
    RetryAfter,   \* RETRY_AFTER_MS
    MaxCrashes,   \* bounds how many times a process dies
    MaxMails,     \* bounds the mails the provider accepts for one key
    MaxOperated,  \* bounds the attempts after which an operator still retries
    PeopleOps     \* how this instance lets people and the workspace change

Proc == Worker \cup Operator

ASSUME DeliveryAssumption ==
    /\ Worker \cap Operator = {}
    /\ Creator \in User
    /\ Grace \in Nat /\ MaxAttempts \in Nat /\ RetryAfter \in Nat
    /\ MaxCrashes \in Nat /\ MaxMails \in Nat /\ MaxOperated \in Nat
    /\ PeopleOps \subseteq {"leave", "rejoin", "suspendAccount", "restoreAccount",
                           "suspendWorkspace", "deleteWorkspace", "restoreWorkspace"}

VARIABLES
    member,       \* users with an active membership
    suspended,    \* users whose account is suspended
    closed,       \* why the workspace is closed: "suspended", "deleted"
    reopening,    \* what a restore of the workspace has read, or Null
    proc,         \* the sweeps and operator retries in flight
    ledger,       \* the EmailDelivery rows, by deliveryKey
    notified,     \* the deliveryKeys of the Notification rows
    mails,        \* how many mails the provider accepted, by deliveryKey
    crashes       \* how many processes died in the middle of something

people       == <<member, suspended, closed, reopening>>
delivery     == <<proc, ledger, notified, mails, crashes>>
deliveryVars == <<vars, people, delivery>>

-------------------------------------------------------------------------------
(* The rows *)

\* A schedule that fires is a task, a kind and an instant; deliveryKey adds the
\* recipient.
Fired == Task \X Field \X Time
Key   == Fired \X User

LedgerRow == [status : {"none", "pending", "sent", "failed", "suppressed"},
              attempts : Nat, at : Time]                 \* at: updatedAt
NoRow     == [status |-> "none", attempts |-> 0, at |-> 0]

\* `phase' is the part of the sweep it is in, `now' when it started, `due' and
\* `failed' the rows of the batch still to do, the rest what it is delivering.
ProcState ==
    [pc : {"idle", "reading", "batch", "claimed", "cleared", "retrying", "sending", "answered"},
     phase : Field \cup {"retry", Null}, now : Time,
     due : SUBSET (Task \X Time), failed : SUBSET Key,
     task : Task \cup {Null}, field : Field \cup {Null}, at : Time,
     user : User \cup {Null}, outcome : {"sent", "failed", Null}]

Resting == [pc |-> "idle", phase |-> Null, now |-> 0, due |-> {}, failed |-> {},
            task |-> Null, field |-> Null, at |-> 0, user |-> Null, outcome |-> Null]

KeyOf(p) == << <<p.task, p.field, p.at>>, p.user >>

\* Between items: a sweep goes on with its batch, an operator's request is over.
NextItem(w) ==
    IF w \in Operator THEN Resting
    ELSE [Resting EXCEPT !.pc = "batch", !.phase = proc[w].phase, !.now = proc[w].now,
                         !.due = proc[w].due, !.failed = proc[w].failed]

\* From the claim on a process knows the task, and from the re-check on also the
\* recipient.
Aware(p) ==
    /\ p.pc \in {"claimed", "cleared", "retrying", "sending", "answered"}
         => p.task \in Task /\ p.field \in Field
    /\ p.pc \in {"cleared", "retrying", "sending", "answered"} => p.user \in User
    /\ p.pc = "answered" => p.outcome # Null
    /\ p.pc \in {"reading", "batch"} => p.phase # Null

DeliveryTypeOK ==
    /\ TypeOK
    /\ member \subseteq User /\ suspended \subseteq User
    /\ closed \subseteq {"suspended", "deleted"}
    /\ reopening # Null => /\ reopening.rows \in [Task -> Row \cup {Null}]
                           /\ reopening.state \in Settable \cup {"archived"}
                           /\ "suspended" \in closed
    /\ proc \in [Proc -> ProcState]
    /\ \A w \in Proc : Aware(proc[w])
    /\ ledger \in [Key -> LedgerRow]
    /\ notified \subseteq Key
    /\ mails \in [Key -> 0 .. MaxMails]
    /\ crashes \in 0 .. MaxCrashes

DeliveryInit ==
    /\ Init
    /\ member = User /\ suspended = {} /\ closed = {} /\ reopening = Null
    /\ proc = [w \in Proc |-> Resting]
    /\ ledger = [k \in Key |-> NoRow]
    /\ notified = {}
    /\ mails = [k \in Key |-> 0]
    /\ crashes = 0

-------------------------------------------------------------------------------
(* The re-check *)

\* The work a reminder may still be about, for redeliver and suppressionReason.
Wanted(t) == Live(t) /\ closed = {} /\ Open(task[t]) /\ ~Archived

\* suppressionReason, negated.
Deliverable(t, f, i, now) ==
    /\ Wanted(t)
    /\ now - i <= Grace
    /\ f = "overdueCheckAt" => task[t].due = i
    /\ f = "startReminderAt" => task[t].status = "todo"

\* resolveRecipientId: the assignee, or the creator of an unassigned task.
Recipient(t) ==
    LET owner == IF task[t].assignee # Null THEN task[t].assignee ELSE Creator
    IN  IF owner \in member \ suspended THEN owner ELSE Null

-------------------------------------------------------------------------------
(* The sweep: runReminderSweep and processDueSchedules *)

Become(w, p) == proc' = [proc EXCEPT ![w] = p]

\* The scheduler starts a sweep every minute, one at a time per instance.
StartSweep(w) ==
    /\ w \in Worker /\ proc[w].pc = "idle"
    /\ Become(w, [Resting EXCEPT !.pc = "reading", !.phase = "remindAt", !.now = clock])
    /\ UNCHANGED <<vars, people, ledger, notified, mails, crashes>>

DueRows(f, now) == {d \in Task \X Time : Due(d[1], f, now) /\ task[d[1]].schedule[f] = d[2]}

\* Mutant: the status is not asked for.
FailedRowsAnyStatus(now) == {k \in Key : /\ ledger[k].status \in {"failed", "sent"}
                                         /\ ledger[k].attempts < MaxAttempts
                                         /\ ledger[k].at + RetryAfter <= now}

\* Mutant: a row is retried only before its first attempt.
FailedRowsUntried(now) == {k \in Key : /\ ledger[k].status = "failed"
                                       /\ ledger[k].attempts < 1
                                       /\ ledger[k].at + RetryAfter <= now}

\* The failed rows old enough, with attempts left.
FailedRows(now) == {k \in Key : /\ ledger[k].status = "failed"
                                /\ ledger[k].attempts < MaxAttempts
                                /\ ledger[k].at + RetryAfter <= now}

ReadBatch(w) ==
    LET p == proc[w] IN
    /\ p.pc = "reading"
    /\ Become(w, IF p.phase = "retry"
                 THEN [p EXCEPT !.pc = "batch", !.failed = FailedRows(p.now)]
                 ELSE [p EXCEPT !.pc = "batch", !.due = DueRows(p.phase, p.now)])
    /\ UNCHANGED <<vars, people, ledger, notified, mails, crashes>>

\* Mutant: the sweep forgets the overdue alerts.
NextPhaseSkipsOverdue(f) == IF f = "remindAt" THEN "startReminderAt" ELSE "retry"

NextPhase(f) == CASE f = "remindAt"        -> "overdueCheckAt"
                  [] f = "overdueCheckAt"  -> "startReminderAt"
                  [] f = "startReminderAt" -> "retry"

EndBatch(w) ==
    LET p == proc[w] IN
    /\ p.pc = "batch" /\ p.due = {} /\ p.failed = {}
    /\ Become(w, IF p.phase = "retry" THEN Resting
                 ELSE [p EXCEPT !.pc = "reading", !.phase = NextPhase(p.phase)])
    /\ UNCHANGED <<vars, people, ledger, notified, mails, crashes>>

\* Mutant: whatever the column holds by now, clear it and deliver.
ClaimDueUnconditionally(w, t, i) ==
    LET p == proc[w] IN
    /\ p.pc = "batch" /\ <<t, i>> \in p.due
    /\ task' = [task EXCEPT ![t].schedule[p.phase] = Null]
    /\ Become(w, [p EXCEPT !.pc = "claimed", !.due = p.due \ {<<t, i>>}, !.task = t,
                           !.field = p.phase, !.at = i])
    /\ UNCHANGED <<clock, project, req, people, ledger, notified, mails, crashes>>

\* Only the sweep that clears the exact value it read gets to deliver it.
ClaimDue(w, t, i) ==
    LET p == proc[w] IN
    /\ p.pc = "batch" /\ <<t, i>> \in p.due
    /\ Claim(t, p.phase, i)
    /\ Become(w, [p EXCEPT !.pc = "claimed", !.due = p.due \ {<<t, i>>}, !.task = t,
                           !.field = p.phase, !.at = i])
    /\ UNCHANGED <<people, ledger, notified, mails, crashes>>

\* Another sweep claimed it, or the schedule changed since it was read.
SkipDue(w, t, i) ==
    LET p == proc[w] IN
    /\ p.pc = "batch" /\ <<t, i>> \in p.due
    /\ ~(Live(t) /\ task[t].schedule[p.phase] = i)
    /\ Become(w, [p EXCEPT !.due = p.due \ {<<t, i>>}])
    /\ UNCHANGED <<vars, people, ledger, notified, mails, crashes>>

\* loadDeliverableTask, suppressionReason and resolveRecipientId.
Recheck(w) ==
    LET p == proc[w] IN
    /\ p.pc = "claimed"
    /\ Become(w, IF Deliverable(p.task, p.field, p.at, p.now) /\ Recipient(p.task) # Null
                 THEN [p EXCEPT !.pc = "cleared", !.user = Recipient(p.task)]
                 ELSE NextItem(w))
    /\ UNCHANGED <<vars, people, ledger, notified, mails, crashes>>

\* One transaction: the notification (none for a suspended account) and the
\* ledger row; a key already there is left as it is.
Record(w) ==
    LET p == proc[w]
        k == KeyOf(p)
        status == IF ledger[k].status = "none" THEN "pending" ELSE ledger[k].status
    IN
    /\ p.pc = "cleared"
    /\ notified' = IF p.user \in suspended THEN notified ELSE notified \cup {k}
    /\ ledger' = IF ledger[k].status = "none"
                 THEN [ledger EXCEPT ![k] = [status |-> "pending", attempts |-> 0, at |-> clock]]
                 ELSE ledger
    /\ Become(w, IF status = "pending" THEN [p EXCEPT !.pc = "sending"] ELSE NextItem(w))
    /\ UNCHANGED <<vars, people, mails, crashes>>

-------------------------------------------------------------------------------
(* attemptEmail *)

\* The provider accepts the mail, or refuses it, or accepts it and the answer,
\* or the update that should record it, is lost: that counts as a failure.
Send(w, accepted, outcome) ==
    LET k == KeyOf(proc[w]) IN
    /\ proc[w].pc = "sending"
    /\ outcome = "sent" => accepted
    /\ accepted => mails[k] < MaxMails
    /\ mails' = IF accepted THEN [mails EXCEPT ![k] = mails[k] + 1] ELSE mails
    /\ Become(w, [proc[w] EXCEPT !.pc = "answered", !.outcome = outcome])
    /\ UNCHANGED <<vars, people, ledger, notified, crashes>>

\* The update by id that records the outcome, whatever the row says by now.
Settle(w) ==
    LET k == KeyOf(proc[w]) IN
    /\ proc[w].pc = "answered"
    /\ ledger' = [ledger EXCEPT ![k] = [status |-> proc[w].outcome,
                                        attempts |-> ledger[k].attempts + 1, at |-> clock]]
    /\ Become(w, NextItem(w))
    /\ UNCHANGED <<vars, people, notified, mails, crashes>>

-------------------------------------------------------------------------------
(* retryFailedEmails, retryDelivery and redeliver *)

Delivering(p, k) == [p EXCEPT !.pc = "retrying", !.task = k[1][1], !.field = k[1][2],
                              !.at = k[1][3], !.user = k[2]]

\* The next row of the batch, as it was read.
PickFailed(w, k) ==
    /\ proc[w].pc = "batch" /\ k \in proc[w].failed
    /\ Become(w, Delivering([proc[w] EXCEPT !.failed = proc[w].failed \ {k}], k))
    /\ UNCHANGED <<vars, people, ledger, notified, mails, crashes>>

\* An operator retries a failed row, even after its automatic attempts ran out.
OperatorRetry(w, k) ==
    /\ w \in Operator /\ proc[w].pc = "idle"
    /\ ledger[k].status = "failed"
    /\ ledger[k].attempts < MaxOperated
    /\ Become(w, Delivering(Resting, k))
    /\ UNCHANGED <<vars, people, ledger, notified, mails, crashes>>

\* Re-check, then send again or suppress the row, whatever it says by now.
Redeliver(w) ==
    LET p == proc[w]
        k == KeyOf(p)
        eligible == Wanted(p.task) /\ Recipient(p.task) = p.user
    IN
    /\ p.pc = "retrying"
    /\ ledger' = IF eligible THEN ledger
                 ELSE [ledger EXCEPT ![k] = [status |-> "suppressed",
                                             attempts |-> ledger[k].attempts, at |-> clock]]
    /\ Become(w, IF eligible THEN [p EXCEPT !.pc = "sending"] ELSE NextItem(w))
    /\ UNCHANGED <<vars, people, notified, mails, crashes>>

-------------------------------------------------------------------------------
(* The environment *)

\* The process dies, or a database error ends the sweep: what it had claimed or
\* read is forgotten, and the next sweep starts afresh.
Crash(w) ==
    /\ proc[w].pc # "idle" /\ crashes < MaxCrashes
    /\ Become(w, Resting)
    /\ crashes' = crashes + 1
    /\ UNCHANGED <<vars, people, ledger, notified, mails>>

\* What Membership does to the people of the tasks: ending a membership
\* unassigns the member's open tasks in the same transaction.
Leave(u) ==
    /\ "leave" \in PeopleOps /\ u \in member
    /\ \A t \in Task : task[t].version < MaxVersion
    /\ member' = member \ {u}
    /\ task' = [t \in Task |->
                  IF Live(t) /\ Open(task[t]) /\ task[t].assignee = u
                  THEN [task[t] EXCEPT !.assignee = Null, !.version = task[t].version + 1]
                  ELSE task[t]]
    /\ UNCHANGED <<clock, project, req, suspended, closed, reopening, delivery>>

People(op, u) ==
    /\ op \in PeopleOps
    /\ \/ op = "rejoin"         /\ member' = member \cup {u} /\ UNCHANGED suspended
       \/ op = "suspendAccount" /\ suspended' = suspended \cup {u} /\ UNCHANGED member
       \/ op = "restoreAccount" /\ suspended' = suspended \ {u} /\ UNCHANGED member
    /\ UNCHANGED <<vars, closed, reopening, delivery>>

\* An operator suspends the workspace: nothing is re-planned.
SuspendWorkspace ==
    /\ "suspendWorkspace" \in PeopleOps /\ closed = {}
    /\ closed' = {"suspended"}
    /\ UNCHANGED <<vars, member, suspended, reopening, delivery>>

\* The Owner deletes it and keeps its contents (for the permanent deletion see
\* Membership): reminders and overdue alerts are cleared.
DeleteWorkspace ==
    /\ "deleteWorkspace" \in PeopleOps /\ "deleted" \notin closed /\ reopening = Null
    /\ closed' = closed \cup {"deleted"}
    /\ task' = [t \in Task |-> IF Live(t)
                  THEN [task[t] EXCEPT !.schedule = [task[t].schedule EXCEPT
                                         !["remindAt"] = Null, !["overdueCheckAt"] = Null]]
                  ELSE task[t]]
    /\ UNCHANGED <<clock, project, req, member, suspended, reopening, delivery>>

\* An operator restores it: the transaction takes the row of the workspace, reads the
\* open tasks ...
RestoreWorkspaceRead ==
    /\ "restoreWorkspace" \in PeopleOps /\ "suspended" \in closed /\ reopening = Null
    /\ reopening' = [rows |-> RowsToPlan, state |-> project.state]
    /\ UNCHANGED <<vars, member, suspended, closed, delivery>>

\* ... and writes the schedule of each as planned from what it read; a task deleted
\* meanwhile rolls it all back.
RestoreWorkspace ==
    LET rows == reopening.rows IN
    /\ reopening # Null
    /\ \A t \in Task : rows[t] # Null => Live(t)
    /\ task' = [t \in Task |-> IF rows[t] # Null
                  THEN [task[t] EXCEPT !.schedule = ComputeSchedule(rows[t], reopening.state)]
                  ELSE task[t]]
    /\ closed' = closed \ {"suspended"}
    /\ reopening' = Null
    /\ UNCHANGED <<clock, project, req, member, suspended, delivery>>

RestoreRollsBack ==
    /\ reopening # Null
    /\ reopening' = Null
    /\ UNCHANGED <<vars, member, suspended, closed, delivery>>

-------------------------------------------------------------------------------

\* What the process itself does, and what the schedule of the tasks does
\* (TaskSchedule's own steps, without its abstract ClaimStep).
Progress(w) ==
    \/ StartSweep(w)
    \/ ReadBatch(w)
    \/ EndBatch(w)
    \/ \E t \in Task, i \in Time : ClaimDue(w, t, i) \/ SkipDue(w, t, i)
    \/ Recheck(w)
    \/ Record(w)
    \/ \E accepted \in BOOLEAN, outcome \in {"sent", "failed"} : Send(w, accepted, outcome)
    \/ Settle(w)
    \/ \E k \in Key : PickFailed(w, k)
    \/ Redeliver(w)

ProcStep(w) ==
    \/ Progress(w)
    \/ \E k \in Key : OperatorRetry(w, k)
    \/ Crash(w)

\* No request starts in a closed workspace (requireActiveMembership); those under way go on.
ScheduleStep ==
    /\ (\E r \in Request : RequestStep(r)) \/ Tick
    /\ closed # {} => \A r \in Request : req[r] = Idle => req'[r] = Idle
    /\ UNCHANGED <<people, delivery>>

DeliveryNext ==
    \/ \E w \in Proc : ProcStep(w)
    \/ ScheduleStep
    \/ \E u \in User : Leave(u)
    \/ \E op \in PeopleOps, u \in User : People(op, u)
    \/ SuspendWorkspace \/ DeleteWorkspace
    \/ RestoreWorkspaceRead \/ RestoreWorkspace \/ RestoreRollsBack

DeliverySpec == DeliveryInit /\ [][DeliveryNext]_deliveryVars
\* The scheduler keeps starting sweeps and a sweep that runs gets on with its
\* work; time passes.  Nothing is assumed of requests, people or crashes.
Fairness == /\ \A w \in Worker : WF_deliveryVars(Progress(w))
            /\ WF_deliveryVars(Tick /\ UNCHANGED <<people, delivery>>)

FairDeliverySpec == DeliverySpec /\ Fairness

-------------------------------------------------------------------------------
(* What must hold *)

\* A schedule reaches one recipient: two sweeps that both read it as due never
\* both deliver it, even if the task changes hands between them, a sweep dies
\* and another starts, or the deadline is moved away and back.
OneRecipientPerSchedule ==
    \A j, k \in Key :
      (/\ ledger[j].status # "none" \/ j \in notified
       /\ ledger[k].status # "none" \/ k \in notified
       /\ j[1] = k[1])
      => j = k

\* With one instance and no operator, the sweep keeps the ledger's promises
\* (module EmailLedger), wherever it dies and however the provider answers.
Ledger == INSTANCE EmailLedger WITH Schedule <- Fired,
                                    status <- [k \in Key |-> ledger[k].status]
LedgerKept == Ledger!Spec

\* A known-successful email is never resent (taskReminder.ts,
\* adminOperations.controller.ts).
SentNeverResent ==
    [][\A k \in Key : ledger[k].status = "sent" => mails'[k] = mails[k]]_deliveryVars

\* A schedule that has come due is claimed, re-planned or dropped: no row stays
\* due for ever, whatever crashes.
DueIsHandled ==
    \A t \in Task, f \in Field : Due(t, f, clock) ~> ~Due(t, f, clock)

\* ... and a failed one is tried again, whatever crashes, until it is sent,
\* suppressed or out of attempts (unless time runs out first).
Retriable(k) == /\ ledger[k].status = "failed" /\ ledger[k].attempts < MaxAttempts
                /\ ledger[k].at + RetryAfter <= Horizon
FailedIsRetried == \A k \in Key : Retriable(k) ~> ~Retriable(k)
===============================================================================
