---------------------------- MODULE DeliveryProofs ----------------------------
(***************************************************************************)
(* Proofs about ReminderDelivery, for any number of server instances,      *)
(* operator requests, tasks, users and crashes: a schedule reaches one     *)
(* recipient, and a single sweep keeps the promises of EmailLedger.        *)
(***************************************************************************)
EXTENDS ReminderDelivery, TaskScheduleProofs

-------------------------------------------------------------------------------
(* What was claimed stays claimed *)

\* The instant has come and the schedule of the task, which exists, is no longer
\* armed for it: it never will be again.
Spent(t, f, i) == i <= clock /\ task[t].life # "unborn" /\ task[t].schedule[f] # i

\* How a step may change the tasks and the clock.
Moved ==
    /\ clock <= clock'
    /\ \A t \in Task : task[t].life # "unborn" =>
         /\ task'[t].life # "unborn"
         /\ \A f \in Field : \/ task'[t].schedule[f] \in {Null, task[t].schedule[f]}
                             \/ task'[t].schedule[f] > clock

LEMMA SpentStays ==
  ASSUME IInv, IInv', Moved, NEW t \in Task, NEW f \in Field, NEW i \in Time, Spent(t, f, i)
  PROVE  Spent(t, f, i)'
<1>1. i \in Int /\ clock \in Int /\ clock' \in Int /\ Null \notin Int
  BY ScheduleAssumption DEF IInv, TypeOK, Time
<1>2. i <= clock'
  BY <1>1 DEF Moved, Spent
<1>3. task'[t].schedule[f] # i
  <2>1. CASE task'[t].schedule[f] > clock
    BY <1>1, <2>1 DEF Spent
  <2>2. CASE task'[t].schedule[f] \in {Null, task[t].schedule[f]}
    BY <1>1, <2>2 DEF Spent
  <2> QED
    BY <2>1, <2>2 DEF Moved, Spent
<1> QED
  BY <1>2, <1>3 DEF Moved, Spent

LEMMA ReplannedMoves ==
  ASSUME \A t \in Task : \/ Replanned(t)
                         \/ task[t].life = "unborn"
                         \/ task'[t] = task[t]
                         \/ task'[t].life # "unborn" /\ task'[t].schedule = NoPlan,
         clock <= clock'
  PROVE  Moved
BY DEF Moved, Replanned, NoPlan

\* A step of the schedule by itself.
LEMMA ScheduleMoves ==
  ASSUME IInv, Fresh, [Next]_vars
  PROVE  IInv' /\ Fresh' /\ Moved
<1>1. IInv' /\ Fresh'
  BY StepKeepsType, StepKeepsFresh
<1>2. clock \in Int
  BY ScheduleAssumption DEF IInv, TypeOK, Time
<1>3. CASE Tick
  <2>1. clock <= clock'
    BY <1>2, <1>3 DEF Tick
  <2> QED
    BY <1>1, <1>3, <2>1, TickKeeps, ReplannedMoves
<1>4. CASE ~Tick
  <2>1. clock' = clock
    BY <1>4 DEF Next, vars, RequestStep, CreateLoad, CreateTask, TaskLoad, EditTask, DeleteTask,
                ProjectLoad, UpdateProject, ArchiveProject, RestoreRead, RestoreProject, Abort,
                Load, ClaimStep, Claim
  <2>2. clock <= clock'
    BY <1>2, <2>1
  <2>3. ASSUME NEW t \in Task
        PROVE  \/ Replanned(t)
               \/ task[t].life = "unborn"
               \/ task'[t] = task[t]
               \/ task'[t].life # "unborn" /\ task'[t].schedule = NoPlan
    <3>1. ASSUME NEW r \in Request, CreateTask(r)
          PROVE  task[t].life = "unborn" \/ task'[t] = task[t]
      <4>1. task[req[r].task].life = "unborn"
        BY <3>1 DEF CreateTask, Fresh, Creating
      <4>2. t # req[r].task => task'[t] = task[t]
        BY <3>1 DEF CreateTask, IInv, TypeOK
      <4> QED
        BY <4>1, <4>2
    <3>2. ASSUME NEW r \in Request, RequestStep(r), ~CreateTask(r)
          PROVE  Replanned(t) \/ (task'[t].life # "unborn" /\ task'[t].schedule = NoPlan)
      BY <3>2, LoadingStepsKeep, EditTaskKeeps, DeleteTaskKeeps, UpdateProjectKeeps,
         ArchiveProjectKeeps, RestoreProjectKeeps DEF RequestStep
    <3>3. CASE UNCHANGED vars
      BY <3>3 DEF vars
    <3> QED
      BY <1>4, <3>1, <3>2, <3>3, ClaimKeeps DEF Next
  <2> QED
    BY <1>1, <2>2, <2>3, ReplannedMoves
<1> QED
  BY <1>3, <1>4

\* Somebody leaves: the tasks keep their schedules.
LEMMA LeaveMoves ==
  ASSUME IInv, Fresh, NEW u \in User, Leave(u)
  PROVE  IInv' /\ Fresh' /\ Moved
<1>0. clock \in Time /\ project \in Project /\ task \in [Task -> Row] /\ MaxVersion \in Nat
  BY ScheduleAssumption DEF IInv, TypeOK
<1>1. UNCHANGED <<clock, project, req>>
  BY DEF Leave
<1> DEFINE row(t) == IF Live(t) /\ Open(task[t]) /\ task[t].assignee = u
                     THEN [task[t] EXCEPT !.assignee = Null, !.version = task[t].version + 1]
                     ELSE task[t]
<1>2. ASSUME NEW t \in Task
      PROVE  row(t) \in Row /\ row(t).life = task[t].life /\ row(t).schedule = task[t].schedule
  <2>1. task[t] \in Row /\ task[t].version \in 0 .. MaxVersion /\ task[t].version < MaxVersion
    BY <1>0 DEF Leave, Row
  <2>2. task[t].version + 1 \in 0 .. MaxVersion
    BY <1>0, <2>1
  <2>3. PICK p \in Row, v \in 0 .. MaxVersion : p = task[t] /\ v = task[t].version + 1
    BY <2>1, <2>2
  <2>4. PICK q : q = [p EXCEPT !.assignee = Null, !.version = v]
    OBVIOUS
  <2>5. p \in Row
    BY <2>1, <2>3
  <2>6. q \in Row /\ q.life = p.life /\ q.schedule = p.schedule
    BY <2>4, <2>5 DEF Row
  <2>7. row(t) = p \/ row(t) = q
    BY <2>3, <2>4
  <2> QED
    BY <2>3, <2>5, <2>6, <2>7
<1>3. task' = [t \in Task |-> row(t)]
  BY DEF Leave
<1> HIDE DEF row
<1>4. \A t \in Task : task'[t].life = task[t].life /\ task'[t].schedule = task[t].schedule
  BY <1>2, <1>3
<1>5. task' \in [Task -> Row]
  BY <1>2, <1>3
<1>6. IInv'
  BY <1>1, <1>5 DEF IInv, TypeOK
<1>7. Fresh'
  BY <1>1, <1>4 DEF IInv, Loaded, Fresh, Creating
<1>8. clock <= clock'
  BY <1>0, <1>1, ScheduleAssumption DEF Time
<1> QED
  BY <1>4, <1>6, <1>7, <1>8 DEF Moved

\* The workspace is deleted: two of the three armed instants are cleared.
LEMMA DeleteMoves ==
  ASSUME IInv, Fresh, DeleteWorkspace
  PROVE  IInv' /\ Fresh' /\ Moved
<1> DEFINE cleared(t) == [task[t].schedule EXCEPT !["remindAt"] = Null,
                                                  !["overdueCheckAt"] = Null]
           row(t) == [task[t] EXCEPT !.schedule = cleared(t)]
<1>1. ASSUME NEW t \in Task
      PROVE  /\ row(t) \in Row /\ row(t).life = task[t].life
             /\ \A f \in Field : row(t).schedule[f] \in {Null, task[t].schedule[f]}
  <2>1. task[t] \in Row /\ task[t].schedule \in Schedule
    BY DEF IInv, TypeOK, Row
  <2>2. cleared(t) \in Schedule /\ \A f \in Field : cleared(t)[f] \in {Null, task[t].schedule[f]}
    BY <2>1 DEF Schedule
  <2> HIDE DEF cleared
  <2>3. row(t) \in Row
    BY <2>1, <2>2, WithScheduleType
  <2> QED
    BY <2>1, <2>2, <2>3 DEF Row
<1>2. /\ task' = [t \in Task |-> IF Live(t) THEN row(t) ELSE task[t]]
      /\ UNCHANGED <<clock, project, req>>
  BY DEF DeleteWorkspace
<1> HIDE DEF row
<1>3. task \in [Task -> Row] /\ clock \in Time
  BY DEF IInv, TypeOK
<1>4. task' \in [Task -> Row] /\ \A t \in Task : Replanned(t)
  BY <1>1, <1>2, <1>3 DEF Replanned
<1>5. IInv' /\ clock <= clock'
  BY <1>2, <1>3, <1>4, ScheduleAssumption DEF IInv, TypeOK, Time
<1> QED
  BY <1>2, <1>4, <1>5, FreshKept, ReplannedMoves

\* What a restore of the workspace read are rows.
Reopens == reopening # Null => reopening.rows \in [Task -> Row \cup {Null}]

\* The workspace is restored: what is planned from the rows it read is ahead.
LEMMA ReopenMoves ==
  ASSUME IInv, Fresh, Reopens, RestoreWorkspace
  PROVE  IInv' /\ Fresh' /\ Moved
<1> DEFINE rows == reopening.rows
           planned(t) == ComputeSchedule(rows[t], reopening.state)
           row(t) == [task[t] EXCEPT !.schedule = planned(t)]
<1>1. /\ task \in [Task -> Row] /\ clock \in Time /\ rows \in [Task -> Row \cup {Null}]
  BY DEF IInv, TypeOK, Reopens, RestoreWorkspace
<1>2. /\ task' = [t \in Task |-> IF rows[t] # Null THEN row(t) ELSE task[t]]
      /\ UNCHANGED <<clock, project, req>>
  BY DEF RestoreWorkspace
<1> HIDE DEF rows
<1>3. ASSUME NEW t \in Task, rows[t] # Null
      PROVE  /\ row(t) \in Row /\ row(t).life = task[t].life
             /\ \A f \in Field : row(t).schedule[f] = Null \/ row(t).schedule[f] > clock
  <2>1. task[t] \in Row /\ rows[t] \in Row
    BY <1>1, <1>3
  <2>2. planned(t) \in Schedule /\ \A f \in Field : planned(t)[f] = Null \/ planned(t)[f] > clock
    BY <1>1, <2>1, PlanFacts
  <2> HIDE DEF planned
  <2>3. row(t) \in Row
    BY <2>1, <2>2, WithScheduleType
  <2> QED
    BY <2>1, <2>2, <2>3 DEF Row
<1> HIDE DEF row
<1>4. task' \in [Task -> Row] /\ \A t \in Task : Replanned(t)
  BY <1>1, <1>2, <1>3 DEF Replanned
<1>5. IInv' /\ clock <= clock'
  BY <1>1, <1>2, <1>4, ScheduleAssumption DEF IInv, TypeOK, Time
<1> QED
  BY <1>2, <1>4, <1>5, FreshKept, ReplannedMoves

-------------------------------------------------------------------------------
(* One taker *)

Handling(p)   == p.pc \in {"claimed", "cleared"}
Attempting(p) == p.pc \in {"retrying", "sending", "answered"}
Opened(k)     == ledger[k].status # "none"
FiredOf(p)    == <<p.task, p.field, p.at>>

\* Where a sweep may be: what it has read is due or in the ledger.
Sweeps(w, p) ==
    /\ p \in ProcState
    /\ w \in Operator => p.pc = "idle" \/ Attempting(p)
    /\ p.pc # "idle" /\ w \notin Operator => p.phase \in Field \cup {"retry"}
    /\ p.phase = "retry" => p.due = {}
    /\ p.pc = "reading" => p.due = {} /\ p.failed = {}
    /\ p.now <= clock
    /\ \A d \in p.due : d[2] <= p.now
    /\ \A k \in p.failed : Opened(k)

\* What it handles was claimed, and nobody was told; what it attempts is in the ledger.
Delivers(p) ==
    /\ Handling(p) => /\ p.task \in Task /\ p.field \in Field
                      /\ Spent(p.task, p.field, p.at)
                      /\ \A k \in Key : k[1] = FiredOf(p) => ~Opened(k)
    /\ p.pc = "cleared" => p.user \in User
    /\ Attempting(p) => p.task \in Task /\ p.field \in Field /\ p.user \in User /\ Opened(KeyOf(p))
    /\ p.pc = "answered" => p.outcome \in {"sent", "failed"}

\* No two processes handle the same.
Alone == \A v, w \in Proc : Handling(proc[v]) /\ Handling(proc[w]) /\ FiredOf(proc[v]) = FiredOf(proc[w])
                              => v = w

\* The ledger is of what was claimed, for one recipient each.
LedgerOK ==
    /\ ledger \in [Key -> LedgerRow]
    /\ notified \subseteq Key /\ \A k \in notified : Opened(k)
    /\ \A t \in Task, f \in Field, i \in Time, u \in User :
         Opened(<< <<t, f, i>>, u >>) => Spent(t, f, i)
    /\ \A j, k \in Key : Opened(j) /\ Opened(k) /\ j[1] = k[1] => j = k

DeliveryInv ==
    /\ IInv /\ Fresh
    /\ proc = [w \in Proc |-> proc[w]]
    /\ \A w \in Proc : Sweeps(w, proc[w]) /\ Delivers(proc[w])
    /\ Alone /\ LedgerOK

LEMMA RestingFits ==
  ASSUME clock \in Time
  PROVE  /\ Resting \in ProcState /\ Resting.pc = "idle"
         /\ \A w \in Proc : Sweeps(w, Resting) /\ Delivers(Resting)
<1>1. 0 \in Time /\ 0 <= clock
  BY ScheduleAssumption DEF Time
<1>2. Resting \in ProcState
  BY <1>1 DEF Resting, ProcState
<1>3. /\ Resting.pc = "idle" /\ Resting.due = {} /\ Resting.failed = {} /\ Resting.now = 0
  BY DEF Resting
<1> QED
  BY <1>1, <1>2, <1>3 DEF Sweeps, Delivers, Handling, Attempting

LEMMA KeyParts ==
  ASSUME NEW t \in Task, NEW f \in Field, NEW i \in Time, NEW u \in User
  PROVE  << <<t, f, i>>, u >> \in Key /\ << <<t, f, i>>, u >>[1] = <<t, f, i>>
BY DEF Key, Fired

LEMMA DeliveryStart == DeliveryInit => DeliveryInv
<1> SUFFICES ASSUME DeliveryInit PROVE DeliveryInv
  OBVIOUS
<1>1. IInv /\ Fresh
  BY InitType, InitFresh DEF DeliveryInit
<1>2. clock \in Time
  BY <1>1 DEF IInv, TypeOK
<1>3. \A w \in Proc : proc[w] = Resting
  BY DEF DeliveryInit
<1>4. \A w \in Proc : Sweeps(w, proc[w]) /\ Delivers(proc[w])
  BY <1>2, <1>3, RestingFits
<1>5. Alone
  BY <1>2, <1>3, RestingFits DEF Alone, Handling
<1>6. LedgerOK
  <2>1. 0 \in Time
    BY ScheduleAssumption DEF Time
  <2>2. NoRow \in LedgerRow /\ NoRow.status = "none"
    BY <2>1 DEF NoRow, LedgerRow
  <2>3. \A k \in Key : ~Opened(k)
    BY <2>2 DEF DeliveryInit, Opened
  <2> QED
    BY <2>2, <2>3, KeyParts DEF DeliveryInit, LedgerOK
<1> QED
  BY <1>1, <1>4, <1>5, <1>6 DEF DeliveryInv, DeliveryInit

\* What a process is known to be.
LEMMA KnownProc ==
  ASSUME DeliveryInv, NEW w \in Proc
  PROVE  /\ Sweeps(w, proc[w]) /\ Delivers(proc[w]) /\ proc[w] \in ProcState /\ clock \in Time
         /\ proc[w].pc \in {"idle", "reading", "batch", "claimed", "cleared", "retrying", "sending",
                            "answered"}
         /\ proc[w].phase \in Field \cup {"retry", Null} /\ proc[w].now \in Time
         /\ proc[w].due \in SUBSET (Task \X Time) /\ proc[w].failed \in SUBSET Key
         /\ proc[w].at \in Time
BY DEF DeliveryInv, Sweeps, ProcState, IInv, TypeOK

\* The tasks, the clock or the people change.
LEMMA UnderneathKeeps ==
  ASSUME DeliveryInv, IInv', Fresh', Moved, UNCHANGED <<proc, ledger, notified>>
  PROVE  DeliveryInv'
<1>1. \A k : Opened(k)' = Opened(k)
  BY DEF Opened
<1>2. ASSUME NEW w \in Proc PROVE Sweeps(w, proc[w])'
  <2>1. proc[w].now \in Int /\ clock \in Int /\ clock' \in Int
    BY KnownProc, ScheduleAssumption DEF DeliveryInv, IInv, TypeOK, Time
  <2>2. proc[w].now <= clock'
    BY <2>1, KnownProc DEF Moved, Sweeps
  <2> QED
    BY <1>1, <2>2, KnownProc DEF Sweeps
<1>3. ASSUME NEW w \in Proc PROVE Delivers(proc[w])'
  <2>1. CASE Handling(proc[w])
    <3>1. /\ proc[w].task \in Task /\ proc[w].field \in Field /\ proc[w].at \in Time
          /\ Spent(proc[w].task, proc[w].field, proc[w].at)
      BY <2>1, KnownProc DEF Delivers
    <3>2. PICK t \in Task, f \in Field, i \in Time :
            t = proc[w].task /\ f = proc[w].field /\ i = proc[w].at
      BY <3>1
    <3>3. Spent(t, f, i)'
      BY <3>1, <3>2, SpentStays DEF DeliveryInv
    <3>4. \A k \in Key : k[1] = FiredOf(proc[w]) => ~Opened(k)'
      BY <1>1, <2>1, KnownProc DEF Delivers
    <3>5. ~Attempting(proc[w]) /\ proc'[w] = proc[w]
      BY <2>1 DEF Attempting, Handling
    <3> QED
      BY <2>1, <3>2, <3>3, <3>4, <3>5, KnownProc DEF Delivers, Handling, Attempting, FiredOf, Spent
  <2>2. CASE ~Handling(proc[w])
    BY <1>1, <2>2, KnownProc DEF Delivers, Handling, Attempting, KeyOf
  <2> QED
    BY <2>1, <2>2
<1>4. Alone'
  BY DEF DeliveryInv, Alone, Handling, FiredOf
<1>5. LedgerOK'
  <2>1. ASSUME NEW t \in Task, NEW f \in Field, NEW i \in Time, NEW u \in User,
               Opened(<< <<t, f, i>>, u >>)
        PROVE  Spent(t, f, i)'
    <3>1. Spent(t, f, i)
      BY <2>1 DEF DeliveryInv, LedgerOK
    <3> QED
      BY <3>1, SpentStays DEF DeliveryInv
  <2> QED
    BY <1>1, <2>1 DEF DeliveryInv, LedgerOK
<1> QED
  BY <1>2, <1>3, <1>4, <1>5 DEF DeliveryInv

\* A process goes on and opens no key.
LEMMA ProcGoesOn ==
  ASSUME DeliveryInv, NEW w \in Proc, NEW p, Sweeps(w, p), Delivers(p), Become(w, p),
         UNCHANGED <<vars, notified>>, ledger' \in [Key -> LedgerRow],
         \A k \in Key : ledger'[k].status = "none" <=> ledger[k].status = "none",
         Handling(p) => Handling(proc[w]) /\ FiredOf(p) = FiredOf(proc[w])
  PROVE  DeliveryInv'
<1>1. \A k \in Key : Opened(k)' = Opened(k)
  BY DEF Opened
<1>2. proc' = [v \in Proc |-> IF v = w THEN p ELSE proc[v]]
  BY DEF DeliveryInv, Become
<1>3. proc'[w] = p /\ \A v \in Proc : v # w => proc'[v] = proc[v]
  BY <1>2
<1>4. IInv' /\ Fresh'
  BY DEF vars, DeliveryInv, IInv, TypeOK, Fresh, Creating
<1>5. ASSUME NEW t, NEW f, NEW i PROVE Spent(t, f, i)' = Spent(t, f, i)
  BY DEF vars, Spent
<1>6. ASSUME NEW v \in Proc PROVE Sweeps(v, proc'[v]) /\ Delivers(proc'[v])
  BY <1>3, KnownProc
<1>7. ASSUME NEW v \in Proc, NEW q, Sweeps(v, q), Delivers(q), q = proc'[v]
      PROVE  Sweeps(v, proc[v])' /\ Delivers(proc[v])'
  <2>1. q.failed \in SUBSET Key /\ q.at \in Time
    BY <1>7 DEF Sweeps, ProcState
  <2>2. Sweeps(v, proc[v])'
    BY <1>1, <1>7, <2>1 DEF Sweeps, vars
  <2>3. Attempting(q) => KeyOf(q) \in Key
    BY <1>7, <2>1, KeyParts DEF Delivers, KeyOf
  <2>4. Attempting(q) => ledger'[KeyOf(q)].status # "none"
    BY <1>1, <1>7, <2>3 DEF Delivers, Opened
  <2>5. Handling(q) => Spent(q.task, q.field, q.at)'
    BY <1>7 DEF Delivers, Spent, vars
  <2>6. Delivers(proc[v])'
    BY <1>1, <1>7, <2>4, <2>5 DEF Delivers, Handling, Attempting, FiredOf, KeyOf, Opened, Spent
  <2> QED
    BY <2>2, <2>6
<1>8. Alone'
  <2> SUFFICES ASSUME NEW u \in Proc, NEW v \in Proc, Handling(proc'[u]), Handling(proc'[v]),
                      FiredOf(proc'[u]) = FiredOf(proc'[v])
               PROVE  u = v
    BY DEF Alone, Handling, FiredOf
  <2>1. /\ Handling(proc[u]) /\ FiredOf(proc[u]) = FiredOf(proc'[u])
        /\ Handling(proc[v]) /\ FiredOf(proc[v]) = FiredOf(proc'[v])
    BY <1>3
  <2> QED
    BY <2>1 DEF DeliveryInv, Alone
<1>9. LedgerOK'
  <2>1. ASSUME NEW t \in Task, NEW f \in Field, NEW i \in Time, NEW u \in User,
               Opened(<< <<t, f, i>>, u >>)'
        PROVE  Spent(t, f, i)'
    <3>1. Opened(<< <<t, f, i>>, u >>)
      BY <1>1, <2>1, KeyParts DEF Opened
    <3> QED
      BY <1>5, <3>1 DEF DeliveryInv, LedgerOK
  <2> QED
    BY <1>1, <2>1 DEF DeliveryInv, LedgerOK
<1>10. proc' = [v \in Proc |-> proc'[v]]
  BY <1>2
<1> QED
  BY <1>4, <1>6, <1>7, <1>8, <1>9, <1>10 DEF DeliveryInv

\* ... and leaves the ledger alone.
LEMMA ProcReads ==
  ASSUME DeliveryInv, NEW w \in Proc, NEW p, Sweeps(w, p), Delivers(p), Become(w, p),
         UNCHANGED <<vars, ledger, notified>>,
         Handling(p) => Handling(proc[w]) /\ FiredOf(p) = FiredOf(proc[w])
  PROVE  DeliveryInv'
BY ProcGoesOn DEF DeliveryInv, LedgerOK

\* Between two items nothing is handled.
LEMMA NextItemFits ==
  ASSUME DeliveryInv, NEW w \in Proc, proc[w].pc # "idle", proc[w].pc # "reading"
  PROVE  Sweeps(w, NextItem(w)) /\ Delivers(NextItem(w)) /\ ~Handling(NextItem(w))
<1>1. CASE w \in Operator
  BY <1>1, KnownProc, RestingFits DEF NextItem, Handling
<1>2. CASE w \notin Operator
  <2>1. PICK phase, since, due, failed : phase = proc[w].phase /\ since = proc[w].now
                                        /\ due = proc[w].due /\ failed = proc[w].failed
    OBVIOUS
  <2>2. PICK r : r = Resting
    OBVIOUS
  <2>3. PICK q : q = [r EXCEPT !.pc = "batch", !.phase = phase, !.now = since, !.due = due,
                               !.failed = failed]
    OBVIOUS
  <2>4. r \in ProcState
    BY <2>2, KnownProc, RestingFits
  <2>5. /\ phase \in Field \cup {"retry"} /\ since \in Time /\ due \in SUBSET (Task \X Time)
        /\ failed \in SUBSET Key /\ (phase = "retry" => due = {}) /\ since <= clock
        /\ (\A d \in due : d[2] <= since) /\ \A k \in failed : Opened(k)
    BY <1>2, <2>1, KnownProc DEF Sweeps
  <2>6. /\ q \in ProcState /\ q.pc = "batch" /\ q.phase = phase /\ q.now = since /\ q.due = due
        /\ q.failed = failed
    BY <2>3, <2>4, <2>5 DEF ProcState
  <2>7. NextItem(w) = q
    BY <1>2, <2>1, <2>2, <2>3 DEF NextItem
  <2>8. Sweeps(w, q)
    BY <1>2, <2>5, <2>6 DEF Sweeps
  <2>9. Delivers(q) /\ ~Handling(q)
    BY <2>6 DEF Delivers, Handling, Attempting
  <2> QED
    BY <2>7, <2>8, <2>9
<1> QED
  BY <1>1, <1>2

\* A process that handles or attempts nothing.
LEMMA AtRest ==
  ASSUME NEW p, p.pc \in {"idle", "reading", "batch"}
  PROVE  Delivers(p) /\ ~Handling(p)
BY DEF Delivers, Handling, Attempting

LEMMA StartKeepsOne == ASSUME DeliveryInv, NEW w \in Proc, StartSweep(w) PROVE DeliveryInv'
<1>1. PICK r : r = Resting
  OBVIOUS
<1>2. PICK q : q = [r EXCEPT !.pc = "reading", !.phase = "remindAt", !.now = clock]
  OBVIOUS
<1>3. r \in ProcState /\ r.due = {} /\ r.failed = {} /\ clock \in Time /\ clock \in Int
  BY <1>1, KnownProc, RestingFits, ScheduleAssumption DEF Resting, Time
<1>4. /\ q \in ProcState /\ q.pc = "reading" /\ q.phase = "remindAt" /\ q.now = clock
      /\ q.due = {} /\ q.failed = {}
  BY <1>2, <1>3 DEF ProcState, Field
<1>5. w \notin Operator /\ Become(w, q) /\ UNCHANGED <<vars, ledger, notified>>
  BY <1>1, <1>2, DeliveryAssumption DEF StartSweep
<1>6. Sweeps(w, q)
  BY <1>3, <1>4, <1>5 DEF Sweeps, Field
<1> QED
  BY <1>4, <1>5, <1>6, AtRest, ProcReads

LEMMA ReadKeepsOne == ASSUME DeliveryInv, NEW w \in Proc, ReadBatch(w) PROVE DeliveryInv'
<1>1. PICK p : p = proc[w]
  OBVIOUS
<1>2. /\ p.pc = "reading" /\ UNCHANGED <<vars, ledger, notified>> /\ Sweeps(w, p)
      /\ Become(w, IF p.phase = "retry"
                   THEN [p EXCEPT !.pc = "batch", !.failed = FailedRows(p.now)]
                   ELSE [p EXCEPT !.pc = "batch", !.due = DueRows(p.phase, p.now)])
  BY <1>1, KnownProc DEF ReadBatch
<1>3. w \notin Operator /\ p.phase \in Field \cup {"retry"} /\ p.due = {} /\ p.failed = {}
  BY <1>2 DEF Sweeps, Attempting
<1>4. CASE p.phase = "retry"
  <2>1. PICK failed : failed = FailedRows(p.now)
    OBVIOUS
  <2>2. failed \in SUBSET Key /\ \A k \in failed : Opened(k)
    BY <2>1 DEF FailedRows, Opened
  <2>3. PICK q : q = [p EXCEPT !.pc = "batch", !.failed = failed]
    OBVIOUS
  <2>4. /\ q \in ProcState /\ q.pc = "batch" /\ q.phase = p.phase /\ q.now = p.now
        /\ q.due = {} /\ q.failed = failed
    BY <1>2, <1>3, <2>2, <2>3 DEF Sweeps, ProcState
  <2>5. Sweeps(w, q)
    BY <1>2, <1>3, <2>2, <2>4 DEF Sweeps
  <2>6. Become(w, q)
    BY <1>2, <1>4, <2>1, <2>3
  <2> QED
    BY <1>2, <2>4, <2>5, <2>6, AtRest, ProcReads
<1>5. CASE p.phase # "retry"
  <2>1. PICK due : due = DueRows(p.phase, p.now)
    OBVIOUS
  <2>2. due \in SUBSET (Task \X Time) /\ \A d \in due : d[2] <= p.now
    BY <2>1 DEF DueRows, Due
  <2>3. PICK q : q = [p EXCEPT !.pc = "batch", !.due = due]
    OBVIOUS
  <2>4. /\ q \in ProcState /\ q.pc = "batch" /\ q.phase = p.phase /\ q.now = p.now
        /\ q.due = due /\ q.failed = {}
    BY <1>2, <1>3, <2>2, <2>3 DEF Sweeps, ProcState
  <2>5. Sweeps(w, q)
    BY <1>2, <1>3, <1>5, <2>2, <2>4 DEF Sweeps
  <2>6. Become(w, q)
    BY <1>2, <1>5, <2>1, <2>3
  <2> QED
    BY <1>2, <2>4, <2>5, <2>6, AtRest, ProcReads
<1> QED
  BY <1>4, <1>5

LEMMA EndKeepsOne == ASSUME DeliveryInv, NEW w \in Proc, EndBatch(w) PROVE DeliveryInv'
<1>1. PICK p : p = proc[w]
  OBVIOUS
<1>2. /\ p.pc = "batch" /\ p.due = {} /\ p.failed = {} /\ UNCHANGED <<vars, ledger, notified>>
      /\ Become(w, IF p.phase = "retry" THEN Resting
                   ELSE [p EXCEPT !.pc = "reading", !.phase = NextPhase(p.phase)])
      /\ Sweeps(w, p) /\ clock \in Time
  BY <1>1, KnownProc DEF EndBatch
<1>3. w \notin Operator /\ p.phase \in Field \cup {"retry"}
  BY <1>2 DEF Sweeps, Attempting
<1>4. CASE p.phase = "retry"
  <2>1. Become(w, Resting)
    BY <1>2, <1>4
  <2>2. Sweeps(w, Resting) /\ Delivers(Resting) /\ ~Handling(Resting)
    BY <1>2, RestingFits DEF Handling
  <2> QED
    BY <1>2, <2>1, <2>2, ProcReads
<1>5. CASE p.phase # "retry"
  <2>1. PICK phase : phase = NextPhase(p.phase)
    OBVIOUS
  <2>2. phase \in Field \cup {"retry"}
    BY <1>3, <1>5, <2>1 DEF NextPhase, Field
  <2>3. PICK q : q = [p EXCEPT !.pc = "reading", !.phase = phase]
    OBVIOUS
  <2>4. /\ q \in ProcState /\ q.pc = "reading" /\ q.phase = phase /\ q.now = p.now
        /\ q.due = {} /\ q.failed = {}
    BY <1>2, <2>2, <2>3 DEF Sweeps, ProcState
  <2>5. Sweeps(w, q)
    BY <1>2, <1>3, <2>2, <2>4 DEF Sweeps
  <2>6. Become(w, q)
    BY <1>2, <1>5, <2>1, <2>3
  <2> QED
    BY <1>2, <2>4, <2>5, <2>6, AtRest, ProcReads
<1> QED
  BY <1>4, <1>5

LEMMA SkipKeepsOne ==
  ASSUME DeliveryInv, NEW w \in Proc, NEW t \in Task, NEW i \in Time, SkipDue(w, t, i)
  PROVE  DeliveryInv'
<1>1. PICK p : p = proc[w]
  OBVIOUS
<1>2. PICK due : due = p.due \ {<<t, i>>}
  OBVIOUS
<1>3. PICK q : q = [p EXCEPT !.due = due]
  OBVIOUS
<1>4. /\ p.pc = "batch" /\ UNCHANGED <<vars, ledger, notified>> /\ Become(w, q) /\ Sweeps(w, p)
      /\ due \subseteq p.due
  BY <1>1, <1>2, <1>3, KnownProc DEF SkipDue
<1>5. /\ q \in ProcState /\ q.pc = "batch" /\ q.phase = p.phase /\ q.now = p.now
      /\ q.due = due /\ q.failed = p.failed
  BY <1>3, <1>4 DEF Sweeps, ProcState
<1>6. Sweeps(w, q)
  BY <1>4, <1>5 DEF Sweeps, Attempting
<1> QED
  BY <1>4, <1>5, <1>6, AtRest, ProcReads

LEMMA RecheckKeepsOne == ASSUME DeliveryInv, NEW w \in Proc, Recheck(w) PROVE DeliveryInv'
<1>1. PICK p : p = proc[w]
  OBVIOUS
<1>2. PICK user : user = Recipient(p.task)
  OBVIOUS
<1>3. PICK q : q = [p EXCEPT !.pc = "cleared", !.user = user]
  OBVIOUS
<1>4. /\ p.pc = "claimed" /\ UNCHANGED <<vars, ledger, notified>> /\ Sweeps(w, p) /\ Delivers(p)
      /\ \/ user # Null /\ Become(w, q)
         \/ Become(w, NextItem(w))
  BY <1>1, <1>2, <1>3, KnownProc DEF Recheck
<1>5. CASE Become(w, NextItem(w))
  BY <1>1, <1>4, <1>5, NextItemFits, ProcReads
<1>6. CASE user # Null /\ Become(w, q)
  <2>1. p.task \in Task /\ task[p.task] \in Row
    BY <1>4 DEF Delivers, Handling, DeliveryInv, IInv, TypeOK
  <2>2. user \in User
    BY <1>2, <1>6, <2>1, DeliveryAssumption DEF Recipient, Row
  <2>3. /\ q \in ProcState /\ q.pc = "cleared" /\ q.phase = p.phase /\ q.now = p.now
        /\ q.due = p.due /\ q.failed = p.failed /\ q.task = p.task /\ q.field = p.field
        /\ q.at = p.at /\ q.user = user
    BY <1>3, <1>4, <2>2 DEF Sweeps, ProcState
  <2>4. Sweeps(w, q)
    BY <1>4, <2>3 DEF Sweeps, Attempting
  <2>5. Handling(p) /\ FiredOf(q) = FiredOf(p) /\ ~Attempting(q)
    BY <1>4, <2>3 DEF Handling, FiredOf, Attempting
  <2>6. Delivers(q)
    BY <1>4, <2>2, <2>3, <2>5 DEF Delivers
  <2> QED
    BY <1>1, <1>4, <1>6, <2>4, <2>5, <2>6, ProcReads
<1> QED
  BY <1>4, <1>5, <1>6

LEMMA SendKeepsOne ==
  ASSUME DeliveryInv, NEW w \in Proc, NEW accepted \in BOOLEAN, NEW outcome \in {"sent", "failed"},
         Send(w, accepted, outcome)
  PROVE  DeliveryInv'
<1>1. PICK p : p = proc[w]
  OBVIOUS
<1>2. PICK q : q = [p EXCEPT !.pc = "answered", !.outcome = outcome]
  OBVIOUS
<1>3. /\ p.pc = "sending" /\ UNCHANGED <<vars, ledger, notified>> /\ Become(w, q)
      /\ Sweeps(w, p) /\ Delivers(p)
  BY <1>1, <1>2, KnownProc DEF Send
<1>4. /\ q \in ProcState /\ q.pc = "answered" /\ q.phase = p.phase /\ q.now = p.now
      /\ q.due = p.due /\ q.failed = p.failed /\ q.task = p.task /\ q.field = p.field
      /\ q.at = p.at /\ q.user = p.user /\ q.outcome = outcome
  BY <1>2, <1>3 DEF Sweeps, ProcState
<1>5. Sweeps(w, q)
  BY <1>3, <1>4 DEF Sweeps, Attempting
<1>6. Delivers(q) /\ ~Handling(q)
  BY <1>3, <1>4 DEF Delivers, Handling, Attempting, KeyOf
<1> QED
  BY <1>3, <1>5, <1>6, ProcReads

\* To retry is to take up a key of the ledger.
LEMMA DeliveringFits ==
  ASSUME DeliveryInv, NEW w \in Proc, NEW p, Sweeps(w, p), NEW k \in Key, Opened(k),
         w \notin Operator => p.phase \in Field \cup {"retry"}, p.pc # "reading"
  PROVE  LET q == Delivering(p, k) IN Sweeps(w, q) /\ Delivers(q) /\ ~Handling(q)
<1>1. PICK t \in Task, f \in Field, i \in Time, u \in User : k = << <<t, f, i>>, u >>
  BY DEF Key, Fired
<1>2. PICK q : q = [p EXCEPT !.pc = "retrying", !.task = t, !.field = f, !.at = i, !.user = u]
  OBVIOUS
<1>3. /\ q \in ProcState /\ q.pc = "retrying" /\ q.phase = p.phase /\ q.now = p.now
      /\ q.due = p.due /\ q.failed = p.failed /\ q.task = t /\ q.field = f /\ q.at = i /\ q.user = u
  BY <1>2 DEF Sweeps, ProcState
<1>4. q = Delivering(p, k)
  BY <1>1, <1>2 DEF Delivering
<1>5. Sweeps(w, q)
  BY <1>3 DEF Sweeps, Attempting
<1>6. Delivers(q) /\ ~Handling(q)
  BY <1>1, <1>3 DEF Delivers, Handling, Attempting, KeyOf
<1> QED
  BY <1>4, <1>5, <1>6

LEMMA PickKeepsOne ==
  ASSUME DeliveryInv, NEW w \in Proc, NEW k \in Key, PickFailed(w, k) PROVE DeliveryInv'
<1>1. PICK p : p = proc[w]
  OBVIOUS
<1>2. PICK failed : failed = p.failed \ {k}
  OBVIOUS
<1>3. PICK q : q = [p EXCEPT !.failed = failed]
  OBVIOUS
<1>4. /\ p.pc = "batch" /\ k \in p.failed /\ UNCHANGED <<vars, ledger, notified>>
      /\ Become(w, Delivering(q, k)) /\ Sweeps(w, p) /\ failed \subseteq p.failed
      /\ p.failed \in SUBSET Key
  BY <1>1, <1>2, <1>3, KnownProc DEF PickFailed
<1>5. /\ q \in ProcState /\ q.pc = "batch" /\ q.phase = p.phase /\ q.now = p.now
      /\ q.due = p.due /\ q.failed = failed
  BY <1>3, <1>4 DEF Sweeps, ProcState
<1>6. Sweeps(w, q) /\ Opened(k) /\ (w \notin Operator => q.phase \in Field \cup {"retry"})
  BY <1>4, <1>5 DEF Sweeps, Attempting
<1>7. Sweeps(w, Delivering(q, k)) /\ Delivers(Delivering(q, k)) /\ ~Handling(Delivering(q, k))
  BY <1>5, <1>6, DeliveringFits
<1> QED
  BY <1>4, <1>7, ProcReads

LEMMA OperatorKeepsOne ==
  ASSUME DeliveryInv, NEW w \in Proc, NEW k \in Key, OperatorRetry(w, k) PROVE DeliveryInv'
<1>1. /\ w \in Operator /\ Opened(k) /\ UNCHANGED <<vars, ledger, notified>>
      /\ Become(w, Delivering(Resting, k)) /\ clock \in Time
  BY KnownProc DEF OperatorRetry, Opened
<1>2. Sweeps(w, Resting) /\ Resting.pc # "reading"
  BY <1>1, RestingFits
<1>3. /\ Sweeps(w, Delivering(Resting, k)) /\ Delivers(Delivering(Resting, k))
      /\ ~Handling(Delivering(Resting, k))
  BY <1>1, <1>2, DeliveringFits
<1> QED
  BY <1>1, <1>3, ProcReads

LEMMA CrashKeepsOne == ASSUME DeliveryInv, NEW w \in Proc, Crash(w) PROVE DeliveryInv'
<1>1. Become(w, Resting) /\ UNCHANGED <<vars, ledger, notified>> /\ clock \in Time
  BY KnownProc DEF Crash
<1>2. Sweeps(w, Resting) /\ Delivers(Resting) /\ ~Handling(Resting)
  BY <1>1, RestingFits DEF Handling
<1> QED
  BY <1>1, <1>2, ProcReads

\* A row of the ledger is updated.
LEMMA RowUpdated ==
  ASSUME DeliveryInv, NEW k \in Key, Opened(k), NEW row \in LedgerRow, row.status # "none",
         ledger' = [ledger EXCEPT ![k] = row]
  PROVE  /\ ledger' \in [Key -> LedgerRow]
         /\ \A j \in Key : ledger'[j].status = "none" <=> ledger[j].status = "none"
BY DEF DeliveryInv, LedgerOK, Opened

LEMMA SettleKeepsOne == ASSUME DeliveryInv, NEW w \in Proc, Settle(w) PROVE DeliveryInv'
<1>1. PICK p, k : p = proc[w] /\ k = KeyOf(p)
  OBVIOUS
<1>2. PICK row : row = [status |-> p.outcome, attempts |-> ledger[k].attempts + 1, at |-> clock]
  OBVIOUS
<1>3. /\ p.pc = "answered" /\ UNCHANGED <<vars, notified>> /\ Become(w, NextItem(w))
      /\ ledger' = [ledger EXCEPT ![k] = row]
      /\ Sweeps(w, p) /\ Delivers(p) /\ clock \in Time
  BY <1>1, <1>2, KnownProc DEF Settle
<1>4. k \in Key /\ Opened(k) /\ p.outcome \in {"sent", "failed"}
  BY <1>1, <1>3, KnownProc, KeyParts DEF Delivers, Attempting, KeyOf
<1>5. ledger[k].attempts \in Nat
  BY <1>4 DEF DeliveryInv, LedgerOK, LedgerRow
<1>6. row \in LedgerRow /\ row.status # "none"
  BY <1>2, <1>3, <1>4, <1>5 DEF LedgerRow
<1>7. /\ ledger' \in [Key -> LedgerRow]
      /\ \A j \in Key : ledger'[j].status = "none" <=> ledger[j].status = "none"
  BY <1>3, <1>4, <1>6, RowUpdated
<1>8. Sweeps(w, NextItem(w)) /\ Delivers(NextItem(w)) /\ ~Handling(NextItem(w))
  BY <1>1, <1>3, NextItemFits
<1> QED
  BY <1>3, <1>7, <1>8, ProcGoesOn

LEMMA RedeliverKeepsOne == ASSUME DeliveryInv, NEW w \in Proc, Redeliver(w) PROVE DeliveryInv'
<1>1. PICK p, k : p = proc[w] /\ k = KeyOf(p)
  OBVIOUS
<1>2. PICK row : row = [status |-> "suppressed", attempts |-> ledger[k].attempts, at |-> clock]
  OBVIOUS
<1>3. PICK q : q = [p EXCEPT !.pc = "sending"]
  OBVIOUS
<1>4. /\ p.pc = "retrying" /\ UNCHANGED <<vars, notified>>
      /\ \/ ledger' = ledger /\ Become(w, q)
         \/ ledger' = [ledger EXCEPT ![k] = row] /\ Become(w, NextItem(w))
      /\ Sweeps(w, p) /\ Delivers(p) /\ clock \in Time
  BY <1>1, <1>2, <1>3, KnownProc DEF Redeliver
<1>5. k \in Key /\ Opened(k)
  BY <1>1, <1>4, KnownProc, KeyParts DEF Delivers, Attempting, KeyOf
<1>6. CASE ledger' = ledger /\ Become(w, q)
  <2>1. /\ q \in ProcState /\ q.pc = "sending" /\ q.phase = p.phase /\ q.now = p.now
        /\ q.due = p.due /\ q.failed = p.failed /\ q.task = p.task /\ q.field = p.field
        /\ q.at = p.at /\ q.user = p.user
    BY <1>3, <1>4 DEF Sweeps, ProcState
  <2>2. Sweeps(w, q)
    BY <1>4, <2>1 DEF Sweeps, Attempting
  <2>3. Delivers(q) /\ ~Handling(q)
    BY <1>4, <2>1 DEF Delivers, Handling, Attempting, KeyOf
  <2> QED
    BY <1>4, <1>6, <2>2, <2>3, ProcReads
<1>7. CASE ledger' = [ledger EXCEPT ![k] = row] /\ Become(w, NextItem(w))
  <2>1. ledger[k].attempts \in Nat
    BY <1>5 DEF DeliveryInv, LedgerOK, LedgerRow
  <2>2. row \in LedgerRow /\ row.status # "none"
    BY <1>2, <1>4, <2>1 DEF LedgerRow
  <2>3. /\ ledger' \in [Key -> LedgerRow]
        /\ \A j \in Key : ledger'[j].status = "none" <=> ledger[j].status = "none"
    BY <1>5, <1>7, <2>2, RowUpdated
  <2>4. Sweeps(w, NextItem(w)) /\ Delivers(NextItem(w)) /\ ~Handling(NextItem(w))
    BY <1>1, <1>4, NextItemFits
  <2> QED
    BY <1>4, <1>7, <2>3, <2>4, ProcGoesOn
<1> QED
  BY <1>4, <1>6, <1>7

\* The sweep that clears the instant it read is the one that delivers it.
LEMMA ClaimKeepsOne ==
  ASSUME DeliveryInv, NEW w \in Proc, NEW t \in Task, NEW i \in Time, ClaimDue(w, t, i)
  PROVE  DeliveryInv'
<1>1. PICK p : p = proc[w]
  OBVIOUS
<1>2. PICK due, f : due = p.due \ {<<t, i>>} /\ f = p.phase
  OBVIOUS
<1>3. PICK q : q = [p EXCEPT !.pc = "claimed", !.due = due, !.task = t, !.field = f, !.at = i]
  OBVIOUS
<1>4. /\ p.pc = "batch" /\ <<t, i>> \in p.due /\ Claim(t, f, i) /\ Become(w, q)
      /\ UNCHANGED <<ledger, notified>> /\ Sweeps(w, p) /\ clock \in Int /\ due \subseteq p.due
  BY <1>1, <1>2, <1>3, KnownProc, ScheduleAssumption DEF ClaimDue, Time
<1>5. f \in Field /\ w \notin Operator /\ i <= p.now /\ p.now <= clock /\ p.now \in Int /\ i \in Int
  BY <1>2, <1>4, ScheduleAssumption DEF Sweeps, Attempting, ProcState, Time
<1>6. i <= clock /\ Live(t) /\ task[t].schedule[f] = i /\ i # Null
  BY <1>4, <1>5, ScheduleAssumption DEF Claim, Time
<1>7. Next
  BY <1>4, <1>5, <1>6 DEF Next, ClaimStep, Due
<1>8. IInv' /\ Fresh' /\ Moved
  BY <1>7, ScheduleMoves DEF DeliveryInv
<1>9. UNCHANGED clock /\ ~Spent(t, f, i) /\ Spent(t, f, i)'
  <2>1. task[t] \in Row /\ task[t].schedule \in Schedule /\ task \in [Task -> Row]
    BY DEF DeliveryInv, IInv, TypeOK, Row
  <2>2. PICK cleared : cleared = [task[t].schedule EXCEPT ![f] = Null]
    OBVIOUS
  <2>3. cleared[f] = Null
    BY <1>5, <2>1, <2>2 DEF Schedule
  <2>4. PICK row : row = [task[t] EXCEPT !.schedule = cleared]
    OBVIOUS
  <2>5. row.schedule = cleared /\ row.life = task[t].life
    BY <2>1, <2>4 DEF Row
  <2>6. task'[t] = row /\ clock' = clock
    BY <1>4, <2>1, <2>2, <2>4 DEF Claim
  <2> QED
    BY <1>6, <2>3, <2>5, <2>6 DEF Spent, Live
<1>10. \A k : Opened(k)' = Opened(k)
  BY <1>4 DEF Opened
<1>11. proc' = [v \in Proc |-> IF v = w THEN q ELSE proc[v]]
  BY <1>4 DEF DeliveryInv, Become
<1>12. proc'[w] = q /\ \A v \in Proc : v # w => proc'[v] = proc[v]
  BY <1>11
<1>13. /\ q \in ProcState /\ q.pc = "claimed" /\ q.phase = f /\ q.now = p.now /\ q.due = due
       /\ q.failed = p.failed /\ q.task = t /\ q.field = f /\ q.at = i
  BY <1>2, <1>3, <1>4, <1>5 DEF Sweeps, ProcState
<1>14. Sweeps(w, q)
  BY <1>2, <1>4, <1>5, <1>13 DEF Sweeps, Field
<1>15. FiredOf(q) = <<t, f, i>> /\ Handling(q) /\ ~Attempting(q)
  BY <1>13 DEF FiredOf, Handling, Attempting
<1>16. \A k \in Key : k[1] = <<t, f, i>> => ~Opened(k)
  <2> SUFFICES ASSUME NEW k \in Key, k[1] = <<t, f, i>>, Opened(k) PROVE FALSE
    OBVIOUS
  <2>1. PICK u \in User : k = << <<t, f, i>>, u >>
    BY DEF Key, Fired
  <2>2. Spent(t, f, i)
    BY <1>5, <2>1 DEF DeliveryInv, LedgerOK
  <2> QED
    BY <1>9, <2>2
<1>17. \A v \in Proc : Handling(proc[v]) => FiredOf(proc[v]) # <<t, f, i>>
  <2> SUFFICES ASSUME NEW v \in Proc, Handling(proc[v]), FiredOf(proc[v]) = <<t, f, i>>
               PROVE  FALSE
    OBVIOUS
  <2>1. Spent(proc[v].task, proc[v].field, proc[v].at)
    BY KnownProc DEF Delivers
  <2>2. proc[v].task = t /\ proc[v].field = f /\ proc[v].at = i
    BY DEF FiredOf
  <2> QED
    BY <1>9, <2>1, <2>2
<1>18. ASSUME NEW v \in Proc PROVE Sweeps(v, proc[v])' /\ Delivers(proc[v])'
  <2>1. CASE v = w
    <3>1. Sweeps(v, proc[v])'
      BY <1>9, <1>10, <1>12, <1>14, <2>1 DEF Sweeps
    <3>2. Spent(q.task, q.field, q.at)'
      BY <1>9, <1>13
    <3>3. Delivers(proc[v])'
      BY <1>5, <1>10, <1>12, <1>13, <1>15, <1>16, <2>1, <3>2
      DEF Delivers, Handling, Attempting, FiredOf, Spent
    <3> QED
      BY <3>1, <3>3
  <2>2. CASE v # w
    <3>1. proc'[v] = proc[v]
      BY <1>12, <2>2
    <3>2. Sweeps(v, proc[v])'
      BY <1>9, <1>10, <3>1, KnownProc DEF Sweeps
    <3>3. CASE Handling(proc[v])
      <4>1. /\ proc[v].task \in Task /\ proc[v].field \in Field /\ proc[v].at \in Time
            /\ Spent(proc[v].task, proc[v].field, proc[v].at)
        BY <3>3, KnownProc DEF Delivers
      <4>2. PICK s \in Task, g \in Field, j \in Time :
              s = proc[v].task /\ g = proc[v].field /\ j = proc[v].at
        BY <4>1
      <4>3. Spent(s, g, j)'
        BY <1>8, <4>1, <4>2, SpentStays DEF DeliveryInv
      <4>4. \A k \in Key : k[1] = FiredOf(proc[v]) => ~Opened(k)'
        BY <1>10, <3>3, KnownProc DEF Delivers
      <4>5. ~Attempting(proc[v])
        BY <3>3 DEF Attempting, Handling
      <4>6. Delivers(proc[v])'
        BY <3>1, <3>3, <4>2, <4>3, <4>4, <4>5, KnownProc
        DEF Delivers, Handling, Attempting, FiredOf, Spent
      <4> QED
        BY <3>2, <4>6
    <3>4. CASE ~Handling(proc[v])
      <4>1. Delivers(proc[v])'
        BY <1>10, <3>1, <3>4, KnownProc DEF Delivers, Handling, Attempting, KeyOf
      <4> QED
        BY <3>2, <4>1
    <3> QED
      BY <3>3, <3>4
  <2> QED
    BY <2>1, <2>2
<1>19. Alone'
  <2> SUFFICES ASSUME NEW u \in Proc, NEW v \in Proc, Handling(proc'[u]), Handling(proc'[v]),
                      FiredOf(proc'[u]) = FiredOf(proc'[v])
               PROVE  u = v
    BY DEF Alone, Handling, FiredOf
  <2> QED
    BY <1>12, <1>15, <1>17 DEF DeliveryInv, Alone
<1>20. LedgerOK'
  <2>1. ASSUME NEW s \in Task, NEW g \in Field, NEW j \in Time, NEW u \in User,
               Opened(<< <<s, g, j>>, u >>)
        PROVE  Spent(s, g, j)'
    <3>1. Spent(s, g, j)
      BY <2>1 DEF DeliveryInv, LedgerOK
    <3> QED
      BY <1>8, <3>1, SpentStays DEF DeliveryInv
  <2> QED
    BY <1>4, <1>10, <2>1 DEF DeliveryInv, LedgerOK
<1>21. proc' = [v \in Proc |-> proc'[v]]
  BY <1>11
<1> QED
  BY <1>8, <1>18, <1>19, <1>20, <1>21 DEF DeliveryInv

\* Whoever claimed a schedule opens its key, the first of that schedule.
LEMMA RecordKeepsOne == ASSUME DeliveryInv, NEW w \in Proc, Record(w) PROVE DeliveryInv'
<1>1. PICK p, k : p = proc[w] /\ k = KeyOf(p)
  OBVIOUS
<1>2. PICK row : row = [status |-> "pending", attempts |-> 0, at |-> clock]
  OBVIOUS
<1>3. PICK q : q = [p EXCEPT !.pc = "sending"]
  OBVIOUS
<1>4. /\ p.pc = "cleared" /\ UNCHANGED vars /\ Sweeps(w, p) /\ Delivers(p) /\ clock \in Time
  BY <1>1, KnownProc DEF Record
<1>5. PICK t \in Task, f \in Field, i \in Time, u \in User :
        t = p.task /\ f = p.field /\ i = p.at /\ u = p.user
  BY <1>4 DEF Delivers, Handling, Sweeps, ProcState
<1>6. /\ k = << <<t, f, i>>, u >> /\ k \in Key /\ k[1] = <<t, f, i>> /\ FiredOf(p) = k[1]
      /\ Handling(p)
  BY <1>1, <1>4, <1>5, KeyParts DEF KeyOf, FiredOf, Handling
<1>7. Spent(t, f, i) /\ \A j \in Key : j[1] = k[1] => ~Opened(j)
  BY <1>4, <1>5, <1>6 DEF Delivers
<1>8. ledger[k].status = "none"
  BY <1>6, <1>7 DEF Opened
<1>9. /\ ledger' = [ledger EXCEPT ![k] = row] /\ notified' \subseteq notified \cup {k}
      /\ Become(w, q)
  BY <1>1, <1>2, <1>3, <1>8 DEF Record
<1>10. row \in LedgerRow /\ row.status = "pending"
  BY <1>2, <1>4 DEF LedgerRow
<1>11. ledger' \in [Key -> LedgerRow] /\ ledger'[k] = row
       /\ \A j \in Key : j # k => ledger'[j] = ledger[j]
  BY <1>6, <1>9, <1>10 DEF DeliveryInv, LedgerOK
<1>12. Opened(k)' /\ \A j \in Key : j # k => Opened(j)' = Opened(j)
  BY <1>10, <1>11 DEF Opened
<1>13. \A j \in Key : Opened(j) => Opened(j)'
  BY <1>12
<1>14. /\ q \in ProcState /\ q.pc = "sending" /\ q.phase = p.phase /\ q.now = p.now
       /\ q.due = p.due /\ q.failed = p.failed /\ q.task = t /\ q.field = f
       /\ q.at = i /\ q.user = u
  BY <1>3, <1>4, <1>5 DEF Sweeps, ProcState
<1>15. Sweeps(w, q)
  BY <1>4, <1>14 DEF Sweeps, Attempting
<1>16. proc' = [v \in Proc |-> IF v = w THEN q ELSE proc[v]]
  BY <1>9 DEF DeliveryInv, Become
<1>17. proc'[w] = q /\ \A v \in Proc : v # w => proc'[v] = proc[v]
  BY <1>16
<1>18. IInv' /\ Fresh'
  BY <1>4 DEF vars, DeliveryInv, IInv, TypeOK, Fresh, Creating
<1>19. ASSUME NEW s, NEW g, NEW j PROVE Spent(s, g, j)' = Spent(s, g, j)
  BY <1>4 DEF vars, Spent
<1>20. clock' = clock
  BY <1>4 DEF vars
<1>21. ASSUME NEW v \in Proc PROVE Sweeps(v, proc[v])'
  <2>1. PICK r : r = proc'[v]
    OBVIOUS
  <2>2. Sweeps(v, r) /\ r.failed \in SUBSET Key
    BY <1>15, <1>17, <2>1, KnownProc DEF Sweeps, ProcState
  <2> QED
    BY <1>13, <1>20, <2>1, <2>2 DEF Sweeps
<1>22. KeyOf(q) = k /\ ~Handling(q)
  BY <1>6, <1>14 DEF KeyOf, Handling
<1>23. Delivers(proc[w])'
  BY <1>12, <1>14, <1>17, <1>22 DEF Delivers, Handling, Attempting
<1>24. ASSUME NEW v \in Proc, v # w PROVE Delivers(proc[v])'
  <2>1. proc'[v] = proc[v] /\ Delivers(proc[v])
    BY <1>17, <1>24, KnownProc
  <2>2. CASE Handling(proc[v])
    <3>1. FiredOf(proc[v]) # k[1]
      BY <1>1, <1>6, <1>24, <2>2 DEF DeliveryInv, Alone
    <3>2. \A j \in Key : j[1] = FiredOf(proc[v]) => ~Opened(j)'
      BY <1>12, <2>1, <2>2, <3>1 DEF Delivers
    <3>3. ~Attempting(proc[v])
      BY <2>2 DEF Handling, Attempting
    <3>4. Spent(proc[v].task, proc[v].field, proc[v].at)'
      BY <1>19, <2>1, <2>2 DEF Delivers
    <3> QED
      BY <2>1, <2>2, <3>2, <3>3, <3>4 DEF Delivers, Handling, Attempting, FiredOf, Spent
  <2>3. CASE ~Handling(proc[v])
    <3>1. Attempting(proc[v]) => KeyOf(proc[v]) \in Key
      BY <2>1, KnownProc, KeyParts DEF Delivers, KeyOf
    <3>2. Attempting(proc[v]) => Opened(KeyOf(proc[v]))'
      BY <1>13, <2>1, <3>1 DEF Delivers
    <3> QED
      BY <2>1, <2>3, <3>2 DEF Delivers, Handling, Attempting, KeyOf
  <2> QED
    BY <2>2, <2>3
<1>25. Alone'
  <2> SUFFICES ASSUME NEW a \in Proc, NEW v \in Proc, Handling(proc'[a]), Handling(proc'[v]),
                      FiredOf(proc'[a]) = FiredOf(proc'[v])
               PROVE  a = v
    BY DEF Alone, Handling, FiredOf
  <2> QED
    BY <1>17, <1>22 DEF DeliveryInv, Alone
<1>26. LedgerOK'
  <2>1. notified' \subseteq Key /\ \A j \in notified' : Opened(j)'
    BY <1>6, <1>9, <1>12, <1>13 DEF DeliveryInv, LedgerOK
  <2>2. ASSUME NEW s \in Task, NEW g \in Field, NEW j \in Time, NEW a \in User,
               Opened(<< <<s, g, j>>, a >>)'
        PROVE  Spent(s, g, j)'
    <3>1. CASE << <<s, g, j>>, a >> = k
      BY <1>6, <1>7, <1>19, <3>1
    <3>2. CASE << <<s, g, j>>, a >> # k
      <4>1. Opened(<< <<s, g, j>>, a >>)
        BY <1>12, <2>2, <3>2, KeyParts
      <4> QED
        BY <1>19, <4>1 DEF DeliveryInv, LedgerOK
    <3> QED
      BY <3>1, <3>2
  <2>3. ASSUME NEW j \in Key, NEW l \in Key, Opened(j)', Opened(l)', j[1] = l[1]
        PROVE  j = l
    BY <1>7, <1>12, <2>3 DEF DeliveryInv, LedgerOK
  <2> QED
    BY <1>11, <2>1, <2>2, <2>3 DEF LedgerOK
<1>27. proc' = [v \in Proc |-> proc'[v]]
  BY <1>16
<1> QED
  BY <1>18, <1>21, <1>23, <1>24, <1>25, <1>26, <1>27 DEF DeliveryInv

-------------------------------------------------------------------------------
(* One recipient *)

LEMMA ReopensKept == ASSUME IInv, Reopens, [DeliveryNext]_deliveryVars PROVE Reopens'
<1>1. CASE RestoreWorkspaceRead
  <2>1. task \in [Task -> Row]
    BY DEF IInv, TypeOK
  <2>2. RowsToPlan \in [Task -> Row \cup {Null}]
    BY <2>1 DEF RowsToPlan
  <2>3. reopening'.rows = RowsToPlan
    BY <1>1 DEF RestoreWorkspaceRead
  <2> QED
    BY <2>2, <2>3 DEF Reopens
<1>2. CASE reopening' \in {reopening, Null}
  BY <1>2 DEF Reopens
<1>3. ASSUME NEW w \in Proc, ProcStep(w) PROVE reopening' = reopening
  BY <1>3 DEF ProcStep, Progress, StartSweep, ReadBatch, EndBatch, ClaimDue, SkipDue, Recheck,
              Record, Send, Settle, PickFailed, Redeliver, OperatorRetry, Crash, people
<1>4. CASE ScheduleStep \/ UNCHANGED deliveryVars
  BY <1>2, <1>4 DEF ScheduleStep, deliveryVars, people
<1> QED
  BY <1>1, <1>2, <1>3, <1>4 DEF DeliveryNext, Leave, People, SuspendWorkspace, DeleteWorkspace,
                                RestoreWorkspace, RestoreRollsBack

LEMMA DeliveryKeeps ==
  ASSUME DeliveryInv, Reopens, [DeliveryNext]_deliveryVars PROVE DeliveryInv'
<1>1. ASSUME NEW w \in Proc, ProcStep(w) PROVE DeliveryInv'
  BY <1>1, StartKeepsOne, ReadKeepsOne, EndKeepsOne, ClaimKeepsOne, SkipKeepsOne, RecheckKeepsOne,
     RecordKeepsOne, SendKeepsOne, SettleKeepsOne, PickKeepsOne, RedeliverKeepsOne,
     OperatorKeepsOne, CrashKeepsOne DEF ProcStep, Progress
<1>2. CASE ScheduleStep
  <2>1. Next /\ UNCHANGED <<proc, ledger, notified>>
    BY <1>2 DEF ScheduleStep, Next, delivery
  <2>2. IInv' /\ Fresh' /\ Moved
    BY <2>1, ScheduleMoves DEF DeliveryInv
  <2> QED
    BY <2>1, <2>2, UnderneathKeeps
<1>3. ASSUME NEW u \in User, Leave(u) PROVE DeliveryInv'
  <2>1. IInv' /\ Fresh' /\ Moved
    BY <1>3, LeaveMoves DEF DeliveryInv
  <2>2. UNCHANGED <<proc, ledger, notified>>
    BY <1>3 DEF Leave, delivery
  <2> QED
    BY <2>1, <2>2, UnderneathKeeps
<1>4. ASSUME UNCHANGED vars, UNCHANGED delivery PROVE DeliveryInv'
  <2>1. [Next]_vars
    BY <1>4
  <2>2. IInv' /\ Fresh' /\ Moved
    BY <2>1, ScheduleMoves DEF DeliveryInv
  <2>3. UNCHANGED <<proc, ledger, notified>>
    BY <1>4 DEF delivery
  <2> QED
    BY <2>2, <2>3, UnderneathKeeps
<1>5. ASSUME NEW op \in PeopleOps, NEW u \in User, People(op, u) PROVE DeliveryInv'
  BY <1>4, <1>5 DEF People
<1>6. CASE SuspendWorkspace \/ RestoreWorkspaceRead \/ RestoreRollsBack
  BY <1>4, <1>6 DEF SuspendWorkspace, RestoreWorkspaceRead, RestoreRollsBack
<1>7. CASE DeleteWorkspace \/ RestoreWorkspace
  <2>1. IInv' /\ Fresh' /\ Moved
    BY <1>7, DeleteMoves, ReopenMoves DEF DeliveryInv
  <2>2. UNCHANGED <<proc, ledger, notified>>
    BY <1>7 DEF DeleteWorkspace, RestoreWorkspace, delivery
  <2> QED
    BY <2>1, <2>2, UnderneathKeeps
<1>8. CASE UNCHANGED deliveryVars
  BY <1>4, <1>8 DEF deliveryVars
<1> QED
  BY <1>1, <1>2, <1>3, <1>5, <1>6, <1>7, <1>8 DEF DeliveryNext

LEMMA ReopensStart == DeliveryInit => Reopens
BY DEF DeliveryInit, Reopens

LEMMA DeliveryInvariant == DeliverySpec => []DeliveryInv
<1>1. DeliveryInv /\ Reopens /\ [DeliveryNext]_deliveryVars => DeliveryInv' /\ Reopens'
  BY DeliveryKeeps, ReopensKept DEF DeliveryInv
<1> QED
  BY <1>1, DeliveryStart, ReopensStart, PTL DEF DeliverySpec

\* However many instances sweep and operators retry, die and start again, while
\* tasks are edited and people come and go: a schedule is claimed once and
\* reaches one recipient (claimSchedule and deliver of taskReminder.ts).
THEOREM OneRecipient == DeliverySpec => []OneRecipientPerSchedule
<1>1. DeliveryInv => OneRecipientPerSchedule
  BY DEF DeliveryInv, LedgerOK, Opened, OneRecipientPerSchedule
<1> QED
  BY <1>1, DeliveryInvariant, PTL

-------------------------------------------------------------------------------
(* The promises of the ledger, when one process works on it *)

StatusOf(k) == ledger[k].status

\* What it read as failed still is, and what it attempts is still owed.
Careful(p) ==
    /\ \A k \in p.failed : StatusOf(k) = "failed"
    /\ Attempting(p) => KeyOf(p) \notin p.failed
    /\ p.pc = "retrying" => StatusOf(KeyOf(p)) = "failed"
    /\ p.pc \in {"sending", "answered"} => StatusOf(KeyOf(p)) \in {"pending", "failed"}
    /\ p.pc = "answered" /\ p.outcome = "sent" => mails[KeyOf(p)] > 0

CarefulInv ==
    /\ DeliveryInv /\ Reopens
    /\ mails \in [Key -> Nat]
    /\ \A w \in Proc : Careful(proc[w])

LEMMA CarefulStart == DeliveryInit => CarefulInv
<1> SUFFICES ASSUME DeliveryInit PROVE CarefulInv
  OBVIOUS
<1>1. \A w \in Proc : proc[w] = Resting
  BY DEF DeliveryInit
<1>2. Careful(Resting)
  BY DEF Careful, Attempting, Resting
<1>3. mails \in [Key -> Nat]
  BY DEF DeliveryInit
<1> QED
  BY <1>1, <1>2, <1>3, DeliveryStart, ReopensStart DEF CarefulInv

\* The row an attempting process works on.
LEMMA OwnKey ==
  ASSUME DeliveryInv, NEW w \in Proc, Handling(proc[w]) \/ Attempting(proc[w]), proc[w].pc # "claimed"
  PROVE  KeyOf(proc[w]) \in Key
<1>1. proc[w].task \in Task /\ proc[w].field \in Field /\ proc[w].user \in User
  BY KnownProc DEF Delivers, Handling
<1> QED
  BY <1>1, KnownProc, KeyParts DEF KeyOf

\* The one process goes on.
LEMMA CarefulGoesOn ==
  ASSUME CarefulInv, DeliveryInv', Reopens', \A v, w \in Proc : v = w, NEW w \in Proc, NEW q,
         Become(w, q), mails' \in [Key -> Nat], Careful(q)'
  PROVE  CarefulInv'
<1>1. proc' = [v \in Proc |-> IF v = w THEN q ELSE proc[v]]
  BY DEF CarefulInv, DeliveryInv, Become
<1>2. \A v \in Proc : proc'[v] = q
  BY <1>1
<1>3. \A v \in Proc : Careful(proc[v])'
  BY <1>2 DEF Careful, Attempting, KeyOf
<1> QED
  BY <1>3 DEF CarefulInv

LEMMA CarefulNextItem ==
  ASSUME CarefulInv, NEW w \in Proc, NEW q, q = NextItem(w),
         \A k \in Key : ledger'[k] = ledger[k] \/ k \notin proc[w].failed
  PROVE  Careful(q)'
<1>1. CASE w \in Operator
  BY <1>1 DEF NextItem, Careful, Attempting, Resting
<1>2. CASE w \notin Operator
  <2>1. q.pc = "batch" /\ q.failed = proc[w].failed
    BY <1>2 DEF NextItem, Resting
  <2>2. \A k \in q.failed : k \in Key /\ StatusOf(k) = "failed" /\ ledger'[k] = ledger[k]
    BY <2>1, KnownProc DEF CarefulInv, Careful
  <2> QED
    BY <2>1, <2>2 DEF Careful, Attempting, StatusOf
<1> QED
  BY <1>1, <1>2

\* Nothing is written or sent: what the steps of the sweep that only read keep.
LEMMA ReadingIsCareful ==
  ASSUME CarefulInv, DeliveryInv', Reopens', \A v, w \in Proc : v = w, NEW w \in Proc,
         UNCHANGED <<ledger, mails>>,
         \/ StartSweep(w) \/ ReadBatch(w) \/ EndBatch(w) \/ Recheck(w) \/ Crash(w)
         \/ \E t \in Task, i \in Time : ClaimDue(w, t, i) \/ SkipDue(w, t, i)
  PROVE  CarefulInv'
<1>0. Sweeps(w, proc[w]) /\ Careful(proc[w]) /\ mails' \in [Key -> Nat]
  BY KnownProc DEF CarefulInv
<1>1. ASSUME NEW q, Become(w, q), q.failed = {} \/ q.failed = proc[w].failed,
             q.pc \notin {"retrying", "sending", "answered"}
      PROVE  CarefulInv'
  <2>1. Careful(q)'
    BY <1>0, <1>1 DEF Careful, Attempting, StatusOf
  <2> QED
    BY <1>0, <1>1, <2>1, CarefulGoesOn
<1>2. ASSUME Become(w, Resting) PROVE CarefulInv'
  <2>1. Resting.failed = {} /\ Resting.pc = "idle"
    BY DEF Resting
  <2> QED
    BY <1>1, <1>2, <2>1
<1>3. ASSUME Become(w, NextItem(w)) PROVE CarefulInv'
  <2>1. PICK q : q = NextItem(w)
    OBVIOUS
  <2>2. Careful(q)'
    BY <2>1, CarefulNextItem
  <2> QED
    BY <1>0, <1>3, <2>1, <2>2, CarefulGoesOn
<1>4. PICK p : p = proc[w]
  OBVIOUS
<1>5. p \in ProcState
  BY <1>0, <1>4 DEF Sweeps
<1>6. CASE StartSweep(w)
  <2>1. PICK r : r = Resting
    OBVIOUS
  <2>2. PICK q : q = [r EXCEPT !.pc = "reading", !.phase = "remindAt", !.now = clock]
    OBVIOUS
  <2>3. q.failed = {} /\ q.pc = "reading"
    BY <2>1, <2>2 DEF Resting
  <2> QED
    BY <1>1, <1>6, <2>1, <2>2, <2>3 DEF StartSweep
<1>7. CASE ReadBatch(w)
  <2>1. CASE p.phase = "retry"
    <3>1. PICK failed : failed = FailedRows(p.now)
      OBVIOUS
    <3>2. PICK q : q = [p EXCEPT !.pc = "batch", !.failed = failed]
      OBVIOUS
    <3>3. q.pc = "batch" /\ q.failed = failed
      BY <1>5, <3>2 DEF ProcState
    <3>4. Become(w, q)
      BY <1>4, <1>7, <2>1, <3>1, <3>2 DEF ReadBatch
    <3>5. Careful(q)'
      BY <3>1, <3>3 DEF Careful, Attempting, StatusOf, FailedRows
    <3> QED
      BY <1>0, <3>4, <3>5, CarefulGoesOn
  <2>2. CASE p.phase # "retry"
    <3>1. PICK due : due = DueRows(p.phase, p.now)
      OBVIOUS
    <3>2. PICK q : q = [p EXCEPT !.pc = "batch", !.due = due]
      OBVIOUS
    <3>3. q.pc = "batch" /\ q.failed = p.failed
      BY <1>5, <3>2 DEF ProcState
    <3>4. Become(w, q)
      BY <1>4, <1>7, <2>2, <3>1, <3>2 DEF ReadBatch
    <3> QED
      BY <1>1, <1>4, <3>3, <3>4
  <2> QED
    BY <2>1, <2>2
<1>8. CASE EndBatch(w)
  <2>1. PICK phase : phase = NextPhase(p.phase)
    OBVIOUS
  <2>2. PICK q : q = [p EXCEPT !.pc = "reading", !.phase = phase]
    OBVIOUS
  <2>3. q.pc = "reading" /\ q.failed = p.failed
    BY <1>5, <2>2 DEF ProcState
  <2>4. Become(w, Resting) \/ Become(w, q)
    BY <1>4, <1>8, <2>1, <2>2 DEF EndBatch
  <2> QED
    BY <1>1, <1>2, <1>4, <2>3, <2>4
<1>9. CASE Recheck(w)
  <2>1. PICK user : user = Recipient(p.task)
    OBVIOUS
  <2>2. PICK q : q = [p EXCEPT !.pc = "cleared", !.user = user]
    OBVIOUS
  <2>3. q.pc = "cleared" /\ q.failed = p.failed
    BY <1>5, <2>2 DEF ProcState
  <2>4. Become(w, q) \/ Become(w, NextItem(w))
    BY <1>4, <1>9, <2>1, <2>2 DEF Recheck
  <2> QED
    BY <1>1, <1>3, <1>4, <2>3, <2>4
<1>10. ASSUME NEW t \in Task, NEW i \in Time, ClaimDue(w, t, i) PROVE CarefulInv'
  <2>1. PICK due, f : due = p.due \ {<<t, i>>} /\ f = p.phase
    OBVIOUS
  <2>2. PICK q : q = [p EXCEPT !.pc = "claimed", !.due = due, !.task = t, !.field = f, !.at = i]
    OBVIOUS
  <2>3. q.pc = "claimed" /\ q.failed = p.failed
    BY <1>5, <2>2 DEF ProcState
  <2>4. Become(w, q)
    BY <1>4, <1>10, <2>1, <2>2 DEF ClaimDue
  <2> QED
    BY <1>1, <1>4, <2>3, <2>4
<1>11. ASSUME NEW t \in Task, NEW i \in Time, SkipDue(w, t, i) PROVE CarefulInv'
  <2>1. PICK due : due = p.due \ {<<t, i>>}
    OBVIOUS
  <2>2. PICK q : q = [p EXCEPT !.due = due]
    OBVIOUS
  <2>3. q.pc = p.pc /\ q.failed = p.failed
    BY <1>5, <2>2 DEF ProcState
  <2>4. Become(w, q) /\ p.pc = "batch"
    BY <1>4, <1>11, <2>1, <2>2 DEF SkipDue
  <2> QED
    BY <1>1, <1>4, <2>3, <2>4
<1> QED
  BY <1>2, <1>6, <1>7, <1>8, <1>9, <1>10, <1>11 DEF Crash

\* To take up a failed row.
LEMMA RetryingIsCareful ==
  ASSUME CarefulInv, DeliveryInv', Reopens', \A v, w \in Proc : v = w, NEW w \in Proc, NEW p, p \in ProcState,
         NEW k \in Key, Become(w, Delivering(p, k)), UNCHANGED <<ledger, mails>>,
         \A j \in p.failed : StatusOf(j) = "failed", StatusOf(k) = "failed", k \notin p.failed
  PROVE  CarefulInv'
<1>1. PICK t \in Task, f \in Field, i \in Time, u \in User : k = << <<t, f, i>>, u >>
  BY DEF Key, Fired
<1>2. PICK q : q = [p EXCEPT !.pc = "retrying", !.task = t, !.field = f, !.at = i, !.user = u]
  OBVIOUS
<1>3. q.pc = "retrying" /\ q.failed = p.failed /\ KeyOf(q) = k
  BY <1>1, <1>2 DEF ProcState, KeyOf
<1>4. Become(w, q)
  BY <1>1, <1>2 DEF Delivering
<1>5. Careful(q)'
  BY <1>3 DEF Careful, StatusOf
<1>6. mails' \in [Key -> Nat]
  BY DEF CarefulInv
<1> QED
  BY <1>4, <1>5, <1>6, CarefulGoesOn

\* A row of the ledger takes a new status.
LEMMA StatusWritten ==
  ASSUME ledger \in [Key -> LedgerRow], NEW k \in Key, NEW row \in LedgerRow,
         ledger' = [ledger EXCEPT ![k] = row]
  PROVE  /\ [j \in Key |-> ledger'[j].status]
              = [[j \in Key |-> ledger[j].status] EXCEPT ![k] = row.status]
         /\ ledger'[k] = row /\ \A j \in Key : j # k => ledger'[j] = ledger[j]
OBVIOUS

\* The steps that write or send are the steps of EmailLedger.
LEMMA RecordIsOpen ==
  ASSUME CarefulInv, DeliveryInv', Reopens', \A v, w \in Proc : v = w, NEW w \in Proc, Record(w)
  PROVE  CarefulInv' /\ \E k \in Key : Ledger!Open(k)
<1>1. PICK p, k : p = proc[w] /\ k = KeyOf(p)
  OBVIOUS
<1>2. PICK row : row = [status |-> "pending", attempts |-> 0, at |-> clock]
  OBVIOUS
<1>3. PICK q : q = [p EXCEPT !.pc = "sending"]
  OBVIOUS
<1>4. /\ p.pc = "cleared" /\ Careful(p) /\ Delivers(p) /\ p \in ProcState /\ clock \in Time
      /\ ledger \in [Key -> LedgerRow] /\ mails \in [Key -> Nat] /\ UNCHANGED mails
  BY <1>1, KnownProc DEF Record, CarefulInv, DeliveryInv, LedgerOK
<1>5. k \in Key /\ k[1] = FiredOf(p)
  BY <1>1, <1>4, OwnKey DEF CarefulInv, Handling, KeyOf, FiredOf
<1>6. \A j \in Key : j[1] = k[1] => StatusOf(j) = "none"
  BY <1>4, <1>5 DEF Delivers, Handling, Opened, StatusOf
<1>7. ledger' = [ledger EXCEPT ![k] = row] /\ Become(w, q)
  BY <1>1, <1>2, <1>3, <1>5, <1>6 DEF Record, StatusOf
<1>8. row \in LedgerRow /\ row.status = "pending"
  BY <1>2, <1>4 DEF LedgerRow
<1>9. /\ [j \in Key |-> ledger'[j].status]
           = [[j \in Key |-> ledger[j].status] EXCEPT ![k] = "pending"]
      /\ ledger'[k] = row /\ \A j \in Key : j # k => ledger'[j] = ledger[j]
  BY <1>4, <1>5, <1>7, <1>8, StatusWritten
<1>10. /\ q.pc = "sending" /\ q.failed = p.failed /\ q.task = p.task /\ q.field = p.field
       /\ q.at = p.at /\ q.user = p.user
  BY <1>3, <1>4 DEF ProcState
<1>11. KeyOf(q) = k
  BY <1>1, <1>10 DEF KeyOf
<1>12. k \notin p.failed /\ p.failed \in SUBSET Key
  BY <1>4, <1>5, <1>6 DEF Careful, ProcState
<1>13. \A j \in q.failed : ledger'[j].status = "failed"
  BY <1>4, <1>9, <1>10, <1>12 DEF Careful, StatusOf
<1>14. Careful(q)'
  BY <1>8, <1>9, <1>10, <1>11, <1>12, <1>13 DEF Careful, StatusOf
<1>15. CarefulInv'
  BY <1>4, <1>7, <1>14, CarefulGoesOn
<1>16. Ledger!Open(k)
  BY <1>4, <1>5, <1>6, <1>9 DEF Ledger!Open, Ledger!Key, Key, StatusOf
<1> QED
  BY <1>5, <1>15, <1>16

LEMMA SendIsMail ==
  ASSUME CarefulInv, DeliveryInv', Reopens', \A v, w \in Proc : v = w, NEW w \in Proc,
         NEW accepted \in BOOLEAN, NEW outcome \in {"sent", "failed"}, Send(w, accepted, outcome)
  PROVE  CarefulInv' /\ (UNCHANGED <<ledger, mails>> \/ \E k \in Key : Ledger!Mail(k))
<1>1. PICK p, k : p = proc[w] /\ k = KeyOf(p)
  OBVIOUS
<1>2. PICK q : q = [p EXCEPT !.pc = "answered", !.outcome = outcome]
  OBVIOUS
<1>3. /\ p.pc = "sending" /\ Careful(p) /\ p \in ProcState /\ ledger' = ledger
      /\ ledger \in [Key -> LedgerRow] /\ mails \in [Key -> Nat] /\ Become(w, q)
      /\ outcome = "sent" => accepted
      /\ accepted => mails[k] < MaxMails
      /\ mails' = IF accepted THEN [mails EXCEPT ![k] = mails[k] + 1] ELSE mails
  BY <1>1, <1>2, KnownProc DEF Send, CarefulInv, DeliveryInv, LedgerOK
<1>4. k \in Key
  BY <1>1, <1>3, OwnKey DEF CarefulInv, Attempting
<1>5. mails' \in [Key -> Nat] /\ (accepted => mails'[k] > 0)
  BY <1>3, <1>4
<1>6. /\ q.pc = "answered" /\ q.failed = p.failed /\ q.task = p.task /\ q.field = p.field
      /\ q.at = p.at /\ q.user = p.user /\ q.outcome = outcome
  BY <1>2, <1>3 DEF ProcState
<1>7. KeyOf(q) = k
  BY <1>1, <1>6 DEF KeyOf
<1>8. Careful(q)'
  BY <1>1, <1>3, <1>5, <1>6, <1>7 DEF Careful, StatusOf, Attempting
<1>9. CarefulInv'
  BY <1>3, <1>5, <1>8, CarefulGoesOn
<1>10. accepted => Ledger!Mail(k)
  BY <1>1, <1>3, <1>4 DEF Ledger!Mail, Careful, StatusOf
<1> QED
  BY <1>3, <1>4, <1>9, <1>10

LEMMA SettleIsSettle ==
  ASSUME CarefulInv, DeliveryInv', Reopens', \A v, w \in Proc : v = w, NEW w \in Proc, Settle(w)
  PROVE  CarefulInv' /\ \E k \in Key, outcome \in {"sent", "failed"} : Ledger!Settle(k, outcome)
<1>1. PICK p, k, outcome : p = proc[w] /\ k = KeyOf(p) /\ outcome = p.outcome
  OBVIOUS
<1>2. PICK row : row = [status |-> outcome, attempts |-> ledger[k].attempts + 1, at |-> clock]
  OBVIOUS
<1>3. PICK q : q = NextItem(w)
  OBVIOUS
<1>4. /\ p.pc = "answered" /\ Careful(p) /\ Delivers(p) /\ p \in ProcState /\ clock \in Time
      /\ ledger \in [Key -> LedgerRow] /\ mails \in [Key -> Nat] /\ UNCHANGED mails
      /\ ledger' = [ledger EXCEPT ![k] = row] /\ Become(w, q)
  BY <1>1, <1>2, <1>3, KnownProc DEF Settle, CarefulInv, DeliveryInv, LedgerOK
<1>5. k \in Key
  BY <1>1, <1>4, OwnKey DEF CarefulInv, Attempting
<1>6. outcome \in {"sent", "failed"} /\ ledger[k].attempts \in Nat
  BY <1>1, <1>4, <1>5 DEF Delivers, LedgerRow
<1>7. row \in LedgerRow /\ row.status = outcome
  BY <1>2, <1>4, <1>6 DEF LedgerRow
<1>8. /\ [j \in Key |-> ledger'[j].status]
           = [[j \in Key |-> ledger[j].status] EXCEPT ![k] = outcome]
      /\ \A j \in Key : j # k => ledger'[j] = ledger[j]
  BY <1>4, <1>5, <1>7, StatusWritten
<1>9. k \notin p.failed
  BY <1>1, <1>4 DEF Careful, Attempting
<1>10. \A j \in Key : ledger'[j] = ledger[j] \/ j \notin proc[w].failed
  BY <1>1, <1>8, <1>9
<1>11. Careful(q)'
  BY <1>3, <1>10, CarefulNextItem
<1>12. CarefulInv'
  BY <1>4, <1>11, CarefulGoesOn
<1>13. Ledger!Settle(k, outcome)
  BY <1>1, <1>4, <1>5, <1>6, <1>8 DEF Ledger!Settle, Careful, StatusOf
<1> QED
  BY <1>5, <1>6, <1>12, <1>13

LEMMA RedeliverIsSuppress ==
  ASSUME CarefulInv, DeliveryInv', Reopens', \A v, w \in Proc : v = w, NEW w \in Proc, Redeliver(w)
  PROVE  CarefulInv' /\ (UNCHANGED <<ledger, mails>> \/ \E k \in Key : Ledger!Suppress(k))
<1>1. PICK p, k : p = proc[w] /\ k = KeyOf(p)
  OBVIOUS
<1>2. PICK row : row = [status |-> "suppressed", attempts |-> ledger[k].attempts, at |-> clock]
  OBVIOUS
<1>3. /\ p.pc = "retrying" /\ Careful(p) /\ p \in ProcState /\ clock \in Time
      /\ ledger \in [Key -> LedgerRow] /\ mails \in [Key -> Nat] /\ UNCHANGED mails
  BY <1>1, KnownProc DEF Redeliver, CarefulInv, DeliveryInv, LedgerOK
<1>4. k \in Key /\ StatusOf(k) = "failed" /\ k \notin p.failed
  BY <1>1, <1>3, OwnKey DEF CarefulInv, Attempting, Careful
<1>5. PICK q, r : q = [p EXCEPT !.pc = "sending"] /\ r = NextItem(w)
  OBVIOUS
<1>6. \/ ledger' = ledger /\ Become(w, q)
      \/ ledger' = [ledger EXCEPT ![k] = row] /\ Become(w, r)
  BY <1>1, <1>2, <1>5 DEF Redeliver
<1>7. CASE ledger' = ledger /\ Become(w, q)
  <2>1. /\ q.pc = "sending" /\ q.failed = p.failed /\ q.task = p.task /\ q.field = p.field
        /\ q.at = p.at /\ q.user = p.user
    BY <1>3, <1>5 DEF ProcState
  <2>2. KeyOf(q) = k
    BY <1>1, <2>1 DEF KeyOf
  <2>3. Careful(q)'
    BY <1>1, <1>3, <1>4, <1>7, <2>1, <2>2 DEF Careful, StatusOf, Attempting
  <2>4. CarefulInv'
    BY <1>3, <1>7, <2>3, CarefulGoesOn
  <2> QED
    BY <1>3, <1>7, <2>4
<1>8. CASE ledger' = [ledger EXCEPT ![k] = row] /\ Become(w, r)
  <2>1. ledger[k].attempts \in Nat
    BY <1>3, <1>4 DEF LedgerRow
  <2>2. row \in LedgerRow /\ row.status = "suppressed"
    BY <1>2, <1>3, <2>1 DEF LedgerRow
  <2>3. /\ [j \in Key |-> ledger'[j].status]
             = [[j \in Key |-> ledger[j].status] EXCEPT ![k] = "suppressed"]
        /\ \A j \in Key : j # k => ledger'[j] = ledger[j]
    BY <1>3, <1>4, <1>8, <2>2, StatusWritten
  <2>4. \A j \in Key : ledger'[j] = ledger[j] \/ j \notin proc[w].failed
    BY <1>1, <1>4, <2>3
  <2>5. Careful(r)'
    BY <1>5, <2>4, CarefulNextItem
  <2>6. CarefulInv'
    BY <1>3, <1>8, <2>5, CarefulGoesOn
  <2>7. Ledger!Suppress(k)
    BY <1>3, <1>4, <2>3 DEF Ledger!Suppress, StatusOf
  <2> QED
    BY <1>4, <2>6, <2>7
<1> QED
  BY <1>6, <1>7, <1>8

LEMMA CarefulKeeps ==
  ASSUME CarefulInv, [DeliveryNext]_deliveryVars, \A v, w \in Proc : v = w
  PROVE  CarefulInv' /\ [Ledger!Next]_(Ledger!ledgerVars)
<1>0. DeliveryInv' /\ Reopens' /\ Ledger!Key = Key
  BY DeliveryKeeps, ReopensKept DEF CarefulInv, DeliveryInv, Ledger!Key, Key
<1>1. UNCHANGED <<ledger, mails>> => UNCHANGED Ledger!ledgerVars
  BY DEF Ledger!ledgerVars
<1>2. ASSUME UNCHANGED <<proc, ledger, mails>>
      PROVE  CarefulInv' /\ [Ledger!Next]_(Ledger!ledgerVars)
  BY <1>0, <1>1, <1>2 DEF CarefulInv, Careful, Attempting, StatusOf, KeyOf
<1>3. ASSUME NEW w \in Proc, ProcStep(w)
      PROVE  CarefulInv' /\ [Ledger!Next]_(Ledger!ledgerVars)
  <2>1. CASE StartSweep(w) \/ ReadBatch(w) \/ EndBatch(w) \/ Recheck(w) \/ Crash(w)
             \/ \E t \in Task, i \in Time : ClaimDue(w, t, i) \/ SkipDue(w, t, i)
    <3>1. UNCHANGED <<ledger, mails>>
      BY <2>1 DEF StartSweep, ReadBatch, EndBatch, Recheck, Crash, ClaimDue, SkipDue
    <3> QED
      BY <1>0, <1>1, <2>1, <3>1, ReadingIsCareful
  <2>2. CASE Record(w)
    BY <1>0, <2>2, RecordIsOpen DEF Ledger!Next
  <2>3. ASSUME NEW accepted \in BOOLEAN, NEW outcome \in {"sent", "failed"},
               Send(w, accepted, outcome)
        PROVE  CarefulInv' /\ [Ledger!Next]_(Ledger!ledgerVars)
    BY <1>0, <1>1, <2>3, SendIsMail DEF Ledger!Next
  <2>4. CASE Settle(w)
    BY <1>0, <2>4, SettleIsSettle DEF Ledger!Next
  <2>5. CASE Redeliver(w)
    BY <1>0, <1>1, <2>5, RedeliverIsSuppress DEF Ledger!Next
  <2>6. ASSUME NEW k \in Key, PickFailed(w, k)
        PROVE  CarefulInv' /\ [Ledger!Next]_(Ledger!ledgerVars)
    <3>1. PICK p, failed : p = proc[w] /\ failed = p.failed \ {k}
      OBVIOUS
    <3>2. PICK q : q = [p EXCEPT !.failed = failed]
      OBVIOUS
    <3>3. /\ k \in p.failed /\ Become(w, Delivering(q, k)) /\ UNCHANGED <<ledger, mails>>
          /\ Careful(p) /\ p \in ProcState
      BY <2>6, <3>1, <3>2, KnownProc DEF PickFailed, CarefulInv
    <3>4. failed \in SUBSET Key /\ k \notin failed /\ \A j \in failed : j \in p.failed
      BY <3>1, <3>3 DEF ProcState
    <3>5. q \in ProcState /\ q.failed = failed
      BY <3>2, <3>3, <3>4 DEF ProcState
    <3>6. StatusOf(k) = "failed" /\ \A j \in failed : StatusOf(j) = "failed"
      BY <3>3, <3>4 DEF Careful
    <3> QED
      BY <1>0, <1>1, <3>3, <3>4, <3>5, <3>6, RetryingIsCareful
  <2>7. ASSUME NEW k \in Key, OperatorRetry(w, k)
        PROVE  CarefulInv' /\ [Ledger!Next]_(Ledger!ledgerVars)
    <3>1. Resting \in ProcState /\ Resting.failed = {}
      BY KnownProc, RestingFits DEF CarefulInv, Resting
    <3>2. /\ StatusOf(k) = "failed" /\ Become(w, Delivering(Resting, k))
          /\ UNCHANGED <<ledger, mails>>
      BY <2>7 DEF OperatorRetry, StatusOf
    <3> QED
      BY <1>0, <1>1, <3>1, <3>2, RetryingIsCareful
  <2> QED
    BY <1>3, <2>1, <2>2, <2>3, <2>4, <2>5, <2>6, <2>7 DEF ProcStep, Progress
<1>4. CASE ScheduleStep
  BY <1>2, <1>4 DEF ScheduleStep, delivery
<1>5. ASSUME NEW u \in User, Leave(u) PROVE CarefulInv' /\ [Ledger!Next]_(Ledger!ledgerVars)
  BY <1>2, <1>5 DEF Leave, delivery
<1>6. ASSUME NEW op \in PeopleOps, NEW u \in User, People(op, u)
      PROVE  CarefulInv' /\ [Ledger!Next]_(Ledger!ledgerVars)
  BY <1>2, <1>6 DEF People, delivery
<1>7. CASE \/ SuspendWorkspace \/ DeleteWorkspace
           \/ RestoreWorkspaceRead \/ RestoreWorkspace \/ RestoreRollsBack
  BY <1>2, <1>7 DEF SuspendWorkspace, DeleteWorkspace, RestoreWorkspaceRead, RestoreWorkspace,
                    RestoreRollsBack, delivery
<1>8. CASE UNCHANGED deliveryVars
  BY <1>2, <1>8 DEF deliveryVars, delivery
<1> QED
  BY <1>3, <1>4, <1>5, <1>6, <1>7, <1>8 DEF DeliveryNext

LEMMA LedgerStart == DeliveryInit => Ledger!Init
BY DEF DeliveryInit, Ledger!Init, Ledger!Key, Key, NoRow

\* One process at work, an instance that sweeps or an operator who retries,
\* implements EmailLedger: a mail recorded as sent is never sent again and a
\* suppressed one stays suppressed, wherever the process dies and whatever
\* people do (deliver, attemptEmail and retryFailedEmails of taskReminder.ts).
\* With two processes it does not hold: see SentNeverResent.
THEOREM KeepsTheLedger ==
  ASSUME \A v, w \in Proc : v = w
  PROVE  DeliverySpec => LedgerKept
<1>1. DeliveryInit => CarefulInv /\ Ledger!Init
  BY CarefulStart, LedgerStart
<1>2. CarefulInv /\ [DeliveryNext]_deliveryVars => CarefulInv' /\ [Ledger!Next]_(Ledger!ledgerVars)
  BY CarefulKeeps
<1> QED
  BY <1>1, <1>2, PTL DEF DeliverySpec, LedgerKept, Ledger!Spec
===============================================================================
