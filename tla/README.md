# Afritask in TLA+

Afritask is a task manager for teams: an Express/Prisma server over PostgreSQL
(`src/server`), background jobs on BullMQ/Redis in the same process, and a
Next.js client (`src/client`). Every HTTP handler is an async function that
reads rows, checks them, and writes in one statement or one transaction, so
between its reads and its write anything may happen. The jobs run once a minute
on every server instance and claim rows with conditional updates. In the client
every call is sent, answered and applied at three different moments, and what it
is applied to may have changed by then. These modules model those steps, one
action per database statement, transaction or answer, check on small instances
what holds however they interleave, and prove the same for any instance.

Paths below are relative to `src/server/src` unless they start with `src/` or
name a client component.

## 1. Inventory

| Component | State it keeps | Operations | Hard behaviour | What makes it correct |
|---|---|---|---|---|
| Membership and roles (`controllers/member`, `middlewares/workspaceAccess`) | `Membership.role`, `.status`; assignees of open tasks | remove, leave, change role, transfer | the caller's and the target's roles are read before the write | never two Owners; one is lost only to a stale request; access ends with the membership |
| Invitations (`controllers/invitation`) | `Invitation` rows | create, resend, revoke, accept, decline; expiry | two tabs, two managers, a recipient against a manager | answered once; one membership per acceptance |
| Workspace lifecycle (`controllers/workspace`, `adminDirectory`) | `Workspace.deletedAt`, `.suspendedAt` | create, delete (soft or permanent), suspend, restore | the plan of a deletion is made before its transaction | other people's work survives; nobody joins a deleted workspace |
| Projects (`controllers/project`) | `Project.state`, `.priorState` | update, archive, restore | all three change schedules of tasks | archive pauses reminders, restore re-plans them |
| Task schedules (`controllers/task`, `utils/reminderSchedule`) | `Task` rows, three schedule columns, `version` | create, edit, delete | optimistic versions, the project read before the write, a restore in two steps | what is armed is for the present deadline and for open work; an alert is lost only to a stale write |
| Due and start dates (`utils/dueDate`, `startDate`, `taskViews`; client `dueFields`, `taskBuckets`) | instants, and the zones they were picked in | pick, save, show, list | clocks that skip or repeat an hour, a profile's zone and a browser's | a saved date shows as picked; lists follow the calendar |
| Reminder delivery (`jobs/taskReminder`, `controllers/adminOperations`) | schedule columns, `EmailDelivery`, `Notification` | minute sweep: claim, re-check, record, send, retry; operator's retry | several instances, crashes, provider failures | one recipient per schedule; final outcomes stay final; nothing stays due |
| Task board (`controllers/task`, `utils/taskPermissions`, `subtaskSchedule`) | `Task`, `DueDateExtension` rows | edit, status, create, subtask, delete | permission and content read before the transaction, two editors | completion and its note agree; extensions recorded once; lost assignment ends access |
| Comments (`controllers/comment`) | `Comment`, `CommentMention` | list, post, edit, delete | edit racing a delete, mentions from a stale read, events that miss | every mention is heard, every thread catches up |
| Notifications and live events (`services/notificationService`, `realtimeService`, `pushService`) | `Notification`, `PushSubscription` rows, open streams | record, dispatch, push, mark read | claims of two dispatchers, a browser two people share | published once; a push never follows who signed out; nothing is passed over |
| Sessions and sign-in (`services/sessionService`, `controllers/auth`) | `Session` rows, cookies | sign in, refresh (rotation, grace), sign out, change, reset, suspend | two tabs refreshing; lost answers; sign-in against reset | a password change ends the sessions before it; rotation strands no browser |
| Accounts and their links (`controllers/auth`, `services/accountTokenService`, `config/passport`) | `User`, `AccountToken` | sign up with roll-back, verify, forget, reset, Google | concurrent issue, consume and roll-back | an account always has a way in |
| Operator sign-in (`controllers/adminAuth`, `services/operatorSessionService`) | `PlatformGrant`, operator sessions | password, MFA set-up and verify, grant given, revoked, reset | code replay, set-up against verify and against revocation | a code counts once; access follows the grant |
| Newsletter (`services/newsletterService`) | subscribers, posts, deliveries | subscribe, confirm, unsubscribe, publish, sweep | claim by unique row, crash, unsubscribe in between | at most one mail per post and subscriber; a post completes |
| Import (`scripts/importFromMongo`) | the legacy ids of users, tasks, workspaces | one pass in batches, killed and run again | half a user, people signing up meanwhile | an import that ends without skipping is whole, once |
| Client: entering, session, workspace (`AuthContext`, `WorkspaceContext`, `AppShell`, `OnboardingFlow`) | who is signed in, which workspace, what is remembered | sign in and out, refresh, switch, set up | answers after a switch or a sign-out | lists belong to the workspace named above them; no retry creates twice; nobody is sent away or lands somewhere without cause |
| Client: task drawer, composer, filters, inbox, feed | drafts, optimistic copies, pages | type, save, retry, mark, search, load older | answers out of order, lost answers | drafts survive; one task per form; what is shown as read is read; no gap or repetition |
| Support tickets (`controllers/support`, `adminSupport`; client `support/page`, `NewTicketForm`, `FeedbackCard`) | `SupportTicket`, `SupportMessage` rows; the texts and the thread on the page | open, read, reply, resolve; operator's reply and status | each request reads the ticket and writes later; answers after the page moved on | a closed ticket stays closed |
| Labels, dashboard queries, audit, uploads, health, templates, docs, seeds, tests | | | single statements, queries, wording or wiring | not modelled (reasons in section 6 and `PROJECT.json`) |

How they meet. Ending a membership unassigns the member's open tasks; deleting
or suspending a workspace shuts its routes and stops its reminders; archiving a
project clears and restoring re-plans its tasks' schedules; the sweep reads
tasks, projects, members and accounts afresh before it delivers; a delivery
writes a notification, which a dispatcher claims, publishes and pushes; comments
write notifications and publish events, on which threads and badges reload; a
password reset goes through an account link and ends sessions; the client's
workspace context decides what its lists, composer and filters may show.

## 2. Modules

| Module | Models | Instance | Theorems |
|---|---|---|---|
| `Membership` | memberships, invitations, workspace lifecycle | `MCMembership` | `MembershipProofs` |
| `TaskSchedule` | schedules of tasks against project archive, restore and update | `MCTaskSchedule` | `TaskScheduleProofs` |
| `Calendar` | due and start dates in their zones, and the lists they put a task in | `MCTaskSchedule` | `TaskScheduleProofs` |
| `EmailLedger` | what the delivery of reminders promises, abstractly | (refined) | `DeliveryProofs` |
| `ReminderDelivery` | the sweep and the operator's retry; extends `TaskSchedule` | `MCReminderDelivery`, `MCReminderRaces` | `DeliveryProofs` |
| `Session` | one account's sessions, cookies and pages | `MCAccounts` | `SessionProofs` |
| `Registration` | how an address becomes a usable account, and its links | `MCAccounts` | `SessionProofs` |
| `OperatorConsole` | grants, second factor and sessions of operators | `MCAccounts` | `OperatorConsoleProofs` |
| `Newsletter` | subscribers, posts and the sweeps that mail them | `MCAccounts` | `NoticeProofs` |
| `Import` | the import from the old database | `MCAccounts` | `OperatorConsoleProofs` |
| `Support` | support tickets from both sides, and the customer's page | `MCAccounts` | `OperatorConsoleProofs` |
| `TaskBoard` | tasks, subtasks, permissions, completion, extensions | `MCWork` | `WorkProofs` |
| `TaskDrawer` | drafts over a task that others change | `MCWork` | `WorkProofs` |
| `Conversation` | comments, mentions and the threads that show them | `MCWork` | `WorkProofs` |
| `Dispatch` | notifications from row to open tabs and pushes | `MCNotices` | `NoticeProofs` |
| `Inbox` | the badge and the notifications page | `MCNotices` | `NoticeProofs` |
| `Entrance` | coming into and out of a tab, and where one lands | `MCClient` | `ClientProofs` |
| `WorkspaceContext`, `WorkspaceView`, `Onboarding` | which workspace a tab has, what it shows of it, setting one up | `MCClient` | `ClientProofs` |
| `Composer` | new-task forms, their drafts and their retries | `MCClient` | `ClientProofs` |
| `TaskFilters` | search and filters between a box and the URL | `MCClient` | `ClientProofs` |
| `History` | the activity history, its pages and the feed | `MCClient` | `ClientProofs` |

A definition whose comment starts with "Mutant" is a wrong variant of the
definition after it. Nothing uses it in the specification: it shows that a
property breaks when the code is wrong in that way. Which lines of the code a
definition stands for is in `PROJECT.json`, "map".

The pattern is the same everywhere. A request (a `req`, `work`, `console`,
`request`, `handler` or `form` record) is idle, then has loaded what its handler
reads, and its last action is the handler's transaction with everything that is
in it, after which it is idle. What it remembers of its reads is in the record,
and tests use the remembered value exactly where the handler does and the present
row exactly where the statement's WHERE does. An early return or an error is an
action that writes nothing. A call of the client is a record too: sent, answered
by the server, arrived.

### Membership

One workspace. A variable per column that matters: `role` and `status` of each
user's `Membership` row, `workspace` (exists, suspended, soft-deleted), `inv`
(the `Invitation` rows; `live` is `expiresAt` ahead of now), `task` (assignee,
open, version), `worked` (who left records that `otherContributors` would
count), and `req`, with `callerRole`, `seen` and `plan` for what it remembers.
`Authorize` is `requireWorkspaceMember` and `requireWorkspaceRole` as
`routes/workspaceRoute.ts` mounts them; `LoadTarget`, then `RemoveMember`,
`ChangeMemberRole`, `TransferOwnership`; `LeaveWorkspace`; `CheckInvitee`,
`CreateInvitation`; `LoadForManager`, `ResendInvitation`, `RevokeInvitation`;
`LoadForRecipient`, `AcceptInvitation`, `DeclineInvitation`; `Expire`;
`RecordWork`, `PlanDeletion`, `DeletePermanently`, `DeleteSoftly`,
`SuspendWorkspace`, `RestoreWorkspace`, `CreateWorkspace`.

Consecutive reads of one handler whose order cannot matter are one step. An
invitation's token and its mail are left out: whoever is addressed can open it.
The partial unique index "one pending invitation per address" is a guard of the
steps that insert or renew (`PendingIndexAllows`), because the code relies on it;
the index "one active owner" is left out on purpose, since theorem `OneOwner`
shows the code never needs it.

### TaskSchedule and Calendar

One project and its tasks. `clock` is a discrete time; `project` has state and
`priorState`; a task row has status (in progress and in review are one value,
"started"), deadline, start, reminder offset, assignee, version and the three
schedule columns. `EditTask` succeeds only for the version its request named,
the optimistic lock of `updateWithVersionCheck`, and re-plans only when
`ScheduleInputsChanged`. `restoreProject` reads the project's open tasks inside
its transaction and writes each back by id; at PostgreSQL's default isolation
other transactions commit in between, so it is two steps, `RestoreRead` and
`RestoreProject`, with the project's row locked (`Unlocked`) between them. The
rows it read stay with the request, and `Overtaken` says that one of them has
been edited since.
`ClaimStep` is the sweep's conditional update. What `TaskBoard` models is left
out here: subtasks, moves between projects, the idempotency key.

`Calendar` has one task's dates (`plan`), the form they are typed into
(`sheet`), the zone of the profile, which reads the form, and of the browser,
which shows it. An instant and a wall clock's reading are integers, a day a few
units, and a zone its offset before and after one change of its clock:
`FromWall` is what the date library does with a reading that does not occur or
occurs twice. The lists of the server (`InView`) and of the client
(`MatchesFilter`) are functions of the task, the zone and the clock.

### ReminderDelivery and EmailLedger

`ReminderDelivery` has all of `TaskSchedule`'s request steps and its clock; its
abstract `ClaimStep` is replaced by the sweep's real claim. A process is a sweep
of one server instance (BullMQ `concurrency: 1`) or an operator's retry. A sweep
goes through four phases (three schedule columns, then failed rows); it reads a
batch, and for each item claims, re-checks, records, sends and settles:

| Code | Action |
|---|---|
| `runReminderSweep` | `StartSweep`, `EndBatch`, `NextPhase` |
| `processDueSchedules`: `findMany` | `ReadBatch` |
| ... conditional `updateMany` | `ClaimDue`, or `SkipDue` when the count is 0 |
| ... `loadDeliverableTask`, `suppressionReason`, `resolveRecipientId` | `Recheck` |
| ... transaction with notification and ledger row | `Record` |
| `attemptEmail`: provider call | `Send` (accepted or not, and known or not) |
| `attemptEmail`: update of the row | `Settle` |
| `retryFailedEmails` | `ReadBatch`, `PickFailed` |
| `retryDelivery` | `OperatorRetry` |
| `redeliver` | `Redeliver` |
| process death or a database error | `Crash` |

Around them the people change (`Leave`, and `People`: rejoining, an account
suspended and restored) and so does the workspace, in `closed`:
`SuspendWorkspace` only shuts it; `DeleteWorkspace` (`workspace.controller.ts:213`)
clears every reminder and alert; `RestoreWorkspaceRead` and `RestoreWorkspace`
(`adminDirectory.controller.ts:263-286`) read its open tasks and write their
schedules back in one transaction, at the default isolation again two steps,
or roll back (`RestoreRollsBack`) when a task was deleted in between. A workspace
that is deleted and not suspended is not restored, as in the code. In a closed
workspace no request starts, and those under way finish.

`mails` counts what the provider accepted for a key, which no column records. A
batch has no limit (200 in the code), and the order within a batch is any.
`EmailLedger` is the abstract specification: rows open once per schedule, only
pending and failed rows are mailed or settled, "sent" needs an accepted mail,
sent and suppressed are final. `LedgerKept` says that the sweep implements it.

### Session, Registration, OperatorConsole

`Session` is one account: `session` rows with the secret and the one before it,
the `jar` of each browser, and its `page`s, each with one request or one refresh
under way that carries the cookies the browser held when it was sent. Every
statement of a handler is a step, and so is the arrival of its answer, which is
when cookies change; answers may be lost and handlers may die.
`Registration` is one address: the `user` row, its `link`s (issuing one is a
transaction of two statements), and handlers that sign up, roll back, verify,
forget, reset or come from Google. `OperatorConsole` is one operator: the
`grant` with its secret and the time step of the last code, the sessions,
and the console's requests, which act on the session and grant they loaded.

### Newsletter, Import

`Newsletter` has the subscriber row of each address, posts, deliveries and the
sweeps of several instances, each reading a batch and claiming one unique row
per delivery; `since` remembers who was subscribed when a post was published and
stayed so. `Import` goes through users and then tasks in the order of their ids,
one statement at a time; it may die between any two and is run again while
people sign up and the old system may still change.

### Support

`tickets` are the rows, with their messages counted and, as history, how often
each was closed; `calls` are the customer's and the operators' requests, which
load the ticket (`LoadOwnTicket`, `LoadToReply`) and write it later
(`ReplyToMyTicket`, `ResolveMyTicket`, `ReplyToTicket`), while
`UpdateTicketStatus` is one statement; `helpPage` is the customer's tab: the
ticket of its address, the thread it shows, which may be another one for as long
as answers overtake each other (`Answered`), and whether something is written in
its three fields. A call may fail, or succeed with its answer lost (`CallFails`).
An operator's console is another program, so its requests come at any time.

### TaskBoard, TaskDrawer, Conversation

`TaskBoard` has the `row`s of top-level tasks and subtasks, the
`DueDateExtension` rows, the roles, and `work`, the requests: an edit's body is
any record over a subset of the fields a client may send, what it writes is
computed from the row it loaded, and the commit is conditional on the version.
`TaskDrawer` is the client's side of such an edit: the copy under the draft, the
fields typed, and calls that save, reload or change the status and overtake each
other. `Conversation` has the comments with their mentions, the notifications
they gave rise to, and the threads and event streams of people's tabs; an event
is published, delivered and then handled, and the stream may be down.

### Dispatch, Inbox

`Dispatch` follows a notification from its row through the claim to open tabs
and to the endpoints that are registered when it is pushed; browsers register,
are shared, and drop their registration when somebody signs out. That clean-up is
three steps (`BeginLeaving`, `RemoveRow`, `DropSubscription`), and each may fail
while the sign-out goes on, as in `browserPush.ts:50-61`: looking for the
subscription, removing the server's row, unsubscribing the browser. `failed` is
what it left behind, and `Withdrawn` the notifications that may still not reach
the browser then. `Inbox` is one person's badge and page: polls, loads
of two filters, older pages, and marks that are shown before the server knows. An
older page starts at its cursor and skips one row: the cursor's own, or the one
after it when the cursor's has left the filter "unread" since
(`controllers/notification.controller.ts:95`), which is then never listed.

### The client's tab

`Entrance` decides where people land: the session check of a page, sign-in by
password or through Google, the terms gate, expiry and sign-out, and the page and
invitation remembered meanwhile. React runs the effects of the mounted page after
every change of state, so each action ends in them (`Shows`).
`WorkspaceContext` is the list of workspaces and the one that is open;
`WorkspaceView` adds what is shown of it, and `Onboarding` the three-step set-up,
which first saves the profile's time zone and waits for it (`AskForWorkspace`
with "profile", then `SendCreation`): the creation is sent when that is over,
wherever the tab is by then. The waits of renaming in step 1
(`RenameAndGoOn`) are folded into one step.
`Composer` is the new-task form with its key, its draft and its saves,
`TaskFilters` the search box against the URL and what was last rendered of it,
`History` the activity entries, their pages and the feed.

## 3. Runs

Components that share no state are checked together without being multiplied:
an `MC` module declares a variable `scenario` that is chosen at the start and
says which component moves, while the others stay as they began. The state space
of a run is then the sum of those of its scenarios. A scenario also narrows what
is irrelevant to its question (which operations, whose task); what it narrows is
written in the `MC` module, with a comment, and nothing is narrowed anywhere
else.

| Run | Scenarios | Checks | Instance |
|---|---|---|---|
| `membership` | ownership, invitations | `TypeOK`, `AtMostOneOwner`, `OwnerLostOnlyToStaleRequest`, `JoinOnlyByInvitation`, `InvitationSettlesOnce` | 3 users, 2 requests, 2 invitations, 1 task |
| `schedule` | planning, replanning, restoring, dating | `ArchivePausesReminders`, `PlanLostOnlyToStaleRestore`, `AlertLostOnlyToStaleWrite`; `ViewsFollowCalendar`, `DatesStayAsPicked` | 1 task, 1 request with all operations on 4 instants, or 2 requests on 3: no restores, or one edit beside one archive or restore; 5 zones, days of 4 units |
| `delivery` | instances, operator | `OneRecipientPerSchedule` | 2 instances, 1 crash, 1 edit, 2 users; or 1 instance, 1 operator and every change of the creator's standing and of the workspace |
| `sweeping` | | `LedgerKept`, `DueIsHandled`, `FailedIsRetried` | 1 instance, 1 crash, 1 edit, 2 attempts |
| `accounts` | rotating, passwords; registering; operating; mailing; importing; helping | `CookieAtMostOneBehind`, `PasswordChangeEndsSessions`; `NoDeadEnd`; `ConsoleNeedsGrant`, `CodeSignsInOnce`; `EveryoneOnce`; `ImportedWhole`; `StaysClosed` | 2 pages of 1 browser, 2 sessions; 2 handlers, 2 links; 2 console requests, 2 time steps; 2 sweeps, 2 addresses, batches of 1; 2 users, 1 task, 1 restart; 2 tickets, 2 calls, 2 messages and 1 closing of a ticket while it is the only one |
| `work` | assigning, dating, splitting, submitting; drawing; watching, naming | `CompletionConsistent`, `OnlyWhileAssigned`, `ExtensionsRecorded`; `EditsSurvive`; `SeesNewComment`, `MentionHeard` | 2 people, 2 requests, 2 tasks with 1 subtask, 2 projects; 1 viewer, 2 calls; 2 readers, 2 comments |
| `notices` | dispatching, registering, reading | `PublishedOnce`, `NothingPassedOver`; `PushStaysWithOwner`; `ShownReadIsRead`, `BadgeSettles` | 2 dispatchers, 3 notifications, batches of 1; 1 browser, 2 accounts, 2 endpoints; 2 items, 2 calls, pages of 1 |
| `client` | entering; opening; viewing; settingUp; composing; filtering; reading | `LandsOnNothingLeftBehind`; `BouncedOnlyOnWord`; `ListOfWorkspace`; `OneWorkspacePerSetup`; `OneTaskPerForm`; `FiltersAsChosen`; `HistoryWhole` | 2 people, 2 workspaces, 2 refreshes, 2 loads; 2 forms of 2 saves; 2 search terms; 5 entries in pages of 2 |
| `ownerless` | ownership | `AlwaysAnOwner`: violated | 2 users, 2 requests |
| `destroyed` | invitations | `DeletionSparesOthersWork`: violated | 2 users, 2 requests |
| `resent` | | `SentNeverResent`: violated | 1 instance, 1 operator |
| `overwritten` | drawing | `OnlyTypedFieldsSaved`: violated | as `work`, one more saved version |

What each shows, in a sentence, is in `PROJECT.json` (`about`).

**Bounds.** A race in this code is between one process's read and another's
commit, so two requests, sweeps, pages, calls or dispatchers show every pair;
three users give an Owner, an Admin and a Member, or an Owner and two people who
may take over. Two invitations are the least that can be pending for one address.
Schedules of different tasks never touch each other except through the project,
so one task suffices for properties of a single row. In `delivery`, `sweeping` and
`resent` tasks have no start and projects no reminders (`Starts`, `Leads` are
empty), so the overdue alert is the one column that is armed. The clock has an instant
before, at and after each deadline. Two attempts give a retry and an exhausted
row. Batches and pages of one or two with more rows than they hold give a full
batch, a partial one and an empty one. The five zones go forward or back over an
hour in the daytime and at midnight, and a day of four units has a morning, an
evening and a last unit. The named bounds: `Horizon`, `LastInstant`, `LastStep`,
`MaxInstant` (clocks); `MaxVersion`, `MaxEdit`, `MaxSaved` (edits); `MaxCrashes`,
`MaxDeaths`, `MaxBroken`, `MaxLost`, `MaxFail`, `MaxDropped` (failures); `MaxMails`,
`MaxOperated`, `MaxAttempts`; `MaxPassword`, `MaxRotation`, `MaxSecret`,
`MaxResets`, `MaxUsers`; `MaxAddress`, `MaxNote`, `MaxEndpoint`, `MaxItem`,
`MaxComment`, `MaxText`, `MaxEvent`, `MaxCall`; `MaxRefresh`, `MaxLoad`,
`MaxCreating`, `MaxForm`, `MaxWording`, `MaxSend`, `MaxEntries`, `MaxFeedLoads`;
`MaxImports`, `MaxEdits`, `LastUser`, `LastTask`; `MaxWords`, `MaxCloses`. The theorems hold for any value of
each of them.

**Deadlock** is checked in `ownerless`, `sweeping`, `resent` and `delivery`.
Elsewhere a behaviour may end: a deleted workspace with no request in flight, the
last instant with the versions used up, all sessions gone, all comments written.

**Fairness.** Of the delivery (`Fairness` in `ReminderDelivery`): weak fairness of
each instance's own next step, because BullMQ keeps starting the repeated job and
a started job runs to its end or dies; and of the clock. Of `Dispatch`: weak
fairness of each dispatcher's next step, for the same reason. Of `Inbox`: weak
fairness of the completion of each call, because a call is answered or fails; and
strong fairness of `RefreshUnread`, because a poll repeats on a timer but needs a
free call in the model. No fairness is assumed of requests, people, operators or
the mail provider, and failures are bounded, not excluded. The four liveness
properties hold with crashes.

## 4. Known divergences

What runs that find a violation show, each against a sentence of the code's own
documentation (quoted in `PROJECT.json`, findings):

* `ownerless`: a remove, role change or leave tests a role it read earlier, so a
  transfer in between leaves the workspace without an Owner.
  `OwnerLostOnlyToStaleRequest` says nothing else can, and `SerialOwner` that it
  takes two overlapping requests.
* `destroyed`: `deleteWorkspace` decides on the permanent deletion before its
  transaction; work recorded in between is deleted too.
* `resent`: `redeliver` neither claims nor re-reads the failed row.
* `overwritten`: after a version conflict the drawer reloads the task under the
  draft and then saves every field in which the draft differs from the newer
  copy, among them those only the other person changed.

Others were met while modelling. Some are possible in the modules and excepted by
name in a property; some are outside what is modelled. None has a run of its own.

*Tasks and schedules.* An update that read the project before it was archived
un-archives it without re-planning (`controllers/project.controller.ts:142`; an
exception in `AlertLostOnlyToStaleWrite`); an archive that read "archived"
records it as the prior state (line 162); archiving leaves `startReminderAt`
(`utils/reminderSchedule.ts:11`); a task created while its project is archived is
armed there until the sweep suppresses it; a restore of a project writes back a
plan made from a row that an edit has changed or completed meanwhile
(`controllers/project.controller.ts:190`; `Overtaken`, in
`PlanLostOnlyToStaleRestore` and `AlertLostOnlyToStaleWrite`), and a restore of a
workspace the same (`controllers/adminDirectory.controller.ts:278`). `redeliver` leaves out the test of an
overdue alert against the present deadline (`jobs/taskReminder.ts:180`). A crash
between claim and ledger row loses the reminder, one after the ledger row leaves
it pending for good, and a mail that was accepted but not recorded is sent again.

*Board and drawer.* An assignee is checked before the transaction; so are a
manager's role and a subtask's window, whose two halves can be changed at once
(`utils/subtaskSchedule.ts:3-8`); a deletion names no version; clearing a deadline
and then setting a later one counts as no extension. Text typed while a save is
under way is dropped by its answer (`TaskDrawer.tsx:259`); two quick failing status
changes can leave the one in between (`TaskContext.tsx:160`); the browser's Back
closes a drawer without asking.

*Dates.* West of Greenwich, where a clock skips midnight, "today" and start dates
begin at 23:00 the day before (`utils/startDate.ts:7`); where midnight comes twice,
a task due between the two is in no view; a date deadline from another zone can be
missing from both agenda and week strip (`TodayAgenda.tsx:42`, `WeekAhead.tsx:35`);
a browser that changes its zone under an open form moves a deadline
(`dueFields.ts:33-35`; `sheet.travelled` excepts it); the end of a day is 23:59:00.

*Comments and notices.* An edit that overlaps a deletion writes text and mentions
back into the deleted row (`controllers/comment.controller.ts:171`, `:192-193`); of
two overlapping loads the older may be applied last (`crossed` excepts it in
`SeesNewComment`); a retry of a post whose answer was lost posts twice; live events
still reach former members (`services/realtimeService.ts:44-45`). Publishing is at
most once, not exactly once: a crash after a claim loses event and push (line
163). Pushes follow who signed out when removing the row and unsubscribing both
fail (`browserPush.ts:56-60` goes on), when only unsubscribing fails and the
notification was claimed before, or when a subscription was being created
(`Withdrawn` is empty or smaller then, in `PushStaysWithOwner`); an unread
notification after a cursor that was read meanwhile is left out of the older page; overlapping reads move the first read time
(`controllers/notification.controller.ts:126`); a late answer for "all" can fill
the filter "unread".

*Accounts.* One previous secret is kept (`services/sessionService.ts:20-22`), so a
browser whose rotation's answer was lost is signed out later; a login that had
checked the old password starts a session after a reset; a roll-back of a signup
may delete an account that Google or a link has activated; overlapping issues leave
two links; verifying after the grant's MFA was reset during a first enrolment
leaves it enrolled without a secret; a password change that read earlier overrides
a reset. Somebody who unsubscribes between a batch's read and its send is still
mailed (`services/newsletterService.ts:14`), and a sweep that dies between the
claim and the mail never mails that subscriber (line 130); a subscription request can downgrade a
just-confirmed subscriber; confirming after unsubscribing subscribes again. Two
imports at once, or one re-run after use, overwrite or duplicate. A reply that
read a support ticket before it was closed reopens it
(`controllers/support.controller.ts:84-91`; `ClosedBefore` in `StaysClosed`); a
ticket opened again after its answer was lost is there twice
(`NewTicketForm.tsx:42`), and a late answer shows its own ticket under another's
address (`support/page.tsx:45`).

*The client's tab.* The terms gate's "Not now, sign out" remounts the shell, which
saves the previous person's page, and the next sign-in lands there
(`AppShell.tsx:27-29`); so do Back after signing out and another tab's sign-out;
these are what "remembered since" excepts in `LandsOnNothingLeftBehind`. A sign-in
finished while a sign-out waits is thrown out by its end; a failed refresh that
arrives after a sign-in signs it out (`AuthContext.tsx:85-91`). A refresh in flight
at sign-out fills the next session's list (`WorkspaceContext.tsx:54-58`); a failed
first load sends to the set-up (both count as word in `BouncedOnlyOnWord`); an accept followed by a failed refresh hangs on
"Opening your workspace" until a reload. Leaving the set-up while its creation is
in flight, or while the time zone before it is being saved, allows a second
workspace (`OnboardingFlow.tsx:8-11`), and editing the
invitation rows while they are sent attributes results by index. An edited retry
of a new task whose answer was lost returns the first task and drops the edits
(`TaskComposer.tsx:5-6`); closing and opening the form instead makes a second one.
"Clear" or Back during the search box's pause can leave box and URL apart (`raced`
excepts it). A reload of the activity feed's first page while an older page is on
its way leaves a gap or a repetition (`ActivityFeed.tsx:56`; `mixed` excepts it).

## 5. Proofs

TLAPS checks every theorem below, for every value of the constants. What a proof
assumes of them is the named `ASSUME` of the component's module, which TLC
evaluates too: bounds are natural numbers (batches, pages and days positive), and
a null is not an element of the set it is a null for. A few are about values TLC
and the prover see differently (`RowsAreNotNull`, `RecordsAreNotNull`,
`NobodyIsNoList`, `AbsentIsNoRow`: a model value is no record and no sequence).
Every safety property of a passing run is stated by a theorem.

The argument is the same each time: an inductive invariant that adds to the
property what its steps need to know of the requests in flight, one lemma per
action, one conjunct at a time.

| Theorem | Property | The invariant and why it is needed |
|---|---|---|
| `MembershipProofs!TypeCorrect` | `TypeOK` | includes `Informed`: a request knows its caller and what it loaded |
| `OneOwner` | `AtMostOneOwner` | `GoneIsEmpty`: a workspace that is gone has no active members, so a creation makes the only Owner; a transfer demotes on the condition that the caller still owns |
| `OwnerLostOnlyToStale` | `OwnerLostOnlyToStaleRequest` | `SawInv`: what a loaded request saw passes the handler's own test |
| `SerialOwner` | (`AlwaysAnOwner`, one request) | the one request never overlaps a transfer |
| `JoinsByInvitation`, `SettlesOnce` | `JoinOnlyByInvitation`, `InvitationSettlesOnce` | `AcceptsKnow`: whoever accepts loaded an invitation addressed to them; what decides is the transaction's own condition |
| `TaskScheduleProofs!TypeCorrect`, `ArmsOnlyTheFuture` | (`NeverArmsThePast`) | `IInv`; `Fresh`: a creation's task does not exist yet and nobody else creates it, so a plan made earlier never meets an existing row |
| `PlansFit` | (every task is `Planned`) | `Consistent`: each row, and each about to be created, is planned for what it says; `EditedPlanned`: where `ScheduleInputsChanged` is false, the old plan fits the new row. Nothing restored |
| `PlansAreKept` | `PlanLostOnlyToStaleRestore` | `Prepared` and `Behind`: a creation's row is planned, and a row that a restore holds with the present version is the present row, so its plan fits. Restores included, with any overlap |
| `ArchivedIsPaused` | `ArchivePausesReminders` | an edit plans from the project its own transaction reads; nothing created or restored |
| `AlertIsKept` | `AlertLostOnlyToStaleWrite` | `Promised`: a creation's row has its alert until its deadline passes; only an update ends an archive then. Nothing restored |
| `SerialAlerts` | (no exception, one request) | `SerialInv`, restores included: what the request read is still so |
| `CalendarTypeCorrect`, `PickedDatesStay` | `DatesStayAsPicked` | `Untouched`: a field nobody typed in shows what is saved; `FromWall` inverts the wall clock wherever the reading occurs |
| `ListsFollowCalendar` | `ViewsFollowCalendar` | a midnight that comes once separates the days, whatever the offsets |
| `DeliveryProofs!OneRecipient` | `OneRecipientPerSchedule` | `DeliveryInv`: what is handled or in the ledger is `Spent`, in the past and armed nowhere; no two processes handle one schedule (`Alone`), and one whose ledger row is open is never claimed again |
| `KeepsTheLedger` | `LedgerKept` | `CarefulInv`: the one process mails what its row allows. One process is assumed: with two the refinement is false, which is finding `resent` |
| `SessionProofs!TypeCorrect`, `ChangeEndsSessions` | `PasswordChangeEndsSessions` | `RevokerAtWork`: an old live session has a handler about to revoke it |
| `CookieStaysClose` | `CookieAtMostOneBehind` | `SecretsInv`: every secret in a jar, request or answer was issued; a new one on its way is its row's and the only one under way |
| `AlwaysAWayIn` | `NoDeadEnd` | `RegistrationInv`: an account not verified was mailed a link or its signup is at work (`WayOut`), and each handler's link is its account's |
| `OperatorConsoleProofs!TypeCorrect`, `SignedInHasGrant`, `CodeOnce` | `ConsoleNeedsGrant`, `CodeSignsInOnce` | `ConsoleInv`: a verification whose session is still live has a grant that stands (`CheckedLive`), and the codes used are no newer than the step the grant remembers |
| `ImportsWhole` | `ImportedWhole` | `ImportInv`: what the run has made of the rows behind it (`Progress`), one workspace per user (`OneHome`), and that a run begun after the old server stopped reads all of it (`ReadsAll`) |
| `NoticeProofs!MailedOnceToEveryone` | `EveryoneOnce` | `NewsletterInv`: a claimed delivery is one sweep's, and a short batch proves nobody is left beyond it |
| `PublishesOnce` | `PublishedOnce` | `DispatchInv`: who publishes holds the claim |
| `PushesStay` | `PushStaysWithOwner` | `PushInv`: what was withdrawn at a sign-out reaches that browser by no row, dispatcher or push under way: where the browser unsubscribed, because endpoints are issued once; where only the row went, because a notification not yet claimed is pushed to the rows that are left |
| `ClosedStays` | `StaysClosed` | `SupportInv`: a request that has loaded its ticket knows how often it was closed by then (`Tracked`), and would not have loaded a closed one to write it |
| `ReadIsRead` | `ShownReadIsRead` | `InboxInv`: an answer's "read" was true and reads are never undone; what is shown before it is known has its mark in flight |
| `WorkProofs!TypedStays` | `EditsSurvive` | `DrawerInv`: what counts as typed differs from the copy underneath |
| `MentionsAreHeard` | `MentionHeard` | `HeardInv` with `Targets`: an edit under way found those told whom the comment mentioned when it loaded it |
| `CommentsAreSeen` | `SeesNewComment` | `FollowInv`: what a page or an answer on its way lacks, an event is on its way for |
| `CompletionsAgree`, `AssigneesOnly`, `ExtensionsAreKept` | `CompletionConsistent`, `OnlyWhileAssigned`, `ExtensionsRecorded` | `BoardInv`: what a request will write fits the row with the version it names; a commit on another version fails |
| `ClientProofs!OneTaskOfAForm` | `OneTaskPerForm` | `ComposerInv`: keys are forms, and the server's unique key makes one task of each |
| `LandsAnew` | `LandsOnNothingLeftBehind` | `LeadsAnew`: nothing that leads somewhere was left behind |
| `ChosenIsShown` | `FiltersAsChosen` | `FiltersInv`: box, URL and rendering differ only where a pause or a rendering is under way |
| `OnboardingIsFounded` | `BouncedOnlyOnWord` | `ContextInv`: an empty, loaded list was heard as such |
| `SetUpOnce` | `OneWorkspacePerSetup` | `SetupInv`: the draft, the page and the answers under way name the same workspace |
| `ListIsOfWorkspace` | `ListOfWorkspace` | `ViewInv`: an answer that may still be applied was asked for the workspace shown |
| `NothingSkippedOrTwice` | `HistoryWhole` | `HistoryInv`: the one older page on its way goes on where the feed stops, and knows all the feed knows |

Hypotheses in theorems beyond the modules' assumptions are exactly: no restores
(`PlansFit`, `ArchivedIsPaused`, `AlertIsKept`: a restore writes over what
committed since it read), no creations (`ArchivedIsPaused`), one request
(`SerialOwner`, `SerialAlerts`), one process (`KeepsTheLedger`). In run `schedule`
the scenario `planning` has restores and creations, one request at a time, and
`restoring` has restores over edits; all three of its properties about schedules
hold there too.

Writing the proofs changed the modules in a few places: cases of `TaskBoard` that
overlapped, which TLC tries in order and the logic leaves open, became
alternatives; `History` states a page by what it contains, as the query's
ORDER BY and LIMIT do, since the prover knows nothing of `SelectSeq`; nulls
and bounds got their named assumptions.

Model-checked only: the four liveness properties (`DueIsHandled`,
`FailedIsRetried`, `NothingPassedOver`, `BadgeSettles`), out of the prover's reach
as `ENABLED` is.

## 6. Not modelled, and plan

Not modelled: labels (single statements under unique indexes), the queries behind dashboard and performance
cards, the operator's directory and audit log, avatars, rate limits and wiring,
e-mail templates, the OAuth exchange, API documentation, seeds. Calendar
arithmetic is the library's, down to what `Calendar` uses of it. Nothing here is
about how a page looks.

What is left to prove: type correctness as theorems of their own for `Newsletter`,
`Dispatch`, `Inbox`, `Support`, `TaskBoard`, `TaskDrawer`, `Conversation` and the client's
modules (today a conjunct of the invariants above, where a proof needs it); and
that `ReminderDelivery` with any number of processes implements a ledger that
allows the second mail of `resent`, so that everything else `EmailLedger` promises
is proved for several instances too.
