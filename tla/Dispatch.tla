------------------------------- MODULE Dispatch -------------------------------
(***************************************************************************)
(* Handing each notification to the live channels: the dispatchers that    *)
(* claim it, the web push that follows, and the browsers that register for *)
(* push, share it between accounts and drop it when someone signs out.     *)
(*                                                                         *)
(* Sources: dispatchPendingNotifications of services/realtimeService.ts,   *)
(* services/pushService.ts and                                             *)
(* controllers/notificationPreference.controller.ts under src/server/src;  *)
(* utils/browserPush.ts, the preferences of context/LiveUpdatesContext.tsx *)
(* and the sign-out of context/AuthContext.tsx under src/client/src.       *)
(*                                                                         *)
(* Left out: the suspension of accounts, the browser's permission prompt   *)
(* (always granted), and the sound preference.                             *)
(***************************************************************************)
EXTENDS Naturals, FiniteSets, FiniteSetsExt

CONSTANTS
    Account,      \* people
    Browser,      \* browsers, shared between people
    Dispatcher,   \* one per server instance
    MaxNote,      \* bounds the notifications
    MaxEndpoint,  \* bounds the push subscriptions ever made
    Batch,        \* DISPATCH_BATCH
    MaxFail,      \* bounds the dispatches that die
    Nobody        \* no account

ASSUME DispatchAssumption ==
    /\ MaxNote \in Nat /\ MaxEndpoint \in Nat /\ MaxFail \in Nat
    /\ Batch \in Nat \ {0} /\ Nobody \notin Account

VARIABLES
    note,         \* the Notification rows
    dispatcher,   \* where each dispatch is
    published,    \* how often each notification went to its recipient's open tabs
    registered,   \* the PushSubscription rows: whose each endpoint is
    pushOn,       \* the accounts with pushEnabled
    browser,      \* who is signed in and what the page is doing about push
    issued,       \* the endpoints the browsers have been given
    wire,         \* pushes accepted by the push service
    shown,        \* pushes shown, and where
    left,         \* auxiliary: the pushes a sign-out took from each browser
    failures      \* dispatches that died

dispatchVars == <<note, dispatcher, published, registered, pushOn, browser, issued,
                  wire, shown, left, failures>>

-------------------------------------------------------------------------------
(* Rows and processes *)

Note     == 1 .. MaxNote
Endpoint == 1 .. MaxEndpoint

\* "old": past DISPATCH_WINDOW_MS without having been claimed.
NoteRow == [to : Account \cup {Nobody}, stage : {"unborn", "new", "old", "claimed"}]
NoNote  == [to |-> Nobody, stage |-> "unborn"]

\* `pending' is what the dispatch read and has not come to; `to' the devices it still
\* has to push `now' to.
Idle == [at |-> "idle", pending |-> {}, now |-> 0, to |-> {}]

\* `task' registers for push; `asking' is who sent the registration, for which
\* endpoint.  `leaving' signs out ("out") or turns push off ("off").  Auxiliary:
\* `crossed' tells that a registration was under way meanwhile, `failed' what the
\* clean-up could not do: remove the row, drop the endpoint.
SignedOut == [user |-> Nobody, endpoint |-> 0, task |-> "none",
              asking |-> [who |-> Nobody, for |-> 0],
              leaving |-> "no", phase |-> "none", crossed |-> FALSE, failed |-> {}]

DispatchTypeOK ==
    /\ note \in [Note -> NoteRow]
    /\ \A n \in Note : (note[n].stage = "unborn") = (note[n].to = Nobody)
    /\ \A d \in Dispatcher :
         /\ dispatcher[d].at \in {"idle", "choosing", "publishing", "reading", "pushing"}
         /\ dispatcher[d].pending \subseteq Note /\ dispatcher[d].to \subseteq Endpoint
         /\ dispatcher[d].at \in {"publishing", "reading", "pushing"} =>
              dispatcher[d].now \in Note /\ note[dispatcher[d].now].stage = "claimed"
    /\ registered \in [Endpoint -> Account \cup {Nobody}]
    /\ \A e \in Endpoint : registered[e] # Nobody => e <= issued
    /\ pushOn \subseteq Account
    /\ \A b \in Browser :
         /\ browser[b].endpoint \in 0 .. issued
         /\ browser[b].task \in {"none", "asked", "sending"}
         /\ browser[b].leaving \in {"no", "off", "out"}
         /\ browser[b].leaving # "no" => browser[b].user # Nobody
         /\ browser[b].failed \subseteq {"row", "endpoint"}
    /\ left \in [Browser -> SUBSET (Account \X Note)]

-------------------------------------------------------------------------------
(* The dispatcher *)

\* createNotifications, in the transaction of the change.
CreateNote(u) ==
    /\ \E n \in Note : note[n].stage = "unborn"
    /\ LET n == Min({x \in Note : note[x].stage = "unborn"})
       IN  note' = [note EXCEPT ![n] = [to |-> u, stage |-> "new"]]
    /\ UNCHANGED <<dispatcher, published, registered, pushOn, browser, issued, wire,
                   shown, left, failures>>

Age(n) ==
    /\ note[n].stage = "new"
    /\ note' = [note EXCEPT ![n].stage = "old"]
    /\ UNCHANGED <<dispatcher, published, registered, pushOn, browser, issued, wire,
                   shown, left, failures>>

\* Mutant: the query forgets that the claimed ones are done.
PendingOrDone == {n \in Note : note[n].stage \in {"new", "claimed"}}

Pending == {n \in Note : note[n].stage = "new"}

\* findMany ordered by createdAt, the oldest of the batch first.
Oldest(S) == {n \in S : Cardinality({m \in S : m <= n}) <= Batch}

Moves(d, to) == dispatcher' = [dispatcher EXCEPT ![d] = to]

\* Right after a change commits, and every minute.
StartDispatch(d) ==
    /\ dispatcher[d].at = "idle"
    /\ Moves(d, [Idle EXCEPT !.at = "choosing", !.pending = Oldest(Pending)])
    /\ UNCHANGED <<note, published, registered, pushOn, browser, issued, wire, shown,
                   left, failures>>

EndDispatch(d) ==
    /\ dispatcher[d].at = "choosing" /\ dispatcher[d].pending = {}
    /\ Moves(d, Idle)
    /\ UNCHANGED <<note, published, registered, pushOn, browser, issued, wire, shown,
                   left, failures>>

\* Mutant: the claim does not ask whether the notification is still unclaimed.
Unguarded(n) == TRUE

\* updateMany where dispatchedAt is null.
Claimable(n) == note[n].stage # "claimed"

Claim(d) ==
    LET n    == Min(dispatcher[d].pending)
        rest == [dispatcher[d] EXCEPT !.pending = dispatcher[d].pending \ {n}]
    IN
    /\ dispatcher[d].at = "choosing" /\ dispatcher[d].pending # {}
    /\ IF Claimable(n)
       THEN /\ note' = [note EXCEPT ![n].stage = "claimed"]
            /\ Moves(d, [rest EXCEPT !.at = "publishing", !.now = n])
       ELSE /\ UNCHANGED note
            /\ Moves(d, rest)
    /\ UNCHANGED <<published, registered, pushOn, browser, issued, wire, shown, left, failures>>

Publish(d) ==
    LET n == dispatcher[d].now IN
    /\ dispatcher[d].at = "publishing"
    /\ published' = [published EXCEPT ![n] = published[n] + 1]
    /\ Moves(d, [dispatcher[d] EXCEPT !.at = "reading"])
    /\ UNCHANGED <<note, registered, pushOn, browser, issued, wire, shown, left, failures>>

\* sendPushToUser: the preference, then the devices.
ReadDevices(d) ==
    LET u == note[dispatcher[d].now].to IN
    /\ dispatcher[d].at = "reading"
    /\ Moves(d, [dispatcher[d] EXCEPT !.at = "pushing",
                   !.to = {e \in Endpoint : u \in pushOn /\ registered[e] = u}])
    /\ UNCHANGED <<note, published, registered, pushOn, browser, issued, wire, shown,
                   left, failures>>

Alive(e) == \E b \in Browser : browser[b].endpoint = e

\* One device: accepted, gone (410: the row goes too), or a failure that is let pass.
PushTo(d, e) ==
    LET next == [dispatcher[d] EXCEPT !.to = dispatcher[d].to \ {e}] IN
    /\ dispatcher[d].at = "pushing" /\ e \in dispatcher[d].to
    /\ Moves(d, next)
    /\ \/ /\ Alive(e)
          /\ wire' = wire \cup {[note |-> dispatcher[d].now, endpoint |-> e]}
          /\ UNCHANGED registered
       \/ /\ ~Alive(e)
          /\ registered' = [registered EXCEPT ![e] = Nobody]
          /\ UNCHANGED wire
       \/ UNCHANGED <<registered, wire>>
    /\ UNCHANGED <<note, published, pushOn, browser, issued, shown, left, failures>>

NextNote(d) ==
    /\ dispatcher[d].at = "pushing" /\ dispatcher[d].to = {}
    /\ Moves(d, [dispatcher[d] EXCEPT !.at = "choosing", !.now = 0])
    /\ UNCHANGED <<note, published, registered, pushOn, browser, issued, wire, shown,
                   left, failures>>

\* The process dies, or a query of the dispatch fails.
DispatchDies(d) ==
    /\ dispatcher[d].at # "idle" /\ failures < MaxFail
    /\ failures' = failures + 1
    /\ Moves(d, Idle)
    /\ UNCHANGED <<note, published, registered, pushOn, browser, issued, wire, shown, left>>

\* The push service delivers while the browser still has the subscription.
ShowPush(w, b) ==
    /\ w \in wire /\ browser[b].endpoint = w.endpoint
    /\ shown' = shown \cup {[note |-> w.note, browser |-> b]}
    /\ wire' = wire \ {w}
    /\ UNCHANGED <<note, dispatcher, published, registered, pushOn, browser, issued, left, failures>>

-------------------------------------------------------------------------------
(* The browsers *)

Does(b, state) == browser' = [browser EXCEPT ![b] = state]

SignIn(b, u) ==
    /\ browser[b].user = Nobody
    /\ Does(b, [browser[b] EXCEPT !.user = u])
    /\ left' = [left EXCEPT ![b] = left[b] \ ({u} \X Note)]
    /\ UNCHANGED <<note, dispatcher, published, registered, pushOn, issued, wire, shown, failures>>

\* The session is over and the page finds out: nobody tells the push service.
SessionOver(b) ==
    /\ browser[b].user # Nobody /\ browser[b].leaving = "no"
    /\ Does(b, [browser[b] EXCEPT !.user = Nobody])
    /\ UNCHANGED <<note, dispatcher, published, registered, pushOn, issued, wire, shown,
                   left, failures>>

\* On load with push on, or a click that turns it on.
BeginSubscribe(b, click) ==
    /\ browser[b].user # Nobody /\ browser[b].task = "none"
    /\ click \/ browser[b].user \in pushOn
    /\ pushOn' = pushOn \cup {browser[b].user}
    /\ Does(b, [browser[b] EXCEPT !.task = "asked",
                                  !.crossed = browser[b].crossed \/ browser[b].leaving # "no"])
    /\ UNCHANGED <<note, dispatcher, published, registered, issued, wire, shown, left, failures>>

\* getSubscription, or subscribe for a new endpoint; then it is sent to the server.
GetSubscription(b) ==
    LET fresh == browser[b].endpoint = 0
        e     == IF fresh THEN issued + 1 ELSE browser[b].endpoint
    IN
    /\ browser[b].task = "asked" /\ e \in Endpoint
    /\ issued' = IF fresh THEN e ELSE issued
    /\ Does(b, [browser[b] EXCEPT !.task = "sending", !.endpoint = e,
                                  !.asking = [who |-> browser[b].user, for |-> e]])
    /\ UNCHANGED <<note, dispatcher, published, registered, pushOn, wire, shown, left, failures>>

\* savePushSubscription: for the account of the session that asks, if it still lives.
SaveSubscription(b) ==
    LET ask == browser[b].asking IN
    /\ browser[b].task = "sending"
    /\ registered' = IF ask.who # Nobody /\ ask.who = browser[b].user
                     THEN [registered EXCEPT ![ask.for] = ask.who] ELSE registered
    /\ Does(b, [browser[b] EXCEPT !.task = "none", !.asking = SignedOut.asking])
    /\ UNCHANGED <<note, dispatcher, published, pushOn, issued, wire, shown, left, failures>>

SubscribeFails(b) ==
    /\ browser[b].task \in {"asked", "sending"}
    /\ Does(b, [browser[b] EXCEPT !.task = "none", !.asking = SignedOut.asking])
    /\ UNCHANGED <<note, dispatcher, published, registered, pushOn, issued, wire, shown,
                   left, failures>>

\* unsubscribeThisBrowser: no subscription, nothing to clean up; looking for one may
\* fail, and then it is left as it is.
BeginLeaving(b, why) ==
    LET begun == [browser[b] EXCEPT !.leaving = why, !.crossed = browser[b].task # "none"] IN
    /\ browser[b].user # Nobody /\ browser[b].leaving = "no"
    /\ \/ Does(b, [begun EXCEPT !.phase = IF browser[b].endpoint = 0 THEN "done" ELSE "removing"])
       \/ /\ browser[b].endpoint # 0
          /\ Does(b, [begun EXCEPT !.phase = "done", !.failed = {"row", "endpoint"}])
    /\ UNCHANGED <<note, dispatcher, published, registered, pushOn, issued, wire, shown,
                   left, failures>>

\* removePushSubscription: the caller's own row only; a failure is ignored.
RemoveRow(b) ==
    LET e == browser[b].endpoint IN
    /\ browser[b].phase = "removing"
    /\ \/ /\ registered' = [registered EXCEPT ![e] = IF registered[e] = browser[b].user
                                                     THEN Nobody ELSE registered[e]]
          /\ Does(b, [browser[b] EXCEPT !.phase = "dropping"])
       \/ /\ UNCHANGED registered
          /\ Does(b, [browser[b] EXCEPT !.phase = "dropping", !.failed = {"row"}])
    /\ UNCHANGED <<note, dispatcher, published, pushOn, issued, wire, shown, left, failures>>

\* Mutant: the row is thought to be enough.
KeepSubscription(b) ==
    /\ browser[b].phase = "dropping"
    /\ Does(b, [browser[b] EXCEPT !.phase = "done"])
    /\ UNCHANGED <<note, dispatcher, published, registered, pushOn, issued, wire, shown,
                   left, failures>>

\* subscription.unsubscribe(): from here on the endpoint is gone for good, unless the
\* browser refuses; the leaving goes on either way.
DropSubscription(b) ==
    /\ browser[b].phase = "dropping"
    /\ \/ Does(b, [browser[b] EXCEPT !.phase = "done", !.endpoint = 0])
       \/ Does(b, [browser[b] EXCEPT !.phase = "done",
                                     !.failed = browser[b].failed \cup {"endpoint"}])
    /\ UNCHANGED <<note, dispatcher, published, registered, pushOn, issued, wire, shown,
                   left, failures>>

Rested(b) == [browser[b] EXCEPT !.leaving = "no", !.phase = "none", !.crossed = FALSE,
                                !.failed = {}]

\* Auxiliary: the notifications that are not to reach the browser as pushes for the one
\* who signs out, by what the clean-up did.
Withdrawn(b) ==
    {n \in Note :
       /\ ~browser[b].crossed
       /\ \/ "endpoint" \notin browser[b].failed
          \/ "row" \notin browser[b].failed /\ note[n].stage # "claimed"}

\* The sign-out itself; a logout request that fails only leaves the server's session.
SignOut(b) ==
    /\ browser[b].phase = "done" /\ browser[b].leaving = "out"
    /\ Does(b, [Rested(b) EXCEPT !.user = Nobody])
    /\ left' = [left EXCEPT ![b] = left[b] \cup ({browser[b].user} \X Withdrawn(b))]
    /\ UNCHANGED <<note, dispatcher, published, registered, pushOn, issued, wire, shown, failures>>

\* updatePreferences with pushEnabled false: every device's row goes.
TurnPushOff(b) ==
    LET u == browser[b].user IN
    /\ browser[b].phase = "done" /\ browser[b].leaving = "off"
    /\ Does(b, Rested(b))
    /\ pushOn' = pushOn \ {u}
    /\ registered' = [e \in Endpoint |-> IF registered[e] = u THEN Nobody ELSE registered[e]]
    /\ UNCHANGED <<note, dispatcher, published, issued, wire, shown, left, failures>>

-------------------------------------------------------------------------------

DispatchInit ==
    /\ note = [n \in Note |-> NoNote]
    /\ dispatcher = [d \in Dispatcher |-> Idle]
    /\ published = [n \in Note |-> 0]
    /\ registered = [e \in Endpoint |-> Nobody]
    /\ pushOn = {}
    /\ browser = [b \in Browser |-> SignedOut]
    /\ issued = 0 /\ wire = {} /\ shown = {}
    /\ left = [b \in Browser |-> {}]
    /\ failures = 0

DispatchStep(d) ==
    \/ StartDispatch(d) \/ EndDispatch(d) \/ Claim(d) \/ Publish(d)
    \/ ReadDevices(d) \/ NextNote(d)
    \/ \E e \in Endpoint : PushTo(d, e)

BrowserStep(b) ==
    \/ \E u \in Account : SignIn(b, u)
    \/ SessionOver(b) \/ GetSubscription(b) \/ SaveSubscription(b) \/ SubscribeFails(b)
    \/ \E click \in BOOLEAN : BeginSubscribe(b, click)
    \/ \E why \in {"out", "off"} : BeginLeaving(b, why)
    \/ RemoveRow(b) \/ DropSubscription(b) \/ SignOut(b) \/ TurnPushOff(b)
    \/ \E w \in wire : ShowPush(w, b)

DispatchNext ==
    \/ \E u \in Account : CreateNote(u)
    \/ \E n \in Note : Age(n)
    \/ \E d \in Dispatcher : DispatchStep(d) \/ DispatchDies(d)
    \/ \E b \in Browser : BrowserStep(b)

\* The sweep of every instance dispatches each minute, one at a time (BullMQ,
\* concurrency 1), and what it started goes on unless it dies.
DispatchFairness == \A d \in Dispatcher : WF_dispatchVars(DispatchStep(d))

DispatchSpec == DispatchInit /\ [][DispatchNext]_dispatchVars /\ DispatchFairness

-------------------------------------------------------------------------------
(* What must hold *)

\* However many dispatchers read a notification before the first claimed it, it goes to
\* the open tabs and to each device at most once (realtimeService.ts:134-136).
PublishedOnce == \A n \in Note : published[n] <= 1

\* Whoever signs out of a browser is not followed by their push notifications there
\* (AuthContext.tsx:225-226): neither half of the clean-up is needed for it alone.  When
\* the browser dropped the subscription, no push arrives however late and whether or not
\* the server removed the row; when it did not, but the server removed the row, no
\* notification that a dispatcher had not claimed by then arrives.  When both fail
\* (browserPush.ts:56-60 goes on) or a registration was under way, pushes may follow.
PushStaysWithOwner ==
    [][\A s \in shown' \ shown : <<note[s.note].to, s.note>> \notin left[s.browser]]_dispatchVars

\* With more notifications than a batch holds, dispatches that die and rivals that claim
\* first, none is passed over for ever: it is claimed before it is too old to matter.
NothingPassedOver == \A n \in Note : note[n].stage = "new" ~> note[n].stage # "new"
===============================================================================
