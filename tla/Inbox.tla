-------------------------------- MODULE Inbox --------------------------------
(***************************************************************************)
(* One person's notifications as their tab shows them: the bell's badge,   *)
(* polled and refreshed by live events, and the inbox page with its two    *)
(* filters, its pages, and the marks it shows before the server knows.     *)
(*                                                                         *)
(* Sources: controllers/notification.controller.ts under src/server/src;   *)
(* the badge of context/MyWorkContext.tsx and                              *)
(* app/(workspace)/notifications/page.tsx under src/client/src.            *)
(*                                                                         *)
(* Left out: what an item says and whether it can still be opened, and the *)
(* panel of overdue work and invitations beside the inbox.                 *)
(***************************************************************************)
EXTENDS Naturals, FiniteSets, FiniteSetsExt

CONSTANTS
    MaxItem,     \* bounds the notifications; a later one has a higher number
    PageSize,    \* the limit of a list request
    Call,        \* calls in flight at the same time
    MaxDropped   \* bounds the calls that fail

ASSUME InboxAssumption == MaxItem \in Nat /\ PageSize \in Nat \ {0} /\ MaxDropped \in Nat

VARIABLES
    row,        \* what the server knows of each notification
    badge,      \* the number on the bell
    inbox,      \* the page
    call,       \* the calls in flight
    dropped     \* calls that failed

inboxVars == <<row, badge, inbox, call, dropped>>

-------------------------------------------------------------------------------
(* Rows, the page and its calls *)

Item   == 1 .. MaxItem
Filter == {"all", "unread"}

\* `list': how the page shows each item it holds; `cursor': the oldest item of the last
\* page when there is more, else 0.
Page   == [open : BOOLEAN, filter : Filter, loaded : BOOLEAN, failed : BOOLEAN,
           list : [Item -> {"absent", "unread", "read"}], cursor : 0 .. MaxItem,
           older : BOOLEAN, marking : BOOLEAN]
Nothing == [n \in Item |-> "absent"]
Closed  == [open |-> FALSE, filter |-> "all", loaded |-> FALSE, failed |-> FALSE,
            list |-> Nothing, cursor |-> 0, older |-> FALSE, marking |-> FALSE]

\* `here': the page that sent it is still on screen; `ends': the load that ends markAll.
NoCall == [kind |-> "none", at |-> "sent", here |-> FALSE, ends |-> FALSE, item |-> 0, filter |-> "all",
           list |-> Nothing, cursor |-> 0, count |-> 0]

Born   == {n \in Item : row[n] # "unborn"}
Unread == {n \in Item : row[n] = "unread"}

InboxTypeOK ==
    /\ row \in [Item -> {"unborn", "unread", "read"}]
    /\ badge \in 0 .. MaxItem
    /\ inbox \in Page /\ (~inbox.open => inbox = Closed)
    /\ \A n \in Item : inbox.list[n] # "absent" => n \in Born
    /\ \A c \in Call :
         /\ call[c].kind \in {"none", "count", "load", "older", "mark", "all"}
         /\ call[c].at \in {"sent", "answered"}
         /\ call[c].kind = "mark" => call[c].item \in Born
         /\ call[c].count \in 0 .. MaxItem
    /\ dropped \in 0 .. MaxDropped

-------------------------------------------------------------------------------
(* The server *)

Arrives ==
    /\ Born # Item
    /\ row' = [row EXCEPT ![Min(Item \ Born)] = "unread"]
    /\ UNCHANGED <<badge, inbox, call, dropped>>

\* Another tab or device.
ReadElsewhere(n) ==
    /\ n \in Unread
    /\ row' = [row EXCEPT ![n] = "read"]
    /\ UNCHANGED <<badge, inbox, call, dropped>>

Serves(c, kind) == call[c].kind = kind /\ call[c].at = "sent"
Replies(c, q) == call' = [call EXCEPT ![c] = [q EXCEPT !.at = "answered"]]

\* Mutant: only as many as a page holds are counted.
CountOnePage == Min({PageSize, Cardinality(Unread)})

CountUnread == Cardinality(Unread)

GetUnreadCount(c) ==
    /\ Serves(c, "count")
    /\ Replies(c, [call[c] EXCEPT !.count = CountUnread])
    /\ UNCHANGED <<row, badge, inbox, dropped>>

\* The newest first.  From the cursor's item on, skipping one: that item, or when it left
\* the filter meanwhile, the first item after it.
ListNotifications(c) ==
    LET q       == call[c]
        kept    == {n \in Born : q.filter = "unread" => row[n] = "unread"}
        reached == {n \in kept : n <= q.cursor}
        matches == IF q.kind = "load" THEN kept
                   ELSE {n \in reached : \E m \in reached : m > n}
        page    == {n \in matches : Cardinality({m \in matches : m >= n}) <= PageSize}
    IN
    /\ Serves(c, "load") \/ Serves(c, "older")
    /\ Replies(c, [q EXCEPT !.list = [n \in Item |-> IF n \in page THEN row[n] ELSE "absent"],
                            !.cursor = IF page = matches THEN 0 ELSE Min(page),
                            !.count = CountUnread])
    /\ UNCHANGED <<row, badge, inbox, dropped>>

MarkNotificationRead(c) ==
    /\ Serves(c, "mark")
    /\ row' = [row EXCEPT ![call[c].item] = "read"]
    /\ Replies(c, [call[c] EXCEPT !.count = Cardinality(Unread \ {call[c].item})])
    /\ UNCHANGED <<badge, inbox, dropped>>

MarkAllNotificationsRead(c) ==
    /\ Serves(c, "all")
    /\ row' = [n \in Item |-> IF n \in Born THEN "read" ELSE "unborn"]
    /\ Replies(c, [call[c] EXCEPT !.count = 0])
    /\ UNCHANGED <<badge, inbox, dropped>>

-------------------------------------------------------------------------------
(* The badge *)

Free(c)    == call[c].kind = "none"
Asks(c, q) == call' = [call EXCEPT ![c] = q]

\* On load, each minute, on focus and on each live event: nothing waits for the last one.
RefreshUnread(c) ==
    /\ Free(c)
    /\ Asks(c, [NoCall EXCEPT !.kind = "count"])
    /\ UNCHANGED <<row, badge, inbox, dropped>>

\* A count that fails leaves the last known one.
TakeCount(c) ==
    /\ call[c].kind = "count" /\ call[c].at = "answered"
    /\ badge' = call[c].count
    /\ Asks(c, NoCall)
    /\ UNCHANGED <<row, inbox, dropped>>

-------------------------------------------------------------------------------
(* The page *)

LoadOf(filter) == [NoCall EXCEPT !.kind = "load", !.here = TRUE, !.filter = filter]

OpenInbox(c) ==
    /\ ~inbox.open /\ Free(c)
    /\ inbox' = [Closed EXCEPT !.open = TRUE]
    /\ Asks(c, LoadOf("all"))
    /\ UNCHANGED <<row, badge, dropped>>

CloseInbox ==
    /\ inbox.open
    /\ inbox' = Closed
    /\ call' = [c \in Call |-> [call[c] EXCEPT !.here = FALSE]]
    /\ UNCHANGED <<row, badge, dropped>>

\* The loads of the other filter stay in flight, and their answers count.
ChangeFilter(c, filter) ==
    /\ inbox.open /\ Free(c) /\ filter # inbox.filter
    /\ inbox' = [inbox EXCEPT !.filter = filter, !.loaded = FALSE, !.list = Nothing]
    /\ Asks(c, LoadOf(filter))
    /\ UNCHANGED <<row, badge, dropped>>

Reload(c) ==
    /\ inbox.open /\ inbox.failed /\ Free(c)
    /\ Asks(c, LoadOf(inbox.filter))
    /\ UNCHANGED <<row, badge, inbox, dropped>>

LoadOlder(c) ==
    /\ inbox.open /\ inbox.loaded /\ ~inbox.failed /\ inbox.cursor # 0 /\ ~inbox.older /\ Free(c)
    /\ inbox' = [inbox EXCEPT !.older = TRUE]
    /\ Asks(c, [LoadOf(inbox.filter) EXCEPT !.kind = "older", !.cursor = inbox.cursor])
    /\ UNCHANGED <<row, badge, dropped>>

\* Shown as read before the server has it.
MarkRead(c, n) ==
    /\ inbox.open /\ inbox.loaded /\ ~inbox.failed /\ inbox.list[n] = "unread" /\ Free(c)
    /\ inbox' = [inbox EXCEPT !.list[n] = "read"]
    /\ Asks(c, [NoCall EXCEPT !.kind = "mark", !.here = TRUE, !.item = n])
    /\ UNCHANGED <<row, badge, dropped>>

MarkAll(c) ==
    /\ inbox.open /\ inbox.loaded /\ ~inbox.marking /\ Free(c)
    /\ \E n \in Item : inbox.list[n] = "unread"
    /\ inbox' = [inbox EXCEPT !.marking = TRUE]
    /\ Asks(c, [NoCall EXCEPT !.kind = "all", !.here = TRUE, !.filter = inbox.filter])
    /\ UNCHANGED <<row, badge, dropped>>

\* The badge takes every count, whether or not the page that asked is still there; the
\* list takes the answers of its page, for whichever filter they were asked.
TakeList(c) ==
    LET q == call[c] IN
    /\ q.kind = "load" /\ q.at = "answered"
    /\ inbox' = IF q.here
                THEN [inbox EXCEPT !.list = q.list, !.cursor = q.cursor, !.loaded = TRUE,
                                   !.failed = FALSE, !.marking = inbox.marking /\ ~q.ends]
                ELSE inbox
    /\ badge' = q.count
    /\ Asks(c, NoCall)
    /\ UNCHANGED <<row, dropped>>

TakeOlder(c) ==
    LET q == call[c] IN
    /\ q.kind = "older" /\ q.at = "answered"
    /\ inbox' = IF q.here
                THEN [inbox EXCEPT !.cursor = q.cursor, !.older = FALSE, !.loaded = TRUE,
                        !.list = [n \in Item |-> IF q.list[n] # "absent" THEN q.list[n]
                                                 ELSE inbox.list[n]]]
                ELSE inbox
    /\ Asks(c, NoCall)
    /\ UNCHANGED <<row, badge, dropped>>

TakeMark(c) ==
    /\ call[c].kind = "mark" /\ call[c].at = "answered"
    /\ badge' = call[c].count
    /\ Asks(c, NoCall)
    /\ UNCHANGED <<row, inbox, dropped>>

\* Then it loads again, with the filter it was clicked under.
TakeAll(c) ==
    /\ call[c].kind = "all" /\ call[c].at = "answered"
    /\ badge' = 0
    /\ Asks(c, [LoadOf(call[c].filter) EXCEPT !.here = call[c].here, !.ends = TRUE])
    /\ UNCHANGED <<row, inbox, dropped>>

\* Mutant: a mark that fails is left as it was shown.
LeaveMarked(q) == inbox

\* A load shows the failure; a mark is taken back, even in a list that is not there yet
\* (it then counts as loaded).
AfterFailure(q) ==
    CASE q.kind = "load" -> [inbox EXCEPT !.failed = TRUE, !.marking = inbox.marking /\ ~q.ends]
      [] q.kind = "older" -> [inbox EXCEPT !.older = FALSE]
      [] q.kind = "mark" -> [inbox EXCEPT !.loaded = TRUE, !.list[q.item] =
                               IF inbox.list[q.item] = "absent" THEN "absent" ELSE "unread"]
      [] OTHER -> [inbox EXCEPT !.marking = FALSE]

\* Refused, lost, or its answer lost.
CallFails(c) ==
    /\ ~Free(c) /\ dropped < MaxDropped
    /\ dropped' = dropped + 1
    /\ inbox' = IF call[c].here THEN AfterFailure(call[c]) ELSE inbox
    /\ Asks(c, NoCall)
    /\ UNCHANGED <<row, badge>>

-------------------------------------------------------------------------------

InboxInit ==
    /\ row = [n \in Item |-> "unborn"]
    /\ badge = 0 /\ inbox = Closed
    /\ call = [c \in Call |-> NoCall]
    /\ dropped = 0

\* A call is served and its answer is taken.
Completes(c) ==
    \/ GetUnreadCount(c) \/ ListNotifications(c)
    \/ MarkNotificationRead(c) \/ MarkAllNotificationsRead(c)
    \/ TakeCount(c) \/ TakeList(c) \/ TakeOlder(c) \/ TakeMark(c) \/ TakeAll(c)

PageStep(c) ==
    \/ OpenInbox(c) \/ Reload(c) \/ LoadOlder(c) \/ MarkAll(c)
    \/ \E filter \in Filter : ChangeFilter(c, filter)
    \/ \E n \in Item : MarkRead(c, n)

InboxNext ==
    \/ Arrives \/ CloseInbox
    \/ \E n \in Item : ReadElsewhere(n)
    \/ \E c \in Call : RefreshUnread(c) \/ PageStep(c) \/ Completes(c) \/ CallFails(c)

\* The timer keeps refreshing while the tab is visible (strong, because a refresh needs a
\* free place among the calls), and every call is answered or fails.
InboxFairness ==
    /\ SF_inboxVars(\E c \in Call : RefreshUnread(c))
    /\ \A c \in Call : WF_inboxVars(Completes(c))

InboxSpec == InboxInit /\ [][InboxNext]_inboxVars /\ InboxFairness

-------------------------------------------------------------------------------
(* What must hold *)

Marking(n) == \E c \in Call : call[c].kind = "all" \/ (call[c].kind = "mark" /\ call[c].item = n)

\* What the page shows as read is read on the server, once nothing is in flight to make
\* it so: a mark that fails is taken back even when loads, filters and other marks come
\* between (notifications/page.tsx:130-141).
ShownReadIsRead == \A n \in Item : (inbox.list[n] = "read" /\ ~Marking(n)) => row[n] = "read"

\* However the answers of overlapping refreshes, loads and marks were ordered, the badge
\* ends up as the number of unread notifications (MyWorkContext.tsx:33-34, :69-88).
BadgeSettles == <>[](badge = Cardinality(Unread))
===============================================================================
