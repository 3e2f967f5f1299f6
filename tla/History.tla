-------------------------------- MODULE History --------------------------------
(***************************************************************************)
(* The activity history: entries that are only ever added, each by the     *)
(* transaction of the change it records; pages of them read newest first   *)
(* after a cursor (findActivityPage); and the feed that shows them and     *)
(* appends older pages (ActivityFeed), while people go on working and      *)
(* calls fail.  Entries are numbered by createdAt, which they get before   *)
(* their transaction commits: a later entry may be read before an earlier. *)
(***************************************************************************)
EXTENDS Naturals, Sequences, FiniteSets, SequencesExt

CONSTANTS
    PageSize,       \* entries of a page
    MaxEntries,     \* bound: entries
    MaxFeedLoads    \* bound: loads of the first page

ASSUME HistoryAssumption == PageSize \in Nat \ {0} /\ MaxEntries \in Nat /\ MaxFeedLoads \in Nat

VARIABLES
    written,        \* how many entries were written
    committed,      \* the entries a query finds
    feed,           \* what the feed shows
    pages,          \* its calls
    mixed           \* ghost: a load of the first page met one of an older page

historyVars == <<written, committed, feed, pages, mixed>>

Entries == 1..MaxEntries
PageOf == UNION {[1..n -> Entries] : n \in 0..PageSize}

\* `next': the cursor, 0 when there is nothing older.  `request': the number of
\* the latest load of the first page.  `known' (ghost): the entries there were
\* when the first page shown was read.
Feed == [shown : Seq(Entries), next : 0..MaxEntries, request : 0..MaxFeedLoads, loading : BOOLEAN,
         known : SUBSET Entries]

\* A call: the request number of a first page, 0 of an older one; the cursor;
\* the page once it was read, or that it failed.
Call == [request : 0..MaxFeedLoads, before : 0..MaxEntries, at : {"asked", "read", "failed"},
         page : PageOf, next : 0..MaxEntries, known : SUBSET Entries]

HistoryTypeOK == /\ written \in 0..MaxEntries /\ committed \subseteq 1..written
                 /\ feed \in Feed /\ pages \subseteq Call /\ mixed \in BOOLEAN

-----------------------------------------------------------------------------
Older(before) == IF before = 0 THEN committed ELSE {e \in committed : e < before}

\* A page of the newest of these entries, newest first.
Newest(page, entries) ==
    /\ ToSet(page) \subseteq entries
    /\ \A i, j \in DOMAIN page : i < j => page[j] < page[i]
    /\ \A e \in entries \ ToSet(page) : Len(page) = PageSize /\ e < Last(page)

\* Mutated form: a page starts after as many entries as are shown.
PageByOffset(page, before) ==
    Newest(page, IF before = 0 THEN committed
                 ELSE {e \in committed : Cardinality({f \in committed : f >= e}) > Len(feed.shown)})

\* What a query reads: the newest entries before the cursor, or of all.
PageBefore(page, before) == Newest(page, Older(before))

\* The last entry of the page, if one more row was found after it.
NextCursor(page, before) == IF Older(before) \subseteq ToSet(page) THEN 0 ELSE Last(page)

\* A change writes its entry in its transaction, which commits or is undone.
WriteEntry ==
    /\ written < MaxEntries
    /\ written' = written + 1
    /\ UNCHANGED <<committed, feed, pages, mixed>>

RecordActivity(e) ==
    /\ e \in 1..written \ committed
    /\ committed' = committed \cup {e}
    /\ UNCHANGED <<written, feed, pages, mixed>>

Ask(request, before) ==
    pages' = pages \cup {[request |-> request, before |-> before, at |-> "asked",
                          page |-> << >>, next |-> 0, known |-> {}]}

\* When the feed opens, its parent saved a change, or "Try again" is clicked.
LoadFirstPage ==
    /\ feed.request < MaxFeedLoads
    /\ feed' = [feed EXCEPT !.request = @ + 1, !.loading = TRUE]
    /\ Ask(feed.request + 1, 0)
    /\ mixed' = (mixed \/ \E c \in pages : c.request = 0)
    /\ UNCHANGED <<written, committed>>

\* "Show older activity": the button waits for whatever loads.
LoadOlder ==
    /\ feed.next # 0 /\ ~feed.loading
    /\ feed' = [feed EXCEPT !.loading = TRUE]
    /\ Ask(0, feed.next)
    /\ mixed' = (mixed \/ \E c \in pages : c.request = feed.request)
    /\ UNCHANGED <<written, committed>>

ServePage(c) ==
    /\ c.at = "asked"
    /\ \/ \E page \in PageOf :
            /\ PageBefore(page, c.before)
            /\ pages' = (pages \ {c}) \cup {[c EXCEPT !.at = "read", !.page = page, !.known = committed,
                                                       !.next = NextCursor(page, c.before)]}
       \/ pages' = (pages \ {c}) \cup {[c EXCEPT !.at = "failed"]}
    /\ UNCHANGED <<written, committed, feed, mixed>>

\* Only the latest load of the first page is shown; an older page is appended.
PageArrives(c) ==
    /\ c.at # "asked"
    /\ pages' = pages \ {c}
    /\ feed' = IF c.request \notin {0, feed.request} THEN feed
               ELSE IF c.at = "failed" THEN [feed EXCEPT !.loading = FALSE]
               ELSE IF c.request = 0
               THEN [feed EXCEPT !.loading = FALSE, !.next = c.next, !.shown = @ \o c.page]
               ELSE [feed EXCEPT !.loading = FALSE, !.next = c.next, !.shown = c.page, !.known = c.known]
    /\ UNCHANGED <<written, committed, mixed>>

-----------------------------------------------------------------------------
HistoryInit ==
    /\ written \in Entries \cup {0} /\ committed = 1..written
    /\ feed = [shown |-> << >>, next |-> 0, request |-> 0, loading |-> FALSE, known |-> {}]
    /\ pages = {} /\ mixed = FALSE

HistoryNext == \/ WriteEntry \/ LoadFirstPage \/ LoadOlder
               \/ \E e \in Entries : RecordActivity(e)
               \/ \E c \in pages : ServePage(c) \/ PageArrives(c)

HistorySpec == HistoryInit /\ [][HistoryNext]_historyVars

-----------------------------------------------------------------------------
\* Whatever is recorded between two pages, the feed shows entries newest first,
\* none twice, and of those there were when it was opened none is missing down
\* to the last one shown, or at all once there is nothing older
\* (activity.controller.ts:30-31).  A first page reloaded while an older one is
\* on its way is excepted.
HistoryWhole ==
    ~mixed => /\ \A i \in 1..(Len(feed.shown) - 1) : feed.shown[i + 1] < feed.shown[i]
              /\ \A e \in feed.known : feed.next = 0 \/ e >= Last(feed.shown)
                                         => e \in ToSet(feed.shown)
===============================================================================
