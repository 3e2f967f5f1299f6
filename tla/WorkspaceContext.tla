--------------------------- MODULE WorkspaceContext ---------------------------
(***************************************************************************)
(* One browser tab of the client as far as it decides which workspace is   *)
(* open: the signed-in account, the list of its workspaces, the id of the  *)
(* active one (with the copy in localStorage) and the page, against a      *)
(* server where people join and leave workspaces meanwhile.  Every refresh *)
(* of the list is a call of its own: the server reads the memberships at   *)
(* some moment, the answer arrives at a later one, and what its caller     *)
(* does next (switch, go to the dashboard or to onboarding) follows it,    *)
(* whoever is signed in by then.                                           *)
(*                                                                         *)
(* WorkspaceView and Onboarding build on this module, as the components of *)
(* the client build on WorkspaceContext.tsx.                               *)
(***************************************************************************)
EXTENDS Sequences, FiniteSets, SequencesExt

CONSTANTS
    Account,        \* accounts that sign in to the tab, one after another
    Workspace,      \* ids of workspaces
    MaxRefresh,     \* bound: refreshes of the list that are under way at once
    NoAccount,      \* the user of a signed-out tab
    NoWorkspace     \* a null workspace id

ASSUME NullsAreNoIds == NoAccount \notin Account /\ NoWorkspace \notin Workspace

VARIABLES
    member,         \* [account -> its workspaces, in the order it joined them]
    tab,            \* the state of the tab
    refresh,        \* refreshes under way
    lastWord        \* ghost: what the last answered refresh of this session said

contextVars == <<member, tab, refresh, lastWord>>

Pages == {"signin", "shell", "first", "additional", "invite"}
Lists == {s \in SeqOf(Workspace, Cardinality(Workspace)) : IsInjective(s)}
Words == {"nothing", "listed", "empty", "failed"}

TabState == [user : Account \cup {NoAccount}, page : Pages, listed : Lists, loaded : BOOLEAN,
             current : Workspace \cup {NoWorkspace}, stored : Workspace \cup {NoWorkspace}]

\* What the caller of a refresh does when it returns: where it goes, if
\* anywhere ("answer": to the dashboard or to onboarding, as the list says),
\* and the workspace it switches to.
Sequel == [go : {"stay", "shell", "answer"}, to : Workspace \cup {NoWorkspace}]
Stay == [go |-> "stay", to |-> NoWorkspace]

\* A refresh: the account whose session it carries, the sequel, and the
\* answer once the server has read the memberships.
Refresh == [by : Account, sequel : Sequel, said : Words \ {"empty"}, list : Lists]
Asked(a, s) == [by |-> a, sequel |-> s, said |-> "nothing", list |-> << >>]

ContextTypeOK ==
    /\ member \in [Account -> Lists]
    /\ tab \in TabState
    /\ refresh \subseteq Refresh
    /\ lastWord \in Words

TabSignedOut == [user |-> NoAccount, page |-> "signin", listed |-> << >>, loaded |-> FALSE,
              current |-> NoWorkspace, stored |-> NoWorkspace]

\* The workspace every screen shows: the active id, if the list has it.
ActiveWorkspace == IF tab.current \in ToSet(tab.listed) THEN tab.current ELSE NoWorkspace

SignedIn == tab.user # NoAccount

\* AppShell renders its children, with every provider under it.
Opened == SignedIn /\ tab.page = "shell" /\ tab.loaded /\ ActiveWorkspace # NoWorkspace

Await(r) == /\ Cardinality(refresh) < MaxRefresh
          /\ refresh' = refresh \cup {r}

\* A list has a workspace once.
Without(list, w) ==
    IF w \in ToSet(list) THEN RemoveAt(list, CHOOSE i \in DOMAIN list : list[i] = w) ELSE list

Joined(a, w) == IF Contains(member[a], w) THEN member[a] ELSE Append(member[a], w)
Left(a, w)   == Without(member[a], w)

-----------------------------------------------------------------------------
\* Signing in (by password, or with Google) goes to the page that was asked
\* for, and the context loads the list.
SignInTab(a, p) ==
    /\ ~SignedIn /\ p \in {"shell", "invite", "additional"}
    /\ tab' = [tab EXCEPT !.user = a, !.page = p]
    /\ Await(Asked(a, Stay))
    /\ UNCHANGED <<member, lastWord>>

\* Mutated form: the list stays marked as loaded, as it once did.
EmptiedOnly(t) == [t EXCEPT !.listed = << >>, !.current = NoWorkspace]

\* The context clears itself; what localStorage remembers stays.
Emptied(t) == [t EXCEPT !.listed = << >>, !.current = NoWorkspace, !.loaded = FALSE]

\* Signing out, or a session that ended: the refreshes under way go on.
SignOutTab ==
    /\ SignedIn
    /\ tab' = Emptied([tab EXCEPT !.user = NoAccount, !.page = "signin"])
    /\ lastWord' = "nothing"
    /\ UNCHANGED <<member, refresh>>

\* The page is loaded anew with a live session: nothing under way is heard of
\* again, and the list is loaded once the session check has answered.
ReloadTab ==
    /\ SignedIn
    /\ tab' = Emptied(tab)
    /\ refresh' = {Asked(tab.user, Stay)}
    /\ lastWord' = "nothing"
    /\ UNCHANGED member

-----------------------------------------------------------------------------
\* The server reads the memberships of the account, or the call fails.
ReadList(r) ==
    /\ r.said = "nothing"
    /\ \E said \in {"listed", "failed"} :
         refresh' = (refresh \ {r}) \cup
             {[r EXCEPT !.said = said, !.list = IF said = "listed" THEN member[r.by] ELSE << >>]}
    /\ UNCHANGED <<member, tab, lastWord>>

\* The list replaces the one shown; the active workspace stays if it is still
\* a membership (before the first answer, the remembered one counts), or
\* becomes the first of the list.
Taken(t, list) ==
    LET preferred == IF t.current # NoWorkspace THEN t.current ELSE t.stored
        next == IF preferred \in ToSet(list) THEN preferred
                ELSE IF list = << >> THEN NoWorkspace ELSE Head(list)
    IN  [t EXCEPT !.listed = list, !.current = next, !.stored = next]

Switched(t, w) == [t EXCEPT !.current = w, !.stored = w]

\* The sequel of a refresh: a signed-out tab is sent back to the sign-in page.
Followed(t, r) ==
    LET u == IF r.sequel.to = NoWorkspace THEN t ELSE Switched(t, r.sequel.to)
        p == CASE r.sequel.go = "stay" -> u.page
               [] r.sequel.go = "answer" /\ r.list = << >> -> "first"
               [] OTHER -> "shell"
    IN  [u EXCEPT !.page = IF u.user = NoAccount THEN "signin" ELSE p]

ListArrives(r) ==
    /\ r.said # "nothing"
    /\ refresh' = refresh \ {r}
    /\ LET t == IF r.said = "listed" THEN Taken(tab, r.list) ELSE tab
       IN  tab' = Followed([t EXCEPT !.loaded = TRUE], r)
    /\ lastWord' = IF r.said = "listed" /\ r.list = << >> THEN "empty" ELSE r.said
    /\ UNCHANGED member

-----------------------------------------------------------------------------
\* The switcher, a notification of another workspace, a task or project of one.
SwitchWorkspace(w) ==
    /\ Opened /\ w \in ToSet(tab.listed) \ {tab.current}
    /\ tab' = Switched(tab, w)
    /\ UNCHANGED <<member, refresh, lastWord>>

\* Leaving the open workspace refreshes the list and returns to the dashboard;
\* deleting it goes where the refreshed list says.
LeaveOrDelete(go) ==
    /\ Opened /\ ActiveWorkspace \in ToSet(member[tab.user])
    /\ member' = [member EXCEPT ![tab.user] = Left(tab.user, ActiveWorkspace)]
    /\ Await(Asked(tab.user, [go |-> go, to |-> NoWorkspace]))
    /\ UNCHANGED <<tab, lastWord>>

\* A change of members or roles is followed by a refresh.
ManageMembers ==
    /\ Opened
    /\ Await(Asked(tab.user, Stay))
    /\ UNCHANGED <<member, tab, lastWord>>

\* An invitation accepted in the app or on its own page: refresh, then switch,
\* and outside the app the dashboard.
AcceptHere(w) ==
    /\ SignedIn /\ tab.page \in {"shell", "first", "invite"}
    /\ w \notin ToSet(member[tab.user])
    /\ member' = [member EXCEPT ![tab.user] = Joined(tab.user, w)]
    /\ Await(Asked(tab.user, [go |-> IF tab.page = "shell" THEN "stay" ELSE "shell", to |-> w]))
    /\ UNCHANGED <<tab, lastWord>>

\* Someone removes the account from a workspace, or it joins on another device.
ChangedElsewhere(a, w) ==
    /\ member' = [member EXCEPT ![a] = IF w \in ToSet(@) THEN Left(a, w) ELSE Joined(a, w)]
    /\ UNCHANGED <<tab, refresh, lastWord>>

\* A signed-in tab without a workspace, its list loaded, goes to onboarding.
GoToOnboarding ==
    /\ SignedIn /\ tab.page = "shell" /\ tab.loaded /\ tab.listed = << >>
    /\ tab' = [tab EXCEPT !.page = "first"]
    /\ UNCHANGED <<member, refresh, lastWord>>

\* The other links: to a new workspace, to an invitation and back.
Visit(p) ==
    /\ SignedIn /\ p # tab.page
    /\ p \in IF Opened THEN {"additional", "invite"} ELSE {"shell"}
    /\ tab.page = "shell" => Opened
    /\ tab' = [tab EXCEPT !.page = p]
    /\ UNCHANGED <<member, refresh, lastWord>>

-----------------------------------------------------------------------------
ContextInit ==
    /\ member \in [Account -> Lists]
    /\ tab = TabSignedOut
    /\ refresh = {}
    /\ lastWord = "nothing"

RefreshStep == \E r \in refresh : ReadList(r) \/ ListArrives(r)

SignInTabs == \E a \in Account, p \in Pages : SignInTab(a, p)

SessionStep == SignInTabs \/ SignOutTab \/ ReloadTab

PlaceStep == \/ \E w \in Workspace : SwitchWorkspace(w) \/ AcceptHere(w)
             \/ \E go \in {"shell", "answer"} : LeaveOrDelete(go)
             \/ \E p \in Pages : Visit(p)
             \/ ManageMembers
             \/ GoToOnboarding

ElsewhereStep == \E a \in Account, w \in Workspace : ChangedElsewhere(a, w)

ContextNext == RefreshStep \/ SessionStep \/ PlaceStep \/ ElsewhereStep

ContextSpec == ContextInit /\ [][ContextNext]_contextVars

-----------------------------------------------------------------------------
\* Nobody is sent to onboarding before a list has been heard: the last answer
\* since the tab signed in or out, or was loaded, was an empty list or a
\* failure (WorkspaceContext.tsx:54-60, AppShell.tsx:39-41).
BouncedOnlyOnWord ==
    [][tab.page = "shell" /\ tab'.page = "first" => lastWord' \in {"empty", "failed"}]_contextVars
===============================================================================
