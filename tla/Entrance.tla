------------------------------- MODULE Entrance -------------------------------
(***************************************************************************)
(* How people come into and out of the client in one browser tab: the      *)
(* session check of a loaded page, signing in with a password or through   *)
(* Google, the accept-terms gate, session expiry and signing out, and what *)
(* the browser remembers meanwhile about where to land: the page to return *)
(* to and a pending invitation (pendingInvite.js).                         *)
(*                                                                         *)
(* React runs the effects of the mounted page after every state change, so *)
(* each action below ends in them (Shows).                                 *)
(***************************************************************************)
EXTENDS FiniteSets

CONSTANTS
    Person,     \* accounts
    Place,      \* pages of the workspace shell
    Home,       \* its dashboard
    Link,       \* tokens of invitations
    Nobody,     \* a null user
    Nowhere     \* a null path or token

ASSUME HomeIsAPlace == Home \in Place

VARIABLES
    door,       \* the state of the tab
    path,       \* sessionStorage: the page to return to after signing in
    invite,     \* localStorage: the invitation to return to
    cookie,     \* whose session the browser's cookies carry
    accepted,   \* people who accepted the current terms
    answerable, \* invitations that can still be answered
    leftBehind  \* ghost: what was remembered when somebody signed out, and not since

doorVars == <<door, path, invite, cookie, accepted, answerable, leftBehind>>

Door == {"login", "signup", "callback"} \cup Place \cup Link

\* The calls of a page: not made, asked (a session check asks again after a
\* refresh), refused, or answered for a person.
Answers == Person \cup {"idle", "asked", "again", "refused"}

\* `seen': the mounted shell saw somebody signed in.  `preview': the invitation
\* page knows what became of its link.  `leaving', `switching': signing out is
\* under way, to answer that invitation as somebody else.
DoorState == [at : Door, user : Person \cup {Nobody}, gate : BOOLEAN, seen : BOOLEAN,
              me : Answers, form : Answers \ {"again"}, preview : {"none", "pending", "finished"},
              leaving : BOOLEAN, switching : Link \cup {Nowhere}]

EntranceTypeOK ==
    /\ door \in DoorState
    /\ path \in Place \cup Link \cup {Nowhere}
    /\ invite \in Link \cup {Nowhere}
    /\ cookie \in Person \cup {Nobody}
    /\ accepted \subseteq Person /\ answerable \subseteq Link
    /\ leftBehind \subseteq {"path", "invite"} \X (Place \cup Link)

-----------------------------------------------------------------------------
\* The gate replaces every page, so what they knew is gone when it opens.
Gated(d) == d.user # Nobody /\ d.gate
SignedOut(d) == d.me = "idle" /\ d.user = Nobody

\* The shell remembers a deep link unless it saw somebody signed in.
Deep(d) == d.at \in Place /\ SignedOut(d) /\ ~d.seen
Remembers(d, p) == IF Deep(d) THEN d.at ELSE p

\* The invitation page remembers a link that can still be answered.
Invited(d) == d.at \in Link /\ SignedOut(d) /\ d.preview = "pending"
Carries(d, i) == IF Invited(d) THEN d.at ELSE i

\* Signed out, the shell goes to the sign-in page; signed in, that page and
\* the sign-up page go to the dashboard, unless a sign-in is under way.
Goes(d) ==
    CASE d.at \in Place /\ SignedOut(d) -> "login"
      [] ~Gated(d) /\ d.user # Nobody /\ d.me = "idle"
            /\ (d.at = "signup" \/ (d.at = "login" /\ d.form = "idle")) -> Home
      [] OTHER -> d.at

Settled(d) ==
    LET there == Goes(d) IN
    [d EXCEPT !.at = there,
              !.seen = ~Gated(d) /\ there \in Place /\ (d.seen \/ d.user # Nobody),
              !.preview = IF Gated(d) \/ there # d.at THEN "none" ELSE d.preview]

\* What a state remembers anew; that is not left behind any more.
Anew(d) == (IF Deep(d) THEN {<<"path", d.at>>} ELSE {})
             \cup (IF Invited(d) THEN {<<"invite", d.at>>} ELSE {})

\* Where the page to return to and the invitation lead.
Led == {<<"path", path>>, <<"invite", invite>>} \ {<<"path", Nowhere>>, <<"invite", Nowhere>>}

Shows(d, p, i) ==
    /\ door' = Settled(d)
    /\ path' = Remembers(d, p)
    /\ invite' = Carries(d, i)
    /\ leftBehind' = leftBehind \ Anew(d)

-----------------------------------------------------------------------------
\* A page is loaded: typed, opened from an email, reloaded, or come to from
\* Google, which starts the exchange of its code.  The session is checked.
Fresh(at) == [at |-> at, user |-> Nobody, gate |-> FALSE, seen |-> FALSE, me |-> "asked",
              form |-> IF at = "callback" THEN "asked" ELSE "idle", preview |-> "none",
              leaving |-> FALSE, switching |-> Nowhere]

LoadDoor(at) ==
    /\ door' = Fresh(at)
    /\ UNCHANGED <<path, invite, cookie, accepted, answerable, leftBehind>>

\* /auth/me answers with the account of the cookie; refused, the client
\* refreshes the session, and asks that once.
CheckSession ==
    /\ door.me \in {"asked", "again"}
    /\ door' = [door EXCEPT !.me = IF cookie # Nobody THEN cookie
                                   ELSE IF door.me = "asked" THEN "again" ELSE "refused"]
    /\ UNCHANGED <<path, invite, cookie, accepted, answerable, leftBehind>>

SessionChecked ==
    /\ door.me \in Person \cup {"refused"}
    /\ LET who == IF door.me \in Person THEN door.me ELSE Nobody
       IN  Shows([door EXCEPT !.user = who, !.me = "idle",
                              !.gate = IF who = Nobody THEN @ ELSE who \notin accepted], path, invite)
    /\ UNCHANGED <<cookie, accepted, answerable>>

\* Links and buttons of the pages: the shell's own pages for who is signed in,
\* and the pages to sign in and up for who is not.
FollowLink(at) ==
    /\ at # door.at /\ ~Gated(door)
    /\ IF door.user # Nobody THEN at \in Place /\ door.at \in Place \cup Link
                             ELSE at \in {"login", "signup"} /\ door.at \notin Place \cup {"callback"}
    /\ Shows([door EXCEPT !.at = at, !.preview = "none", !.form = "idle",
                          !.seen = @ /\ door.at \in Place], path, invite)
    /\ UNCHANGED <<cookie, accepted, answerable>>

PreviewInvitation ==
    /\ door.at \in Link /\ ~Gated(door) /\ door.preview = "none"
    /\ Shows([door EXCEPT !.preview = IF door.at \in answerable THEN "pending" ELSE "finished"],
             path, invite)
    /\ UNCHANGED <<cookie, accepted, answerable>>

-----------------------------------------------------------------------------
\* The form of the sign-in page, and the server's answer to it or to the
\* exchange of Google's code: a session in the browser's cookies.
AskToSignIn ==
    /\ door.at = "login" /\ door.form = "idle" /\ ~Gated(door)
    /\ door' = [door EXCEPT !.form = "asked"]
    /\ UNCHANGED <<path, invite, cookie, accepted, answerable, leftBehind>>

ServeSignIn(a) ==
    /\ door.form = "asked"
    /\ door' = [door EXCEPT !.form = a] /\ cookie' = a
    /\ UNCHANGED <<path, invite, accepted, answerable, leftBehind>>

RefuseSignIn ==
    /\ door.form = "asked"
    /\ IF door.at = "callback" THEN door' = Settled([door EXCEPT !.form = "idle", !.at = "login"])
                               ELSE door' = [door EXCEPT !.form = "idle"]
    /\ UNCHANGED <<path, invite, cookie, accepted, answerable, leftBehind>>

\* Where a sign-in lands: a pending invitation first, then the page to return
\* to, which is taken, then the dashboard.
Lands == IF invite # Nowhere THEN <<"invite", invite>>
         ELSE IF path # Nowhere THEN <<"path", path>> ELSE <<"dashboard", Home>>
PathTaken == IF invite # Nowhere THEN path ELSE Nowhere

\* Who ticked the box before going to Google has the acceptance recorded now.
SignedInHere(ticked) ==
    /\ door.form \in Person
    /\ ticked => door.at = "callback" /\ door.form \notin accepted
    /\ accepted' = IF ticked THEN accepted \cup {door.form} ELSE accepted
    /\ Shows([door EXCEPT !.user = door.form, !.gate = door.form \notin accepted',
                          !.form = "idle", !.at = Lands[2], !.preview = "none"], PathTaken, invite)
    /\ UNCHANGED <<cookie, answerable>>

-----------------------------------------------------------------------------
\* A request of the page is refused until the terms are accepted.
TermsRequired ==
    /\ door.user # Nobody /\ ~door.gate /\ door.user \notin accepted
    /\ Shows([door EXCEPT !.gate = TRUE], path, invite)
    /\ UNCHANGED <<cookie, accepted, answerable>>

AcceptTerms ==
    /\ Gated(door) /\ cookie = door.user
    /\ accepted' = accepted \cup {door.user}
    /\ Shows([door EXCEPT !.gate = FALSE], path, invite)
    /\ UNCHANGED <<cookie, answerable>>

TermsChange ==
    /\ accepted' = {}
    /\ UNCHANGED <<door, path, invite, cookie, answerable, leftBehind>>

\* The invitation is accepted or declined, by the person it is for.
Respond(for) ==
    /\ door.at \in Link /\ ~Gated(door) /\ door.preview = "pending" /\ ~door.leaving
    /\ door.user # Nobody /\ cookie = door.user /\ for[door.at] = door.user /\ door.at \in answerable
    /\ answerable' = answerable \ {door.at}
    /\ Shows([door EXCEPT !.at = Home, !.preview = "none"], path, Nowhere)
    /\ UNCHANGED <<cookie, accepted>>

InvitationFinishes ==
    /\ \E l \in answerable : answerable' = answerable \ {l}
    /\ UNCHANGED <<door, path, invite, cookie, accepted, leftBehind>>

-----------------------------------------------------------------------------
\* The session ends elsewhere: it runs out or is revoked, or another tab of
\* the browser signs out.
EndElsewhere(signOut) ==
    /\ cookie # Nobody /\ cookie' = Nobody
    /\ invite' = IF signOut THEN Nowhere ELSE invite
    /\ leftBehind' = leftBehind \cup (IF signOut /\ invite \in Link THEN {<<"invite", invite>>} ELSE {})
    /\ UNCHANGED <<door, path, accepted, answerable>>

\* A call finds the session gone: the page is remembered.
Expire ==
    /\ door.user # Nobody /\ cookie = Nobody /\ ~Gated(door) /\ door.at \in Place \cup Link
    /\ LET d == [door EXCEPT !.user = Nobody] IN
       /\ invite' = Carries(d, invite)
       /\ door' = Settled([d EXCEPT !.at = "login", !.seen = FALSE])
    /\ path' = door.at
    /\ leftBehind' = leftBehind \ (Anew([door EXCEPT !.user = Nobody]) \cup {<<"path", door.at>>})
    /\ UNCHANGED <<cookie, accepted, answerable>>

\* Signing out: from the shell, from the gate, or from an invitation for
\* somebody else, which is kept for that account.
StartSignOut(for) ==
    /\ door.user # Nobody /\ ~door.leaving
    /\ \/ door.at \in Place \/ Gated(door)
       \/ door.at \in Link /\ door.preview = "pending" /\ for[door.at] # door.user
    /\ door' = [door EXCEPT !.leaving = TRUE,
                            !.switching = IF door.at \in Link /\ ~Gated(door) THEN door.at ELSE Nowhere]
    /\ UNCHANGED <<path, invite, cookie, accepted, answerable, leftBehind>>

ServeSignOut ==
    /\ door.leaving /\ cookie' = Nobody
    /\ UNCHANGED <<door, path, invite, accepted, answerable, leftBehind>>

\* What is left of the page to return to and the invitation.  All is dropped
\* before the effects of the page without its user; whoever switches accounts
\* has the link remembered again.
SignedOff == [door EXCEPT !.user = Nobody, !.gate = FALSE, !.leaving = FALSE, !.switching = Nowhere]
Kept(i) == IF door.switching # Nowhere THEN door.switching ELSE Carries(SignedOff, i)

\* Mutated form: the invitation is not dropped.
DropPathOnly == path' = Remembers(SignedOff, Nowhere) /\ invite' = Kept(invite)

DropRemembered == path' = Remembers(SignedOff, Nowhere) /\ invite' = Kept(Nowhere)

\* The call was answered or failed: here the person is signed out either way.
\* An invitation under the gate is shown until the sign-in page is there.
FinishSignOut(lag) ==
    /\ door.leaving /\ (lag => door.at \in Link /\ Gated(door))
    /\ DropRemembered
    /\ door' = IF lag THEN Settled(SignedOff)
               ELSE Settled([SignedOff EXCEPT !.at = "login", !.seen = FALSE, !.preview = "none"])
    /\ leftBehind' = (leftBehind \cup Led) \ (Anew(SignedOff) \cup {<<"invite", door.switching>>})
    /\ UNCHANGED <<cookie, accepted, answerable>>

-----------------------------------------------------------------------------
EntranceInit(at) ==
    /\ door = Fresh(at)
    /\ path = Nowhere /\ invite = Nowhere
    /\ cookie \in Person \cup {Nobody}
    /\ accepted \in SUBSET Person
    /\ answerable = Link /\ leftBehind = {}

PageStep == \/ \E at \in Door : LoadDoor(at) \/ FollowLink(at)
            \/ CheckSession \/ SessionChecked \/ PreviewInvitation

SignInStep == \/ AskToSignIn \/ RefuseSignIn
              \/ \E a \in Person : ServeSignIn(a)
              \/ \E ticked \in BOOLEAN : SignedInHere(ticked)
              \/ TermsRequired \/ AcceptTerms \/ TermsChange

OutStep(for) == \/ Respond(for) \/ InvitationFinishes
                \/ \E signOut \in BOOLEAN : EndElsewhere(signOut)
                \/ Expire \/ StartSignOut(for) \/ ServeSignOut
                \/ \E lag \in BOOLEAN : FinishSignOut(lag)

EntranceNext(for) == PageStep \/ SignInStep \/ OutStep(for)

-----------------------------------------------------------------------------
\* A sign-in never lands on a page or an invitation that was remembered before
\* somebody signed out here and not since: not by the tab's own page, not by
\* the storage its tabs share, whatever expires, loads or answers while the
\* sign-out waits for its calls (AuthContext.tsx:234-237, draftStorage.ts:30,
\* AppShell.tsx:27-29).
LandsOnNothingLeftBehind ==
    [][\A ticked \in BOOLEAN : SignedInHere(ticked) => Lands \notin leftBehind]_doorVars
===============================================================================
