-------------------------------- MODULE Session --------------------------------
(***************************************************************************)
(* Customer sessions of one account: sign-in, the access and refresh       *)
(* cookies of each browser, refresh-token rotation with its grace period,  *)
(* password changes, suspension, and the pages that share a browser.       *)
(*                                                                         *)
(* Sources: services/sessionService.ts, controllers/auth.controller.ts,    *)
(* controllers/user.controller.ts and middlewares/auth.middleware.ts of    *)
(* the server; lib/api.js and context/AuthContext.tsx of the client.       *)
(*                                                                         *)
(* A page is a process: it has one request or one refresh (refreshInFlight)*)
(* under way, which carries the cookies the browser held when it was sent. *)
(* Each database statement of a handler is a step, and so is the arrival   *)
(* of its answer, which is when the browser's cookies change.              *)
(***************************************************************************)
EXTENDS Naturals

CONSTANTS
    Browser,      \* browsers of the account's owner
    Page,         \* pages open in each of them
    SessionId,    \* Session rows
    MaxPassword,  \* bounds the password changes
    MaxRotation,  \* bounds the rotations of one refresh token
    MaxLost,      \* bounds the answers lost and the handlers that die
    NoSession

ASSUME SessionAssumption ==
    /\ MaxPassword \in Nat /\ MaxRotation \in Nat /\ MaxLost \in Nat
    /\ NoSession \notin SessionId

VARIABLES
    account,   \* the User row: which password it has, and User.suspendedAt
    session,   \* the Session rows
    jar,       \* the cookies of each browser
    page,      \* the pages: what they show and what they wait for
    lost       \* how many answers were lost or handlers died so far

sessionVars == <<account, session, jar, page, lost>>

-------------------------------------------------------------------------------

Tab == Browser \X Page

\* A refresh secret is its session and how many rotations came before it; the
\* row keeps the current secret's number.  A session that was revoked or expired
\* has ended.  `fresh': the last rotation was less than ROTATION_GRACE_MS ago.
\* `good' is history: the last password whose change it was entitled to survive.
Secret     == [session : SessionId, gen : 0 .. MaxRotation]
NoSecret   == [session |-> NoSession, gen |-> 0]
SessionRow == [life : {"unborn", "live", "ended"}, gen : 0 .. MaxRotation,
               fresh : BOOLEAN, good : 0 .. MaxPassword]
Cookies    == [access : SessionId \cup {NoSession}, refresh : Secret \cup {NoSecret}]
NoCookies  == [access |-> NoSession, refresh |-> NoSecret]

\* `shows': the signed-in app, the login page, or the session check on load.
\* `sets': what the answer on its way does to the cookies.
PageState ==
    [shows : {"app", "login", "loading"},
     pc : {"idle", "asked", "denied", "presented", "found", "unmatched", "answered",
           "checked", "cleared", "compared", "changed"},
     op : {"none", "ask", "login", "logout", "reset", "change"},
     sent : Cookies, retried : BOOLEAN,
     sets : {"none", "both", "access", "clear"},
     own : SessionId \cup {NoSession}, wrote : 0 .. MaxPassword]

Still(shows) == [shows |-> shows, pc |-> "idle", op |-> "none", sent |-> NoCookies,
                 retried |-> FALSE, sets |-> "none", own |-> NoSession, wrote |-> 0]

SessionTypeOK ==
    /\ account \in [password : 0 .. MaxPassword, suspended : BOOLEAN]
    /\ session \in [SessionId -> SessionRow]
    /\ jar \in [Browser -> Cookies]
    /\ page \in [Tab -> PageState]
    /\ lost \in 0 .. MaxLost

SessionInit ==
    /\ account = [password |-> 0, suspended |-> FALSE]
    /\ session = [s \in SessionId |-> [life |-> "unborn", gen |-> 0, fresh |-> FALSE, good |-> 0]]
    /\ jar = [b \in Browser |-> NoCookies]
    /\ page = [t \in Tab |-> Still("login")]
    /\ lost = 0

\* activeCustomerSession
Usable(s) == s # NoSession /\ session[s].life = "live" /\ ~account.suspended

CookiesOf(t) == jar[t[1]]
\* The refresh cookie's path is /api/v1/auth; what a request does not use is
\* not remembered.
AccessOnly(cookies)  == [cookies EXCEPT !.refresh = NoSecret]
RefreshOnly(cookies) == [cookies EXCEPT !.access = NoSession]
Turn(t, p)   == page' = [page EXCEPT ![t] = p]

-------------------------------------------------------------------------------
(* Requests of the app: lib/api.js and the protect middleware *)

\* A page of the app sends a request; a page that loads asks /auth/me.
Ask(t, shows) ==
    /\ page[t].pc = "idle"
    /\ IF page[t].shows = "app" THEN shows = "app" ELSE shows = "loading"
    /\ Turn(t, [Still(shows) EXCEPT !.pc = "asked", !.op = "ask", !.sent = AccessOnly(CookiesOf(t))])
    /\ UNCHANGED <<account, session, jar, lost>>

\* protect: the access token's session must be live, whatever the token says.
Protect(t) ==
    /\ page[t].pc = "asked"
    /\ Turn(t, IF Usable(page[t].sent.access) THEN Still("app")
               ELSE [page[t] EXCEPT !.pc = "denied"])
    /\ UNCHANGED <<account, session, jar, lost>>

\* The 401 arrives: refresh once and try again ...
SendRefresh(t) ==
    /\ page[t].pc = "denied" /\ ~page[t].retried
    /\ Turn(t, [page[t] EXCEPT !.pc = "presented", !.sent = RefreshOnly(CookiesOf(t))])
    /\ UNCHANGED <<account, session, jar, lost>>

\* ... and a 401 after the refresh ends the session of this page.
GiveUp(t) ==
    /\ page[t].pc = "denied" /\ page[t].retried
    /\ Turn(t, Still("login"))
    /\ UNCHANGED <<account, session, jar, lost>>

-------------------------------------------------------------------------------
(* refreshSession *)

FindCurrent(t) ==
    LET secret == page[t].sent.refresh IN
    /\ page[t].pc = "presented"
    /\ Turn(t, [page[t] EXCEPT !.pc =
                  IF Usable(secret.session) /\ session[secret.session].gen = secret.gen
                  THEN "found" ELSE "unmatched"])
    /\ UNCHANGED <<account, session, jar, lost>>

\* Mutant: whoever found the session rotates it, from the secret it holds now.
RotateAnyway(t) ==
    LET secret == page[t].sent.refresh
        row    == session[secret.session]
    IN
    /\ page[t].pc = "found" /\ row.gen < MaxRotation
    /\ session' = [session EXCEPT ![secret.session].gen = row.gen + 1,
                                  ![secret.session].fresh = TRUE]
    /\ Turn(t, [page[t] EXCEPT !.pc = "answered", !.sets = "both"])
    /\ UNCHANGED <<account, jar, lost>>

\* The conditional update asks for the secret alone: the session may have been
\* revoked since.
Rotate(t) ==
    LET secret == page[t].sent.refresh
        row    == session[secret.session]
    IN
    /\ page[t].pc = "found"
    /\ IF row.gen = secret.gen
       THEN /\ row.gen < MaxRotation
            /\ session' = [session EXCEPT ![secret.session].gen = row.gen + 1,
                                          ![secret.session].fresh = TRUE]
            /\ Turn(t, [page[t] EXCEPT !.pc = "answered", !.sets = "both"])
       ELSE /\ Turn(t, [page[t] EXCEPT !.pc = "unmatched"])
            /\ UNCHANGED session
    /\ UNCHANGED <<account, jar, lost>>

\* Just rotated by another page: an access token, and no new refresh token.
GraceLookup(t) ==
    LET secret == page[t].sent.refresh IN
    /\ page[t].pc = "unmatched"
    /\ Turn(t, [page[t] EXCEPT !.pc = "answered", !.sets =
                  IF /\ Usable(secret.session)
                     /\ session[secret.session].gen = secret.gen + 1
                     /\ session[secret.session].fresh
                  THEN "access" ELSE "clear"])
    /\ UNCHANGED <<account, session, jar, lost>>

-------------------------------------------------------------------------------
(* Answers *)

SentSecret(t) ==
    IF page[t].op = "login" THEN [session |-> page[t].own, gen |-> 0]
    ELSE [page[t].sent.refresh EXCEPT !.gen = page[t].sent.refresh.gen + 1]

SetCookies(t) ==
    LET secret == SentSecret(t) IN
    jar' = [jar EXCEPT ![t[1]] =
              CASE page[t].sets = "both"   -> [access |-> secret.session, refresh |-> secret]
                [] page[t].sets = "access" -> [CookiesOf(t) EXCEPT !.access = secret.session]
                [] page[t].sets = "clear"  -> NoCookies
                [] OTHER                   -> CookiesOf(t)]

\* The answer arrives: the cookies change first, then the page goes on.  After a
\* refresh the request is sent again; a refused one ends the page's session.
Receive(t) ==
    /\ page[t].pc = "answered"
    /\ SetCookies(t)
    /\ Turn(t, IF page[t].op = "login" THEN Still("app")
               ELSE IF page[t].op = "logout" \/ page[t].sets = "clear" THEN Still("login")
               ELSE [page[t] EXCEPT !.pc = "asked", !.retried = TRUE, !.sets = "none",
                                    !.sent = AccessOnly(jar'[t[1]])])
    /\ UNCHANGED <<account, session, lost>>

\* The request or its answer is lost, or the handler dies.  The interceptor
\* treats a refresh that failed for any reason as refused; a request that got
\* no answer is only reported; signing out happens locally all the same.
Lose(t) ==
    /\ page[t].pc \notin {"idle", "denied"}
    /\ lost < MaxLost
    /\ lost' = lost + 1
    /\ Turn(t, Still(IF \/ page[t].pc = "asked" /\ page[t].shows = "app"
                        \/ page[t].op = "change"
                     THEN "app" ELSE "login"))
    /\ UNCHANGED <<account, session, jar>>

-------------------------------------------------------------------------------
(* Signing in and out *)

\* login compares the password the row has now; googleExchange consumes its code.
Login(t) ==
    /\ page[t] = Still("login")
    /\ Turn(t, [Still("login") EXCEPT !.pc = "checked", !.op = "login"])
    /\ UNCHANGED <<account, session, jar, lost>>

\* startSession refuses a suspended account ...
CheckSuspended(t) ==
    /\ page[t].pc = "checked"
    /\ Turn(t, IF account.suspended THEN Still("login") ELSE [page[t] EXCEPT !.pc = "cleared"])
    /\ UNCHANGED <<account, session, jar, lost>>

\* ... and creates the session in another statement.
StartSession(t, s) ==
    /\ page[t].pc = "cleared" /\ session[s].life = "unborn"
    /\ session' = [session EXCEPT ![s] = [life |-> "live", gen |-> 0, fresh |-> FALSE,
                                          good |-> account.password]]
    /\ Turn(t, [page[t] EXCEPT !.pc = "answered", !.sets = "both", !.own = s])
    /\ UNCHANGED <<account, jar, lost>>

Ended(row) == IF row.life = "live" THEN [row EXCEPT !.life = "ended"] ELSE row

Logout(t) ==
    /\ page[t] = Still("app")
    /\ Turn(t, [Still("app") EXCEPT !.pc = "presented", !.op = "logout",
                                    !.sent = RefreshOnly(CookiesOf(t))])
    /\ UNCHANGED <<account, session, jar, lost>>

\* findSessionIdForRefreshToken knows the current and the previous secret.
EndSession(t) ==
    LET secret == page[t].sent.refresh
        known(s) == s = secret.session /\ session[s].gen - secret.gen \in {0, 1}
    IN
    /\ page[t].pc = "presented" /\ page[t].op = "logout"
    /\ session' = [s \in SessionId |-> IF known(s) THEN Ended(session[s]) ELSE session[s]]
    /\ Turn(t, [page[t] EXCEPT !.pc = "answered", !.sets = "clear"])
    /\ UNCHANGED <<account, jar, lost>>

-------------------------------------------------------------------------------
(* Passwords and suspension *)

\* updatePassword is behind protect and compares the current password.
ComparePassword(t) ==
    /\ page[t] = Still("app") /\ Usable(CookiesOf(t).access)
    /\ Turn(t, [Still("app") EXCEPT !.pc = "compared", !.op = "change",
                                    !.own = CookiesOf(t).access])
    /\ UNCHANGED <<account, session, jar, lost>>

\* resetPassword consumes a link's token.
UseResetLink(t) ==
    /\ page[t] = Still("login")
    /\ Turn(t, [Still("login") EXCEPT !.pc = "compared", !.op = "reset"])
    /\ UNCHANGED <<account, session, jar, lost>>

ChangePassword(t) ==
    /\ page[t].pc = "compared" /\ account.password < MaxPassword
    /\ account' = [account EXCEPT !.password = account.password + 1]
    /\ Turn(t, [page[t] EXCEPT !.pc = "changed", !.wrote = account.password + 1])
    /\ UNCHANGED <<session, jar, lost>>

\* Mutant: a reset spares the session of the browser it is done in.
RevokeOthers(t) ==
    LET own == IF page[t].op = "change" THEN page[t].own ELSE CookiesOf(t).access IN
    /\ page[t].pc = "changed"
    /\ session' = [s \in SessionId |-> IF s # own THEN Ended(session[s]) ELSE session[s]]
    /\ Turn(t, Still(page[t].shows))
    /\ UNCHANGED <<account, jar, lost>>

Later(m, n) == IF m > n THEN m ELSE n

\* revokeAllSessions, which keeps the session that proved the old password.
RevokeAllSessions(t) ==
    /\ page[t].pc = "changed"
    /\ session' = [s \in SessionId |->
                     IF s # page[t].own THEN Ended(session[s])
                     ELSE [session[s] EXCEPT !.good = Later(session[s].good, page[t].wrote)]]
    /\ Turn(t, Still(page[t].shows))
    /\ UNCHANGED <<account, jar, lost>>

\* suspendAccount is one transaction; restoreAccount brings no session back.
Suspend ==
    /\ ~account.suspended
    /\ account' = [account EXCEPT !.suspended = TRUE]
    /\ session' = [s \in SessionId |-> Ended(session[s])]
    /\ UNCHANGED <<jar, page, lost>>

Restore ==
    /\ account.suspended
    /\ account' = [account EXCEPT !.suspended = FALSE]
    /\ UNCHANGED <<session, jar, page, lost>>

-------------------------------------------------------------------------------
(* Time *)

\* Fifteen minutes: the access cookie is gone.
AccessExpires(b) ==
    /\ jar[b].access # NoSession
    /\ jar' = [jar EXCEPT ![b].access = NoSession]
    /\ UNCHANGED <<account, session, page, lost>>

\* ROTATION_GRACE_MS after a rotation, and REFRESH_TOKEN_TTL_DAYS after sign-in.
Age(s) ==
    /\ session[s].life = "live"
    /\ \/ session[s].fresh /\ session' = [session EXCEPT ![s].fresh = FALSE]
       \/ session' = [session EXCEPT ![s].life = "ended"]
    /\ UNCHANGED <<account, jar, page, lost>>

PageStep(t) ==
    \/ \E shows \in {"app", "loading"} : Ask(t, shows)
    \/ Protect(t)
    \/ SendRefresh(t)
    \/ GiveUp(t)
    \/ page[t].op = "ask" /\ FindCurrent(t)
    \/ Rotate(t)
    \/ GraceLookup(t)
    \/ Receive(t)
    \/ Lose(t)
    \/ Login(t)
    \/ CheckSuspended(t)
    \/ \E s \in SessionId : StartSession(t, s)
    \/ Logout(t)
    \/ EndSession(t)
    \/ ComparePassword(t)
    \/ UseResetLink(t)
    \/ ChangePassword(t)
    \/ RevokeAllSessions(t)

SessionNext ==
    \/ \E t \in Tab : PageStep(t)
    \/ Suspend
    \/ Restore
    \/ \E b \in Browser : AccessExpires(b)
    \/ \E s \in SessionId : Age(s)

SessionSpec == SessionInit /\ [][SessionNext]_sessionVars

-------------------------------------------------------------------------------
(* What must hold *)

\* A browser's refresh cookie is never more than one rotation behind its live
\* session, in whatever order pages refresh and answers arrive or are lost: two
\* pages that refresh at once never rotate twice, so what the browser holds is
\* the current secret or the one the grace period is for (sessionService.ts,
\* ROTATION_GRACE_MS).
CookieAtMostOneBehind ==
    \A b \in Browser : LET secret == jar[b].refresh IN
      secret # NoSecret => session[secret.session].gen <= secret.gen + 1

\* No session outlives a change of the password it was signed in before, unless
\* it made the change, while a handler still has to revoke it or if one died
\* first: not even with several changes and sign-ins under way.
PasswordChangeEndsSessions ==
    \A s \in SessionId :
      session[s].life = "live" /\ session[s].good < account.password
      => lost > 0 \/ \E t \in Tab : page[t].pc = "changed"
===============================================================================
