------------------------------ MODULE Registration ------------------------------
(***************************************************************************)
(* How one email address becomes a usable account: signup with its         *)
(* verification link, Google sign-in that creates or links the account, and*)
(* the single-use links in general (a password reset is the other one).    *)
(*                                                                         *)
(* Sources (under src/server/src): services/accountTokenService.ts,        *)
(* controllers/auth.controller.ts, config/passport.ts.                     *)
(*                                                                         *)
(* A handler is a process with one step per statement or transaction and   *)
(* one per email; issuing a link is a transaction of two statements, and   *)
(* at READ COMMITTED the first does not see a link another one is creating.*)
(***************************************************************************)
EXTENDS Naturals

CONSTANTS
    Handler,   \* requests in flight at the same time
    Link,      \* AccountToken rows, of the purposes verify_email and reset_password
    MaxUsers,  \* bounds how often the address is signed up
    MaxDeaths, \* bounds the handlers that die
    NoLink

ASSUME RegistrationAssumption ==
    /\ MaxUsers \in Nat /\ MaxDeaths \in Nat
    /\ NoLink \notin Link

VARIABLES
    user,      \* the User row with this address; id 0: there is none
    lastId,    \* the ids given so far
    link,      \* the AccountToken rows
    handler,   \* the handlers
    deaths     \* how many handlers died

registrationVars == <<user, lastId, link, handler, deaths>>

-------------------------------------------------------------------------------

UserId  == 1 .. MaxUsers
Purpose == {"verify_email", "reset_password"}
NoUser  == [id |-> 0, verified |-> FALSE, google |-> FALSE]

\* `mailed': the email with the link was accepted.
LinkRow == [state : {"unborn", "unused", "used"}, owner : {0} \cup UserId,
            purpose : Purpose, live : BOOLEAN, mailed : BOOLEAN]
Unborn    == [state |-> "unborn", owner |-> 0, purpose |-> "verify_email",
              live |-> TRUE, mailed |-> FALSE]

\* `knew': what the handler read of isVerified; `retires' the links its
\* transaction found unused.
HandlerState ==
    [pc : {"idle", "free", "issue", "issuing", "send", "undo", "found", "welcome",
           "link", "retire", "create"},
     op : {"none", "signup", "login", "verify", "google", "forgot"},
     id : {0} \cup UserId, link : Link \cup {NoLink}, knew : BOOLEAN, retires : SUBSET Link]
Free == [pc |-> "idle", op |-> "none", id |-> 0, link |-> NoLink, knew |-> FALSE, retires |-> {}]

RegistrationTypeOK ==
    /\ user \in [id : {0} \cup UserId, verified : BOOLEAN, google : BOOLEAN]
    /\ lastId \in {0} \cup UserId
    /\ link \in [Link -> LinkRow]
    /\ handler \in [Handler -> HandlerState]
    /\ deaths \in 0 .. MaxDeaths
    /\ \A k \in Link : link[k].state = "unused" => link[k].owner = user.id

RegistrationInit ==
    /\ user = NoUser /\ lastId = 0
    /\ link = [k \in Link |-> Unborn]
    /\ handler = [h \in Handler |-> Free]
    /\ deaths = 0

Goes(h, state) == handler' = [handler EXCEPT ![h] = state]
PurposeOf(h)   == IF handler[h].op = "forgot" THEN "reset_password" ELSE "verify_email"

Unused(id, purpose) ==
    {k \in Link : link[k].state = "unused" /\ link[k].owner = id /\ link[k].purpose = purpose}

\* updateMany of usedAt, for links that are still unused.
UsedUp(links) == [k \in Link |-> IF k \in links /\ link[k].state = "unused"
                                 THEN [link[k] EXCEPT !.state = "used"] ELSE link[k]]

-------------------------------------------------------------------------------
(* Signup, and the sign-in of an account that is not verified *)

CheckAddress(h) ==
    /\ handler[h] = Free /\ user.id = 0
    /\ Goes(h, [Free EXCEPT !.pc = "free", !.op = "signup"])
    /\ UNCHANGED <<user, lastId, link, deaths>>

\* The address is unique: a signup that was overtaken fails.
NewUser(verified) ==
    /\ lastId < MaxUsers
    /\ lastId' = lastId + 1
    /\ user' = [id |-> lastId + 1, verified |-> verified, google |-> verified]

CreateUser(h) ==
    /\ handler[h].pc = "free"
    /\ IF user.id = 0
       THEN /\ NewUser(FALSE)
            /\ Goes(h, [handler[h] EXCEPT !.pc = "issue", !.id = lastId + 1])
       ELSE Goes(h, Free) /\ UNCHANGED <<user, lastId>>
    /\ UNCHANGED <<link, deaths>>

\* login of an unverified account sends a new link; forgotPassword asks for no
\* password at all.
AskForLink(h, op) ==
    /\ handler[h] = Free /\ user.id # 0
    /\ op \in {"login", "forgot"}
    /\ op = "login" => ~user.verified
    /\ Goes(h, [Free EXCEPT !.pc = "issue", !.op = op, !.id = user.id])
    /\ UNCHANGED <<user, lastId, link, deaths>>

-------------------------------------------------------------------------------
(* issueAccountToken *)

RetireUnused(h) ==
    /\ handler[h].pc = "issue"
    /\ Goes(h, [handler[h] EXCEPT !.pc = "issuing",
                                  !.retires = Unused(handler[h].id, PurposeOf(h))])
    /\ UNCHANGED <<user, lastId, link, deaths>>

\* The new link refers to its account, so issuing one for an account that is
\* gone fails.
IssueLink(h, k) ==
    /\ handler[h].pc = "issuing" /\ link[k].state = "unborn"
    /\ user.id = handler[h].id
    /\ link' = [UsedUp(handler[h].retires) EXCEPT
                  ![k] = [Unborn EXCEPT !.state = "unused", !.owner = handler[h].id,
                                        !.purpose = PurposeOf(h)]]
    /\ Goes(h, [handler[h] EXCEPT !.pc = "send", !.link = k, !.retires = {}])
    /\ UNCHANGED <<user, lastId, deaths>>

\* Any other failure of issuing or sending: signup takes its account back,
\* forgotPassword throws the link away, login only reports the error.
AfterFailure(h) ==
    CASE handler[h].op = "signup" -> [handler[h] EXCEPT !.pc = "undo", !.retires = {}]
      [] handler[h].op = "forgot" /\ handler[h].pc = "send" -> [handler[h] EXCEPT !.pc = "undo"]
      [] OTHER -> Free

CannotIssue(h) ==
    /\ handler[h].pc = "issuing"
    /\ Goes(h, AfterFailure(h))
    /\ UNCHANGED <<user, lastId, link, deaths>>

SendLink(h, accepted) ==
    /\ handler[h].pc = "send"
    /\ link' = IF accepted THEN [link EXCEPT ![handler[h].link].mailed = TRUE] ELSE link
    /\ Goes(h, IF accepted THEN Free ELSE AfterFailure(h))
    /\ UNCHANGED <<user, lastId, deaths>>

\* Mutant: the account of a signup whose email failed stays.
KeepAccount(h) ==
    /\ handler[h].pc = "undo"
    /\ Goes(h, Free)
    /\ UNCHANGED <<user, lastId, link, deaths>>

\* user.delete by id, whatever the account became; its links go with it.
Undo(h) ==
    LET id == handler[h].id IN
    /\ handler[h].pc = "undo"
    /\ IF handler[h].op = "signup" /\ user.id = id
       THEN /\ user' = NoUser
            /\ link' = [k \in Link |-> IF link[k].owner = id
                                       THEN [link[k] EXCEPT !.state = "used"] ELSE link[k]]
       ELSE /\ link' = IF handler[h].op = "forgot" THEN UsedUp(Unused(id, "reset_password"))
                       ELSE link
            /\ UNCHANGED user
    /\ Goes(h, Free)
    /\ UNCHANGED <<lastId, deaths>>

-------------------------------------------------------------------------------
(* Using a link *)

\* verifyEmail: a link whose account is verified answers success and one that
\* was used up an error, without effect; an expired one is replaced, as at login.
OpenLink(h, k) ==
    /\ handler[h] = Free
    /\ link[k].mailed /\ link[k].purpose = "verify_email"
    /\ user.id = link[k].owner /\ ~user.verified /\ link[k].state = "unused"
    /\ Goes(h, [Free EXCEPT !.op = IF link[k].live THEN "verify" ELSE "login",
                            !.pc = IF link[k].live THEN "found" ELSE "issue",
                            !.id = link[k].owner,
                            !.link = IF link[k].live THEN k ELSE NoLink])
    /\ UNCHANGED <<user, lastId, link, deaths>>

\* One transaction: the link is used up and the account verified, each if it was
\* not yet; the account's update tells who was first.
VerifyAccount(h) ==
    /\ handler[h].pc = "found"
    /\ link' = UsedUp({handler[h].link})
    /\ IF user.id = handler[h].id /\ ~user.verified
       THEN /\ user' = [user EXCEPT !.verified = TRUE]
            /\ Goes(h, [handler[h] EXCEPT !.pc = "welcome"])
       ELSE Goes(h, Free) /\ UNCHANGED user
    /\ UNCHANGED <<lastId, deaths>>

\* deliverWelcomeEmail never fails the request.
Welcome(h) ==
    /\ handler[h].pc = "welcome"
    /\ Goes(h, Free)
    /\ UNCHANGED <<user, lastId, link, deaths>>

\* consumeAccountToken: one conditional update.
Consume(k) ==
    /\ link[k].state = "unused" /\ link[k].live
    /\ link[k].purpose = "reset_password" /\ link[k].mailed
    /\ link' = [link EXCEPT ![k].state = "used"]
    /\ UNCHANGED <<user, lastId, handler, deaths>>

-------------------------------------------------------------------------------
(* Google sign-in: config/passport.ts *)

\* A linked account signs in without further ado.
GoogleLookup(h) ==
    /\ handler[h] = Free /\ ~user.google
    /\ Goes(h, [Free EXCEPT !.op = "google", !.id = user.id, !.knew = user.verified,
                            !.pc = IF user.id = 0 THEN "create" ELSE "link"])
    /\ UNCHANGED <<user, lastId, link, deaths>>

GoogleCreate(h) ==
    /\ handler[h].pc = "create"
    /\ IF user.id = 0
       THEN /\ NewUser(TRUE)
            /\ Goes(h, [handler[h] EXCEPT !.pc = "welcome", !.id = lastId + 1])
       ELSE Goes(h, Free) /\ UNCHANGED <<user, lastId>>
    /\ UNCHANGED <<link, deaths>>

GoogleLink(h) ==
    /\ handler[h].pc = "link"
    /\ IF user.id = handler[h].id
       THEN /\ user' = [user EXCEPT !.verified = TRUE, !.google = TRUE]
            /\ Goes(h, [handler[h] EXCEPT !.pc = "retire"])
       ELSE Goes(h, Free) /\ UNCHANGED user
    /\ UNCHANGED <<lastId, link, deaths>>

\* revokeAccountTokens, then a welcome if the account was found unverified.
GoogleRetire(h) ==
    /\ handler[h].pc = "retire"
    /\ link' = UsedUp(Unused(handler[h].id, "verify_email"))
    /\ Goes(h, IF handler[h].knew THEN Free ELSE [handler[h] EXCEPT !.pc = "welcome"])
    /\ UNCHANGED <<user, lastId, deaths>>

-------------------------------------------------------------------------------

LinkExpires(k) ==
    /\ link[k].state = "unused" /\ link[k].live
    /\ link' = [link EXCEPT ![k].live = FALSE]
    /\ UNCHANGED <<user, lastId, handler, deaths>>

HandlerDies(h) ==
    /\ handler[h] # Free /\ deaths < MaxDeaths
    /\ Goes(h, Free)
    /\ deaths' = deaths + 1
    /\ UNCHANGED <<user, lastId, link>>

HandlerStep(h) ==
    \/ CheckAddress(h)
    \/ CreateUser(h)
    \/ \E op \in {"login", "forgot"} : AskForLink(h, op)
    \/ RetireUnused(h)
    \/ \E k \in Link : IssueLink(h, k)
    \/ CannotIssue(h)
    \/ \E accepted \in BOOLEAN : SendLink(h, accepted)
    \/ Undo(h)
    \/ \E k \in Link : OpenLink(h, k)
    \/ VerifyAccount(h)
    \/ Welcome(h)
    \/ GoogleLookup(h)
    \/ GoogleCreate(h)
    \/ GoogleLink(h)
    \/ GoogleRetire(h)
    \/ HandlerDies(h)

RegistrationNext ==
    \/ \E h \in Handler : HandlerStep(h)
    \/ \E k \in Link : Consume(k) \/ LinkExpires(k)

RegistrationSpec == RegistrationInit /\ [][RegistrationNext]_registrationVars

-------------------------------------------------------------------------------
(* What must hold *)

\* An account that cannot sign in yet has a way out: unless a handler is still
\* at work on it or one died, some verification link was mailed to it.  A signup
\* whose email failed leaves no account behind (auth.controller.ts, signup:
\* "a dead end with no way out").
NoDeadEnd ==
    (/\ user.id # 0 /\ ~user.verified /\ deaths = 0
     /\ \A h \in Handler : handler[h].id # user.id)
    => \E k \in Link : /\ link[k].owner = user.id /\ link[k].purpose = "verify_email"
                       /\ link[k].mailed
===============================================================================
