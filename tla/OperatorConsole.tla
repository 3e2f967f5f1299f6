---------------------------- MODULE OperatorConsole ----------------------------
(***************************************************************************)
(* Access of one operator to the admin console: the platform grant given,  *)
(* revoked and reset from the deployment side, sign-in in two steps        *)
(* (password, then a code of the authenticator), and the sessions.         *)
(*                                                                         *)
(* Sources (under src/server/src): controllers/adminAuth.controller.ts,    *)
(* services/operatorSessionService.ts, services/bootstrapOperatorService.ts,*)
(* middlewares/operatorAuth.middleware.ts, scripts/grantOperator.ts,       *)
(* utils/totp.ts, suspendAccount of controllers/adminDirectory.controller. *)
(*                                                                         *)
(* A request of the console loads the session and its grant, and acts on   *)
(* what it loaded in a later statement or transaction.                     *)
(***************************************************************************)
EXTENDS Naturals

CONSTANTS
    Console,    \* requests in flight at the same time
    OpSession,  \* the operator's Session rows
    LastStep,   \* bounds the 30-second steps
    MaxSecret,  \* bounds the authenticator secrets generated
    MaxResets,  \* bounds how often the grant script runs
    NoOpSession

ASSUME ConsoleAssumption ==
    /\ LastStep \in Nat \ {0} /\ MaxSecret \in Nat /\ MaxResets \in Nat
    /\ NoOpSession \notin OpSession

VARIABLES
    step,       \* currentStep
    barred,     \* the operator's account is suspended
    grant,      \* the PlatformGrant row
    secrets,    \* how many authenticator secrets were generated
    resets,     \* how often the grant was given, revoked or had its MFA reset
    opSession,  \* the Session rows of kind operator
    console     \* the requests in flight

consoleVars == <<step, barred, grant, secrets, resets, opSession, console>>

-------------------------------------------------------------------------------

Step   == 1 .. LastStep
Grant  == [state : {"never", "active", "revoked"}, secret : 0 .. MaxSecret,
           enrolled : BOOLEAN, lastUsed : {0} \cup Step]
NoMfa  == [state |-> "active", secret |-> 0, enrolled |-> FALSE, lastUsed |-> 0]

\* `code' is history: the secret and step of the code that signed it in, and how
\* many resets and secrets there had been by then.
OpSessionRow == [life : {"unborn", "live", "ended"}, mfa : BOOLEAN,
                 code : [secret : 0 .. MaxSecret, step : {0} \cup Step,
                          resets : 0 .. MaxResets, secrets : 0 .. MaxSecret]]
NoCode       == [secret |-> 0, step |-> 0, resets |-> 0, secrets |-> 0]

ConsoleState == [pc : {"idle", "password", "setup", "verify"},
                 session : OpSession \cup {NoOpSession},
                 secret : 0 .. MaxSecret, step : {0} \cup Step, first : BOOLEAN]
AtRest == [pc |-> "idle", session |-> NoOpSession, secret |-> 0, step |-> 0, first |-> FALSE]

ConsoleTypeOK ==
    /\ step \in Step /\ barred \in BOOLEAN
    /\ grant \in Grant
    /\ secrets \in 0 .. MaxSecret /\ resets \in 0 .. MaxResets
    /\ opSession \in [OpSession -> OpSessionRow]
    /\ console \in [Console -> ConsoleState]

ConsoleInit ==
    /\ step = 1 /\ barred = FALSE
    /\ grant = [NoMfa EXCEPT !.state = "never"]
    /\ secrets = 0 /\ resets = 0
    /\ opSession = [s \in OpSession |-> [life |-> "unborn", mfa |-> FALSE, code |-> NoCode]]
    /\ console = [c \in Console |-> AtRest]

Serves(c, state) == console' = [console EXCEPT ![c] = state]
Close(row) == IF row.life = "live" THEN [row EXCEPT !.life = "ended"] ELSE row
AllClosed  == [s \in OpSession |-> Close(opSession[s])]

-------------------------------------------------------------------------------
(* Sign-in *)

\* operatorLogin checks the password, the account and its grant ...
PasswordStep(c) ==
    /\ console[c] = AtRest
    /\ grant.state = "active" /\ ~barred
    /\ Serves(c, [AtRest EXCEPT !.pc = "password"])
    /\ UNCHANGED <<step, barred, grant, secrets, resets, opSession>>

\* ... and creates a session, whatever became of them.
StartOperatorSession(c, s) ==
    /\ console[c].pc = "password" /\ opSession[s].life = "unborn"
    /\ opSession' = [opSession EXCEPT ![s].life = "live"]
    /\ Serves(c, AtRest)
    /\ UNCHANGED <<step, barred, grant, secrets, resets>>

\* loadOperatorSession; a session whose grant is gone is revoked on the way.
Loaded(s) == opSession[s].life = "live" /\ ~barred /\ grant.state = "active"

DropSession(s) ==
    /\ opSession[s].life = "live" /\ ~barred /\ grant.state # "active"
    /\ opSession' = [opSession EXCEPT ![s] = Close(opSession[s])]
    /\ UNCHANGED <<step, barred, grant, secrets, resets, console>>

\* operatorMfaSetup: refused once enrolled ...
BeginSetup(c, s) ==
    /\ console[c] = AtRest /\ Loaded(s) /\ ~grant.enrolled
    /\ Serves(c, [AtRest EXCEPT !.pc = "setup", !.session = s])
    /\ UNCHANGED <<step, barred, grant, secrets, resets, opSession>>

\* ... but the new secret is written by id, whatever the grant has become.
WriteSecret(c) ==
    /\ console[c].pc = "setup" /\ secrets < MaxSecret
    /\ secrets' = secrets + 1
    /\ grant' = [grant EXCEPT !.secret = secrets + 1, !.lastUsed = 0]
    /\ Serves(c, AtRest)
    /\ UNCHANGED <<step, barred, resets, opSession>>

\* operatorMfaVerify: a code of the secret it loaded, of this step or one either
\* side (verifyTotp).
CheckCode(c, s, k) ==
    /\ console[c] = AtRest /\ Loaded(s) /\ grant.secret # 0
    /\ k \in Step /\ k <= step + 1 /\ step <= k + 1
    /\ Serves(c, [pc |-> "verify", session |-> s, secret |-> grant.secret, step |-> k,
                  first |-> ~grant.enrolled])
    /\ UNCHANGED <<step, barred, grant, secrets, resets, opSession>>

SignIn(c) ==
    LET q == console[c] IN
    /\ opSession' = [opSession EXCEPT ![q.session].mfa = TRUE,
                       ![q.session].code = [secret |-> q.secret, step |-> q.step,
                                            resets |-> resets, secrets |-> secrets]]
    /\ grant' = [grant EXCEPT !.lastUsed = q.step, !.enrolled = grant.enrolled \/ q.first]

\* Mutant: a code is refused only if it is older than the last one.
AcceptCodeAgain(c) ==
    /\ console[c].pc = "verify"
    /\ IF grant.lastUsed <= console[c].step THEN SignIn(c) ELSE UNCHANGED <<grant, opSession>>
    /\ Serves(c, AtRest)
    /\ UNCHANGED <<step, barred, secrets, resets>>

\* One transaction, conditional on the step being new.
AcceptCode(c) ==
    /\ console[c].pc = "verify"
    /\ IF grant.lastUsed < console[c].step THEN SignIn(c) ELSE UNCHANGED <<grant, opSession>>
    /\ Serves(c, AtRest)
    /\ UNCHANGED <<step, barred, secrets, resets>>

OperatorLogout(s) ==
    /\ Loaded(s)
    /\ opSession' = [opSession EXCEPT ![s] = Close(opSession[s])]
    /\ UNCHANGED <<step, barred, grant, secrets, resets, console>>

-------------------------------------------------------------------------------
(* The deployment side, each one transaction *)

\* grantOperator, also on a grant that is active: fresh MFA, sessions untouched.
\* ensureBootstrapOperator does it only if there never was a grant.
GiveGrant ==
    /\ resets < MaxResets
    /\ resets' = resets + 1
    /\ grant' = NoMfa
    /\ UNCHANGED <<step, barred, secrets, opSession, console>>

\* Mutant: the console sessions go on.
RevokeGrantOnly ==
    /\ grant.state = "active" /\ resets < MaxResets
    /\ resets' = resets + 1
    /\ grant' = [grant EXCEPT !.state = "revoked"]
    /\ UNCHANGED <<step, barred, secrets, opSession, console>>

RevokeGrant ==
    /\ grant.state = "active" /\ resets < MaxResets
    /\ resets' = resets + 1
    /\ grant' = [grant EXCEPT !.state = "revoked"]
    /\ opSession' = AllClosed
    /\ UNCHANGED <<step, barred, secrets, console>>

ResetMfa ==
    /\ grant.state = "active" /\ resets < MaxResets
    /\ resets' = resets + 1
    /\ grant' = NoMfa
    /\ opSession' = AllClosed
    /\ UNCHANGED <<step, barred, secrets, console>>

\* suspendAccount ends console sessions too; restoreAccount gives none back.
Bar ==
    /\ ~barred
    /\ barred' = TRUE
    /\ opSession' = AllClosed
    /\ UNCHANGED <<step, grant, secrets, resets, console>>

Unbar ==
    /\ barred
    /\ barred' = FALSE
    /\ UNCHANGED <<step, grant, secrets, resets, opSession, console>>

NextStep ==
    /\ step < LastStep
    /\ step' = step + 1
    /\ UNCHANGED <<barred, grant, secrets, resets, opSession, console>>

\* A handler dies, or its database fails.
DropRequest(c) ==
    /\ console[c] # AtRest
    /\ Serves(c, AtRest)
    /\ UNCHANGED <<step, barred, grant, secrets, resets, opSession>>

\* Eight hours after the password step.
OpSessionExpires(s) ==
    /\ opSession[s].life = "live"
    /\ opSession' = [opSession EXCEPT ![s] = Close(opSession[s])]
    /\ UNCHANGED <<step, barred, grant, secrets, resets, console>>

ConsoleStep(c) ==
    \/ PasswordStep(c)
    \/ \E s \in OpSession : StartOperatorSession(c, s)
    \/ \E s \in OpSession : BeginSetup(c, s)
    \/ WriteSecret(c)
    \/ \E s \in OpSession, k \in Step : CheckCode(c, s, k)
    \/ AcceptCode(c)
    \/ DropRequest(c)

ConsoleNext ==
    \/ \E c \in Console : ConsoleStep(c)
    \/ \E s \in OpSession : DropSession(s) \/ OperatorLogout(s) \/ OpSessionExpires(s)
    \/ GiveGrant
    \/ RevokeGrant
    \/ ResetMfa
    \/ Bar
    \/ Unbar
    \/ NextStep

ConsoleSpec == ConsoleInit /\ [][ConsoleNext]_consoleVars

-------------------------------------------------------------------------------
(* What must hold *)

\* A signed-in console session exists only under an active grant of an account
\* that is not suspended, even when a sign-in overlaps the revocation and the
\* grant is given again (operatorAuth.middleware.ts: "operator access doesn't
\* outlive the decision to remove it").
ConsoleNeedsGrant ==
    \A s \in OpSession :
      opSession[s].life = "live" /\ opSession[s].mfa => grant.state = "active" /\ ~barred

\* A code signs in one session, also when two requests race with it, unless the
\* secret was set up again or the grant reset in between (operatorMfaVerify: "a
\* code that was already used (even in a racing request) is refused").
CodeSignsInOnce ==
    \A s, z \in OpSession :
      (/\ opSession[s].mfa /\ opSession[z].mfa
       /\ opSession[s].code = opSession[z].code) => s = z
===============================================================================
