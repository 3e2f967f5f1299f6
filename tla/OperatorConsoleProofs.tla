------------------------- MODULE OperatorConsoleProofs -------------------------
(***************************************************************************)
(* Proofs about the operators' side.  OperatorConsole: for any number of   *)
(* requests, sessions, secrets and resets.  Import: for any number of      *)
(* users, tasks, addresses and killed runs.  Support: for any number of    *)
(* tickets and requests.                                                   *)
(***************************************************************************)
EXTENDS OperatorConsole, Import, Support, FiniteSetTheorems, TLAPS

USE DEF Step, Grant, OpSessionRow, ConsoleState

-------------------------------------------------------------------------------
(* Rows *)

\* A grant that changes its state is a grant.
LEMMA GrantWithState ==
  ASSUME NEW row \in Grant, NEW state \in {"never", "active", "revoked"}
  PROVE  [row EXCEPT !.state = state] \in Grant
  OBVIOUS

\* The grant with its MFA reset is a grant, and so is one that was never given.
LEMMA NoMfaRow == NoMfa \in Grant /\ [NoMfa EXCEPT !.state = "never"] \in Grant
<1>1. NoMfa \in Grant
  BY ConsoleAssumption DEF NoMfa
<1> QED
  BY <1>1, GrantWithState

\* A request at rest is a request.
LEMMA AtRestState == AtRest \in ConsoleState
  BY ConsoleAssumption DEF AtRest

\* So is one that moves on.
LEMMA StateWithPc ==
  ASSUME NEW q \in ConsoleState, NEW pc \in {"idle", "password", "setup", "verify"}
  PROVE  [q EXCEPT !.pc = pc] \in ConsoleState /\ [q EXCEPT !.pc = pc].pc = pc
  OBVIOUS

\* And one that remembers its session.
LEMMA StateWithSession ==
  ASSUME NEW q \in ConsoleState, NEW pc \in {"idle", "password", "setup", "verify"},
         NEW s \in OpSession
  PROVE  /\ [q EXCEPT !.pc = pc, !.session = s] \in ConsoleState
         /\ [q EXCEPT !.pc = pc, !.session = s].pc = pc
  OBVIOUS

\* A session that was never started is a session row.
LEMMA NoCodeRow ==
  [life |-> "unborn", mfa |-> FALSE, code |-> NoCode] \in OpSessionRow
  BY ConsoleAssumption DEF NoCode

\* The record of the code that signed a session in.
CodeRow == [secret : 0 .. MaxSecret, step : {0} \cup Step,
            resets : 0 .. MaxResets, secrets : 0 .. MaxSecret]

\* What Close does to a row: it ends it and leaves the rest.
LEMMA CloseRow ==
  ASSUME NEW row \in OpSessionRow
  PROVE  /\ Close(row) \in OpSessionRow
         /\ Close(row).life # "live"
         /\ (Close(row).life = "unborn") <=> (row.life = "unborn")
         /\ Close(row).mfa = row.mfa
         /\ Close(row).code = row.code
  BY DEF Close

\* What closing every session does.
LEMMA AllClosedRows ==
  ASSUME opSession \in [OpSession -> OpSessionRow]
  PROVE  /\ AllClosed \in [OpSession -> OpSessionRow]
         /\ \A s \in OpSession :
              /\ AllClosed[s].life # "live"
              /\ (AllClosed[s].life = "unborn") <=> (opSession[s].life = "unborn")
              /\ AllClosed[s].mfa = opSession[s].mfa
              /\ AllClosed[s].code = opSession[s].code
  BY CloseRow DEF AllClosed

\* What ending one session does.
LEMMA OneClosedRow ==
  ASSUME opSession \in [OpSession -> OpSessionRow], NEW z \in OpSession,
         opSession' = [opSession EXCEPT ![z] = Close(opSession[z])]
  PROVE  /\ opSession' \in [OpSession -> OpSessionRow]
         /\ \A s \in OpSession :
              /\ opSession'[s].life = "live" => opSession[s].life = "live"
              /\ (opSession'[s].life = "unborn") <=> (opSession[s].life = "unborn")
              /\ opSession'[s].mfa = opSession[s].mfa
              /\ opSession'[s].code = opSession[s].code
  BY CloseRow

\* What starting a session does.
LEMMA StartedRow ==
  ASSUME opSession \in [OpSession -> OpSessionRow], NEW z \in OpSession,
         opSession' = [opSession EXCEPT ![z].life = "live"]
  PROVE  /\ opSession' \in [OpSession -> OpSessionRow]
         /\ \A s \in OpSession :
              /\ s # z => opSession'[s] = opSession[s]
              /\ opSession'[z].life = "live"
              /\ opSession'[s].mfa = opSession[s].mfa
              /\ opSession'[s].code = opSession[s].code
  OBVIOUS

\* What signing a session in does.
LEMMA SignedInRow ==
  ASSUME opSession \in [OpSession -> OpSessionRow], NEW z \in OpSession,
         NEW k, k \in CodeRow,
         opSession' = [opSession EXCEPT ![z].mfa = TRUE, ![z].code = k]
  PROVE  /\ opSession' \in [OpSession -> OpSessionRow]
         /\ \A s \in OpSession :
              /\ opSession'[s].life = opSession[s].life
              /\ s # z => opSession'[s] = opSession[s]
         /\ opSession'[z].mfa = TRUE
         /\ opSession'[z].code = k
  BY DEF CodeRow
-------------------------------------------------------------------------------
(* What every step keeps *)

\* A request that checked a code did so for a session that had been started, and
\* if that session is still live the grant and the account are still good: what
\* takes either away ends every session in the same transaction.
CheckedLive ==
    \A c \in Console : console[c].pc = "verify" =>
      /\ console[c].session \in OpSession
      /\ opSession[console[c].session].life # "unborn"
      /\ opSession[console[c].session].life = "live" => grant.state = "active" /\ ~barred

\* A session signs in only after it was started.
SignedInWasStarted ==
    \A s \in OpSession : opSession[s].mfa => opSession[s].life # "unborn"

\* The codes used since the last reset and the last new secret are no newer than
\* the step the grant remembers, and none is from the future.
UsedCodesRemembered ==
    \A s \in OpSession : opSession[s].mfa =>
      /\ opSession[s].code.resets <= resets
      /\ opSession[s].code.secrets <= secrets
      /\ (opSession[s].code.resets = resets /\ opSession[s].code.secrets = secrets)
           => opSession[s].code.step <= grant.lastUsed

ConsoleInv == /\ ConsoleTypeOK
              /\ CheckedLive
              /\ SignedInWasStarted
              /\ UsedCodesRemembered
              /\ ConsoleNeedsGrant
              /\ CodeSignsInOnce

\* A request that serves another state than "verify" leaves what was checked by
\* the others.
LEMMA ServedOthers ==
  ASSUME console \in [Console -> ConsoleState], NEW c \in Console,
         NEW state \in ConsoleState, Serves(c, state)
  PROVE  /\ console' \in [Console -> ConsoleState]
         /\ console'[c] = state
         /\ \A d \in Console : d # c => console'[d] = console[d]
  BY DEF Serves

\* The initial states.
LEMMA InitInv == ASSUME ConsoleInit PROVE ConsoleInv
<1>1. ConsoleTypeOK
  <2>1. grant \in Grant
    BY NoMfaRow DEF ConsoleInit
  <2>2. opSession \in [OpSession -> OpSessionRow]
    BY NoCodeRow DEF ConsoleInit
  <2>3. console \in [Console -> ConsoleState]
    BY AtRestState DEF ConsoleInit
  <2>4. step = 1 /\ barred = FALSE /\ secrets = 0 /\ resets = 0
    BY DEF ConsoleInit
  <2>5. 1 \in Step /\ 0 \in 0 .. MaxSecret /\ 0 \in 0 .. MaxResets
    BY ConsoleAssumption
  <2> QED
    BY <2>1, <2>2, <2>3, <2>4, <2>5 DEF ConsoleTypeOK
<1>2. CheckedLive
  BY DEF ConsoleInit, CheckedLive, AtRest
<1>3. \A s \in OpSession : ~opSession[s].mfa
  BY DEF ConsoleInit
<1> QED
  BY <1>1, <1>2, <1>3 DEF ConsoleInv, SignedInWasStarted, UsedCodesRemembered,
                          ConsoleNeedsGrant, CodeSignsInOnce

\* A step that leaves the sessions, the grant and the account alone and begins no
\* check of a code keeps the invariant.
LEMMA RequestOnly ==
  ASSUME ConsoleInv, NEW c \in Console,
         NEW state \in ConsoleState, Serves(c, state), state.pc # "verify",
         UNCHANGED <<step, barred, grant, secrets, resets, opSession>>
  PROVE  ConsoleInv'
<1>1. ConsoleTypeOK'
  BY ServedOthers DEF ConsoleInv, ConsoleTypeOK
<1>2. CheckedLive'
  BY ServedOthers DEF ConsoleInv, ConsoleTypeOK, CheckedLive
<1> QED
  BY <1>1, <1>2 DEF ConsoleInv, SignedInWasStarted, UsedCodesRemembered,
                    ConsoleNeedsGrant, CodeSignsInOnce

\* A step that ends sessions and leaves the grant and the account alone keeps it.
LEMMA EndingOnly ==
  ASSUME ConsoleInv, NEW z \in OpSession,
         opSession' = [opSession EXCEPT ![z] = Close(opSession[z])],
         UNCHANGED <<step, barred, grant, secrets, resets, console>>
  PROVE  ConsoleInv'
<1>0. opSession \in [OpSession -> OpSessionRow]
  BY DEF ConsoleInv, ConsoleTypeOK
<1>1. ConsoleTypeOK'
  BY <1>0, OneClosedRow DEF ConsoleInv, ConsoleTypeOK
<1>2. CheckedLive'
  BY <1>0, OneClosedRow DEF ConsoleInv, CheckedLive
<1>3. SignedInWasStarted' /\ ConsoleNeedsGrant'
  BY <1>0, OneClosedRow DEF ConsoleInv, SignedInWasStarted, ConsoleNeedsGrant
<1>4. CodeSignsInOnce'
  <2>1. \A s \in OpSession : opSession'[s].mfa = opSession[s].mfa
                          /\ opSession'[s].code = opSession[s].code
    BY <1>0, OneClosedRow
  <2> QED
    BY <2>1 DEF ConsoleInv, CodeSignsInOnce
<1>5. UsedCodesRemembered'
  BY <1>0, OneClosedRow DEF ConsoleInv, UsedCodesRemembered
<1> QED
  BY <1>1, <1>2, <1>3, <1>4, <1>5 DEF ConsoleInv

\* A step that ends every session may do anything to the grant and the account,
\* if it counts what it does to the codes the grant remembers.
LEMMA EndingAll ==
  ASSUME ConsoleInv, opSession' = AllClosed,
         grant' \in Grant, barred' \in BOOLEAN, resets' \in 0 .. MaxResets,
         resets' = resets + 1 \/ (resets' = resets /\ grant' = grant),
         UNCHANGED <<step, secrets, console>>
  PROVE  ConsoleInv'
<1>0. opSession \in [OpSession -> OpSessionRow] /\ resets \in 0 .. MaxResets
  BY DEF ConsoleInv, ConsoleTypeOK
<1>1. ConsoleTypeOK'
  BY <1>0, AllClosedRows DEF ConsoleInv, ConsoleTypeOK
<1>2. CheckedLive'
  BY <1>0, AllClosedRows DEF ConsoleInv, CheckedLive
<1>3. SignedInWasStarted' /\ ConsoleNeedsGrant'
  BY <1>0, AllClosedRows DEF ConsoleInv, SignedInWasStarted, ConsoleNeedsGrant
<1>4. CodeSignsInOnce'
  BY <1>0, AllClosedRows DEF ConsoleInv, CodeSignsInOnce
<1>5. UsedCodesRemembered'
  <2> SUFFICES ASSUME NEW s \in OpSession, opSession'[s].mfa
               PROVE  /\ opSession'[s].code.resets <= resets'
                      /\ opSession'[s].code.secrets <= secrets'
                      /\ (opSession'[s].code.resets = resets' /\ opSession'[s].code.secrets = secrets')
                           => opSession'[s].code.step <= grant'.lastUsed
    BY DEF UsedCodesRemembered
  <2>1. opSession'[s].mfa = opSession[s].mfa /\ opSession'[s].code = opSession[s].code
    BY <1>0, AllClosedRows
  <2>2. /\ opSession[s].code.resets <= resets
        /\ opSession[s].code.secrets <= secrets
        /\ (opSession[s].code.resets = resets /\ opSession[s].code.secrets = secrets)
             => opSession[s].code.step <= grant.lastUsed
    BY <2>1 DEF ConsoleInv, UsedCodesRemembered
  <2>3. opSession[s].code.resets \in Nat /\ resets \in Nat
    BY <1>0, ConsoleAssumption
  <2> QED
    BY <2>1, <2>2, <2>3
<1> QED
  BY <1>1, <1>2, <1>3, <1>4, <1>5 DEF ConsoleInv

-------------------------------------------------------------------------------
(* The steps that need more *)

\* A session that starts has not signed in, and no checked code is for it.
LEMMA StartKeeps ==
  ASSUME ConsoleInv, NEW c \in Console, NEW s \in OpSession,
         StartOperatorSession(c, s)
  PROVE  ConsoleInv'
<1>0. /\ opSession \in [OpSession -> OpSessionRow]
      /\ console \in [Console -> ConsoleState]
      /\ opSession[s].life = "unborn"
      /\ opSession' = [opSession EXCEPT ![s].life = "live"]
      /\ Serves(c, AtRest)
      /\ UNCHANGED <<step, barred, grant, secrets, resets>>
  BY DEF StartOperatorSession, ConsoleInv, ConsoleTypeOK
<1>1. ~opSession[s].mfa
  BY <1>0 DEF ConsoleInv, SignedInWasStarted
<1>2. ConsoleTypeOK'
  BY <1>0, StartedRow, AtRestState, ServedOthers DEF ConsoleInv, ConsoleTypeOK
<1>3. CheckedLive'
  <2> SUFFICES ASSUME NEW d \in Console, console'[d].pc = "verify"
               PROVE  /\ console'[d].session \in OpSession
                      /\ opSession'[console'[d].session].life # "unborn"
                      /\ opSession'[console'[d].session].life = "live" => grant.state = "active" /\ ~barred
    BY <1>0 DEF CheckedLive
  <2>1. console'[d] = console[d]
    <3>1. console'[c] = AtRest /\ (d # c => console'[d] = console[d])
      BY <1>0, AtRestState, ServedOthers
    <3> QED
      BY <3>1 DEF AtRest
  <2>2. console[d].session \in OpSession /\ opSession[console[d].session].life # "unborn"
    BY <2>1 DEF ConsoleInv, CheckedLive
  <2>3. opSession'[console[d].session] = opSession[console[d].session]
    BY <1>0, <2>2, StartedRow
  <2> QED
    BY <2>1, <2>2, <2>3 DEF ConsoleInv, CheckedLive
<1>4. SignedInWasStarted' /\ ConsoleNeedsGrant'
  BY <1>0, <1>1, StartedRow DEF ConsoleInv, SignedInWasStarted, ConsoleNeedsGrant
<1>5. UsedCodesRemembered'
  BY <1>0, StartedRow DEF ConsoleInv, UsedCodesRemembered
<1>6. CodeSignsInOnce'
  BY <1>0, StartedRow DEF ConsoleInv, CodeSignsInOnce
<1> QED
  BY <1>2, <1>3, <1>4, <1>5, <1>6 DEF ConsoleInv

\* A check of a code is of a session that is live under a good grant.
LEMMA CheckKeeps ==
  ASSUME ConsoleInv, NEW c \in Console, NEW s \in OpSession, NEW k \in Step,
         CheckCode(c, s, k)
  PROVE  ConsoleInv'
<1> DEFINE state == [pc |-> "verify", session |-> s, secret |-> grant.secret, step |-> k,
                     first |-> ~grant.enrolled]
<1>1. state \in ConsoleState /\ state.pc = "verify" /\ state.session = s
  BY DEF ConsoleInv, ConsoleTypeOK
<1>2. /\ Serves(c, state)
      /\ UNCHANGED <<step, barred, grant, secrets, resets, opSession>>
      /\ opSession[s].life = "live" /\ ~barred /\ grant.state = "active"
  BY DEF CheckCode, Loaded
<1> HIDE DEF state
<1>3. ConsoleTypeOK'
  BY <1>1, <1>2, ServedOthers DEF ConsoleInv, ConsoleTypeOK
<1>4. CheckedLive'
  BY <1>1, <1>2, ServedOthers DEF ConsoleInv, ConsoleTypeOK, CheckedLive
<1> QED
  BY <1>2, <1>3, <1>4 DEF ConsoleInv, SignedInWasStarted, UsedCodesRemembered,
                          ConsoleNeedsGrant, CodeSignsInOnce

\* A new secret forgets the last step, and no code of it has been used.
LEMMA WriteKeeps ==
  ASSUME ConsoleInv, NEW c \in Console, WriteSecret(c)
  PROVE  ConsoleInv'
<1>0. /\ secrets < MaxSecret /\ secrets' = secrets + 1
      /\ grant' = [grant EXCEPT !.secret = secrets + 1, !.lastUsed = 0]
      /\ Serves(c, AtRest)
      /\ UNCHANGED <<step, barred, resets, opSession>>
      /\ grant \in Grant /\ secrets \in 0 .. MaxSecret /\ MaxSecret \in Nat
      /\ opSession \in [OpSession -> OpSessionRow]
  BY ConsoleAssumption DEF WriteSecret, ConsoleInv, ConsoleTypeOK
<1>1. grant' \in Grant /\ grant'.state = grant.state /\ secrets' \in 0 .. MaxSecret
  <2>1. grant' = [state |-> grant.state, secret |-> secrets + 1,
                  enrolled |-> grant.enrolled, lastUsed |-> 0]
    BY <1>0
  <2>2. secrets + 1 \in 0 .. MaxSecret
    BY <1>0
  <2> QED
    BY <1>0, <2>1, <2>2
<1>2. ConsoleTypeOK'
  <2>1. console' \in [Console -> ConsoleState]
    BY <1>0, AtRestState, ServedOthers DEF ConsoleInv, ConsoleTypeOK
  <2> QED
    BY <1>0, <1>1, <2>1 DEF ConsoleInv, ConsoleTypeOK
<1>3. CheckedLive'
  <2>0. AtRest.pc # "verify"
    BY DEF AtRest
  <2>1. /\ console'[c] = AtRest /\ AtRest.pc # "verify"
        /\ \A d \in Console : d # c => console'[d] = console[d]
    BY <1>0, <2>0, AtRestState, ServedOthers DEF ConsoleInv, ConsoleTypeOK
  <2> QED
    BY <1>0, <1>1, <2>1 DEF ConsoleInv, CheckedLive
<1>4. SignedInWasStarted' /\ ConsoleNeedsGrant' /\ CodeSignsInOnce'
  BY <1>0, <1>1 DEF ConsoleInv, SignedInWasStarted, ConsoleNeedsGrant, CodeSignsInOnce
<1>5. UsedCodesRemembered'
  <2> SUFFICES ASSUME NEW s \in OpSession, opSession[s].mfa
               PROVE  /\ opSession[s].code.resets <= resets
                      /\ opSession[s].code.secrets <= secrets + 1
                      /\ opSession[s].code.secrets # secrets + 1
    BY <1>0 DEF UsedCodesRemembered
  <2>1. opSession[s].code.secrets \in Nat /\ secrets \in Nat
    BY <1>0
  <2> QED
    BY <2>1 DEF ConsoleInv, UsedCodesRemembered
<1> QED
  BY <1>2, <1>3, <1>4, <1>5 DEF ConsoleInv

\* A code signs its session in if its step is later than the last one used.
LEMMA AcceptKeeps ==
  ASSUME ConsoleInv, NEW c \in Console, AcceptCode(c)
  PROVE  ConsoleInv'
<1> DEFINE q == console[c]
           code == [secret |-> q.secret, step |-> q.step, resets |-> resets, secrets |-> secrets]
<1>0. /\ q \in ConsoleState /\ q.pc = "verify" /\ grant \in Grant
      /\ opSession \in [OpSession -> OpSessionRow]
      /\ secrets \in 0 .. MaxSecret /\ resets \in 0 .. MaxResets
      /\ Serves(c, AtRest)
      /\ UNCHANGED <<step, barred, secrets, resets>>
  BY DEF AcceptCode, ConsoleInv, ConsoleTypeOK
<1>1. CASE ~(grant.lastUsed < q.step)
  <2>1. UNCHANGED <<grant, opSession>>
    BY <1>1 DEF AcceptCode
  <2> QED
    BY <1>0, <2>1, AtRestState, RequestOnly DEF AtRest
<1>2. CASE grant.lastUsed < q.step
  <2>1. /\ opSession' = [opSession EXCEPT ![q.session].mfa = TRUE, ![q.session].code = code]
        /\ grant' = [grant EXCEPT !.lastUsed = q.step, !.enrolled = grant.enrolled \/ q.first]
    BY <1>2 DEF AcceptCode, SignIn
  <2>2. /\ q.session \in OpSession
        /\ opSession[q.session].life # "unborn"
        /\ opSession[q.session].life = "live" => grant.state = "active" /\ ~barred
    BY <1>0 DEF ConsoleInv, CheckedLive
  <2>3. grant' \in Grant /\ grant'.state = grant.state /\ grant'.lastUsed = q.step
    BY <1>0, <2>1
  <2>4. /\ code \in CodeRow
        /\ code.step = q.step /\ code.resets = resets /\ code.secrets = secrets
    BY <1>0 DEF CodeRow
  <2> HIDE DEF code
  <2>b. opSession \in [OpSession -> OpSessionRow] /\ q.session \in OpSession
    BY <1>0, <2>2
  <2>5. /\ opSession' \in [OpSession -> OpSessionRow]
        /\ \A s \in OpSession : opSession'[s].life = opSession[s].life
        /\ \A s \in OpSession : s # q.session => opSession'[s] = opSession[s]
        /\ opSession'[q.session].mfa = TRUE /\ opSession'[q.session].code = code
    BY <2>1, <2>4, <2>b, SignedInRow
  <2>a. /\ console' \in [Console -> ConsoleState]
        /\ console'[c] = AtRest /\ AtRest.pc # "verify"
        /\ \A d \in Console : d # c => console'[d] = console[d]
    BY <1>0, AtRestState, ServedOthers DEF ConsoleInv, ConsoleTypeOK, AtRest
  <2>6. ConsoleTypeOK'
    BY <1>0, <2>3, <2>5, <2>a DEF ConsoleInv, ConsoleTypeOK
  <2>7. CheckedLive'
    BY <1>0, <2>3, <2>5, <2>a DEF ConsoleInv, CheckedLive
  <2>8. SignedInWasStarted'
    BY <2>2, <2>5 DEF ConsoleInv, SignedInWasStarted
  <2>9. ConsoleNeedsGrant'
    BY <1>0, <2>2, <2>3, <2>5 DEF ConsoleInv, ConsoleNeedsGrant
  <2>10. UsedCodesRemembered'
    <3> SUFFICES ASSUME NEW s \in OpSession, opSession'[s].mfa
                 PROVE  /\ opSession'[s].code.resets <= resets
                        /\ opSession'[s].code.secrets <= secrets
                        /\ (opSession'[s].code.resets = resets /\ opSession'[s].code.secrets = secrets)
                             => opSession'[s].code.step <= q.step
      BY <1>0, <2>3 DEF UsedCodesRemembered
    <3>1. CASE s = q.session
      BY <1>0, <2>4, <2>5, <3>1, ConsoleAssumption DEF CodeRow
    <3>2. CASE s # q.session
      <4>1. opSession'[s] = opSession[s]
        BY <2>5, <3>2
      <4>2. opSession[s].code.step \in Nat /\ grant.lastUsed \in Nat /\ q.step \in Nat
        BY <1>0, ConsoleAssumption
      <4> QED
        BY <1>2, <4>1, <4>2 DEF ConsoleInv, UsedCodesRemembered
    <3> QED
      BY <3>1, <3>2
  <2>11. CodeSignsInOnce'
    <3>1. \A s \in OpSession : opSession[s].mfa => opSession[s].code # code
      <4> SUFFICES ASSUME NEW s \in OpSession, opSession[s].mfa, opSession[s].code = code
                   PROVE  FALSE
        OBVIOUS
      <4>1. q.step <= grant.lastUsed
        BY <2>4 DEF ConsoleInv, UsedCodesRemembered
      <4>2. grant.lastUsed \in Nat /\ q.step \in Nat
        BY <1>0, ConsoleAssumption
      <4> QED
        BY <1>2, <4>1, <4>2
    <3> QED
      BY <2>2, <2>5, <3>1 DEF ConsoleInv, CodeSignsInOnce
  <2> QED
    BY <2>6, <2>7, <2>8, <2>9, <2>10, <2>11 DEF ConsoleInv
<1> QED
  BY <1>1, <1>2

\* A grant given where there was one keeps the sessions: what they need it has.
LEMMA GiveKeeps ==
  ASSUME ConsoleInv, GiveGrant
  PROVE  ConsoleInv'
<1>0. /\ resets < MaxResets /\ resets' = resets + 1 /\ resets \in 0 .. MaxResets /\ MaxResets \in Nat
      /\ grant' = NoMfa /\ NoMfa \in Grant /\ NoMfa.state = "active"
      /\ opSession \in [OpSession -> OpSessionRow]
      /\ UNCHANGED <<step, barred, secrets, opSession, console>>
  BY NoMfaRow, ConsoleAssumption DEF GiveGrant, ConsoleInv, ConsoleTypeOK, NoMfa
<1>1. ConsoleTypeOK'
  BY <1>0 DEF ConsoleInv, ConsoleTypeOK
<1>2. CheckedLive' /\ SignedInWasStarted' /\ ConsoleNeedsGrant' /\ CodeSignsInOnce'
  BY <1>0 DEF ConsoleInv, CheckedLive, SignedInWasStarted, ConsoleNeedsGrant, CodeSignsInOnce
<1>3. UsedCodesRemembered'
  BY <1>0 DEF ConsoleInv, UsedCodesRemembered
<1> QED
  BY <1>1, <1>2, <1>3 DEF ConsoleInv

\* Every step keeps the invariant.
LEMMA StepInv ==
  ASSUME ConsoleInv, [ConsoleNext]_consoleVars
  PROVE  ConsoleInv'
<1>0. opSession \in [OpSession -> OpSessionRow] /\ grant \in Grant /\ resets \in 0 .. MaxResets
  BY DEF ConsoleInv, ConsoleTypeOK
<1>1. ASSUME NEW c \in Console, PasswordStep(c) PROVE ConsoleInv'
  <2>1. /\ [AtRest EXCEPT !.pc = "password"] \in ConsoleState
        /\ [AtRest EXCEPT !.pc = "password"].pc = "password"
    BY AtRestState, StateWithPc
  <2> QED
    BY <1>1, <2>1, RequestOnly DEF PasswordStep
<1>2. ASSUME NEW c \in Console, NEW s \in OpSession, BeginSetup(c, s) PROVE ConsoleInv'
  <2>1. /\ [AtRest EXCEPT !.pc = "setup", !.session = s] \in ConsoleState
        /\ [AtRest EXCEPT !.pc = "setup", !.session = s].pc = "setup"
    BY AtRestState, StateWithSession
  <2> QED
    BY <1>2, <2>1, RequestOnly DEF BeginSetup
<1>3. ASSUME NEW c \in Console, DropRequest(c) PROVE ConsoleInv'
  BY <1>3, AtRestState, RequestOnly DEF DropRequest, AtRest
<1>4. ASSUME NEW c \in Console, ConsoleStep(c) PROVE ConsoleInv'
  BY <1>1, <1>2, <1>3, <1>4, StartKeeps, WriteKeeps, CheckKeeps, AcceptKeeps DEF ConsoleStep
<1>5. ASSUME NEW s \in OpSession, DropSession(s) \/ OperatorLogout(s) \/ OpSessionExpires(s)
      PROVE  ConsoleInv'
  BY <1>5, EndingOnly DEF DropSession, OperatorLogout, OpSessionExpires
<1>6. CASE RevokeGrant
  <2>1. [grant EXCEPT !.state = "revoked"] \in Grant /\ resets + 1 \in 0 .. MaxResets
    BY <1>0, <1>6, ConsoleAssumption DEF RevokeGrant
  <2> QED
    BY <1>6, <2>1, EndingAll DEF RevokeGrant, ConsoleInv, ConsoleTypeOK
<1>7. CASE ResetMfa
  <2>1. resets + 1 \in 0 .. MaxResets
    BY <1>0, <1>7, ConsoleAssumption DEF ResetMfa
  <2> QED
    BY <1>7, <2>1, NoMfaRow, EndingAll DEF ResetMfa, ConsoleInv, ConsoleTypeOK
<1>8. CASE Bar
  BY <1>0, <1>8, EndingAll DEF Bar
<1>9. CASE Unbar
  BY <1>9 DEF Unbar, ConsoleInv, ConsoleTypeOK, CheckedLive, SignedInWasStarted,
              UsedCodesRemembered, ConsoleNeedsGrant, CodeSignsInOnce
<1>10. CASE NextStep
  <2>1. ConsoleTypeOK'
    BY <1>10, ConsoleAssumption DEF NextStep, ConsoleInv, ConsoleTypeOK
  <2> QED
    BY <1>10, <2>1 DEF NextStep, ConsoleInv, CheckedLive, SignedInWasStarted,
                       UsedCodesRemembered, ConsoleNeedsGrant, CodeSignsInOnce
<1>11. CASE UNCHANGED consoleVars
  BY <1>11 DEF consoleVars, ConsoleInv, ConsoleTypeOK, CheckedLive, SignedInWasStarted,
               UsedCodesRemembered, ConsoleNeedsGrant, CodeSignsInOnce
<1> QED
  BY <1>4, <1>5, <1>6, <1>7, <1>8, <1>9, <1>10, <1>11, GiveKeeps DEF ConsoleNext

-------------------------------------------------------------------------------
(* Results *)

\* The invariant holds in every state.
LEMMA Always == ConsoleSpec => []ConsoleInv
<1>1. ConsoleInit => ConsoleInv
  BY InitInv
<1>2. ConsoleInv /\ [ConsoleNext]_consoleVars => ConsoleInv'
  BY StepInv
<1> QED
  BY <1>1, <1>2, PTL DEF ConsoleSpec

\* Grants, sessions and requests stay well-formed.
THEOREM TypeCorrect == ConsoleSpec => []ConsoleTypeOK
<1>1. ConsoleInv => ConsoleTypeOK
  BY DEF ConsoleInv
<1> QED
  BY <1>1, Always, PTL

\* No session is signed in to the console without an active grant of an account
\* that is not suspended, however sign-ins overlap revocations, resets, new
\* grants and suspensions (operatorMfaVerify, revokeOperator, suspendAccount).
THEOREM SignedInHasGrant == ConsoleSpec => []ConsoleNeedsGrant
<1>1. ConsoleInv => ConsoleNeedsGrant
  BY DEF ConsoleInv
<1> QED
  BY <1>1, Always, PTL

\* Between two resets or new secrets a code signs in one session, however many
\* requests race with it (the conditional update of operatorMfaVerify).
THEOREM CodeOnce == ConsoleSpec => []CodeSignsInOnce
<1>1. ConsoleInv => CodeSignsInOnce
  BY DEF ConsoleInv
<1> QED
  BY <1>1, Always, PTL


-------------------------------------------------------------------------------
(* The import *)

\* Same run, same batches.
SameRun(i, j) ==
    /\ j.quiet = i.quiet /\ j.no = i.no
    /\ j.users = i.users /\ j.tasks = i.tasks /\ j.home = i.home

LEMMA SkipType ==
  ASSUME NEW i \in Importer
  PROVE  /\ Skip(i) \in Importer /\ SameRun(i, Skip(i))
         /\ Skip(i).skipped /\ Skip(i).at = i.at /\ Skip(i).id = i.id
BY DEF Importer, Skip, SameRun

LEMMA AfterType ==
  ASSUME NEW i \in Importer, i.id \in Users
  PROVE  /\ After(i) \in Importer /\ SameRun(i, After(i)) /\ After(i).skipped = i.skipped
         /\ \/ i.id < LastUser /\ After(i).at = "look" /\ After(i).id = i.id + 1
            \/ i.id = LastUser /\ After(i).at = "owners" /\ After(i).id = i.id
<1>1. i.id \in 1 .. LastUser /\ LastUser \in Nat /\ LastTask \in Nat
  BY ImportBounds DEF Users
<1>2. i.id < LastUser => i.id + 1 \in 1 .. (LastUser + LastTask + 1)
  BY <1>1
<1>3. CASE i.id < LastUser
  <2>1. After(i) = [i EXCEPT !.at = "look", !.id = i.id + 1]
    BY <1>3 DEF After
  <2> QED
    BY <1>2, <1>3, <2>1 DEF Importer, SameRun
<1>4. CASE i.id = LastUser
  <2>1. After(i) = [i EXCEPT !.at = "owners"]
    BY <1>1, <1>4 DEF After
  <2> QED
    BY <1>4, <2>1 DEF Importer, SameRun
<1> QED
  BY <1>1, <1>3, <1>4

LEMMA AfterTaskType ==
  ASSUME NEW i \in Importer, i.id \in Tasks, i.at = "tasks"
  PROVE  /\ AfterTask(i) \in Importer /\ SameRun(i, AfterTask(i))
         /\ AfterTask(i).skipped = i.skipped
         /\ \/ i.id < LastTask /\ AfterTask(i).at = "tasks" /\ AfterTask(i).id = i.id + 1
            \/ i.id = LastTask /\ AfterTask(i).at = "done" /\ AfterTask(i).id = i.id
<1>1. i.id \in 1 .. LastTask /\ LastUser \in Nat /\ LastTask \in Nat
  BY ImportBounds DEF Tasks
<1>2. i.id < LastTask => i.id + 1 \in 1 .. (LastUser + LastTask + 1)
  BY <1>1
<1>3. CASE i.id < LastTask
  <2>1. AfterTask(i) = [i EXCEPT !.id = i.id + 1]
    BY <1>3 DEF AfterTask
  <2> QED
    BY <1>2, <1>3, <2>1 DEF Importer, SameRun
<1>4. CASE i.id = LastTask
  <2>1. AfterTask(i) = [i EXCEPT !.at = "done"]
    BY <1>1, <1>4 DEF AfterTask
  <2> QED
    BY <1>4, <2>1 DEF Importer, SameRun
<1> QED
  BY <1>1, <1>3, <1>4

\* What an import that ends whole has made of a user and of a task it read.
UserWhole(i, u) ==
    i.users[u] # Absent => /\ AccountOf(u) = {[legacy |-> u, email |-> i.users[u]]}
                           /\ HomesOf(u) # {}
TaskWhole(i, t) ==
    i.tasks[t] # Absent => /\ imported[t] # Absent
                           /\ imported[t].of = i.tasks[t].of /\ imported[t].says = i.tasks[t].says
                           /\ imported[t].home \in HomesOf(i.tasks[t].of)

AmongUsers(i) == i.at \in {"look", "save", "house", "build"}

\* How far the script is, and what it has made so far if it skipped nothing.
Progress(i) ==
    /\ i.at # "stopped" => i.no \in 1 .. MaxImports
    /\ AmongUsers(i) => i.id \in Users
    /\ i.at = "tasks" => i.id \in Tasks
    /\ i.at = "save" => i.users[i.id] \in Mailbox
    /\ i.at \in {"house", "build"} =>
         AccountOf(i.id) = {[legacy |-> i.id, email |-> i.users[i.id]]}
    /\ i.at = "build" => HomesOf(i.id) = {}
    /\ (AmongUsers(i) /\ ~i.skipped) => \A u \in Users : u < i.id => UserWhole(i, u)
    /\ (i.at \in {"owners", "tasks", "done"} /\ ~i.skipped) => \A u \in Users : UserWhole(i, u)
    /\ i.at \in {"tasks", "done"} =>
         \A u \in Users : i.home[u] # Absent => i.home[u] \in HomesOf(u)
    /\ (i.at = "tasks" /\ ~i.skipped) => \A t \in Tasks : t < i.id => TaskWhole(i, t)
    /\ (i.at = "done" /\ ~i.skipped) => \A t \in Tasks : TaskWhole(i, t)

\* A run that began when the old server had stopped reads what stays so.
ReadsAll(i) ==
    (i.quiet /\ i.at # "stopped") =>
      /\ ~mongo.live /\ i.users = mongo.users
      /\ i.at \in {"tasks", "done"} => i.tasks = mongo.tasks

OneHome == \A u \in Users : \A g, h \in HomesOf(u) : g = h

ImportInv == ImportTypeOK /\ OneHome /\ Progress(importer) /\ ReadsAll(importer)

LEMMA SourceType ==
  ASSUME NEW m \in Source
  PROVE  /\ NoUsers \in UserDocs /\ NoTasks \in TaskDocs
         /\ m.users \in UserDocs /\ m.tasks \in TaskDocs
         /\ \A u \in Users, email \in Mailbox \cup {NoMailbox, Absent} :
              [m.users EXCEPT ![u] = email] \in UserDocs
BY DEF Source, NoUsers, NoTasks, UserDocs, TaskDocs

LEMMA InitImport == ImportInit => ImportInv
<1> SUFFICES ASSUME ImportInit PROVE ImportInv
  OBVIOUS
<1>1. mongo \in Source /\ accounts = {} /\ homes = {} /\ imported = NoTasks
  BY DEF ImportInit
<1>2. 1 \in 1 .. (LastUser + LastTask + 1) /\ 0 \in 0 .. MaxImports
  BY ImportBounds
<1>3. NoUsers \in [Users -> Homes \cup {Absent}]
      /\ NoTasks \in [Tasks -> [home : Homes, of : Users, says : 1..2] \cup {Absent}]
  BY DEF NoUsers, NoTasks
<1>4. importer \in Importer /\ importer.at = "stopped"
  BY <1>1, <1>2, <1>3, SourceType DEF ImportInit, Importer
<1>5. ImportTypeOK
  BY <1>1, <1>3, <1>4 DEF ImportTypeOK
<1>6. OneHome
  BY <1>1 DEF OneHome, HomesOf
<1> QED
  BY <1>4, <1>5, <1>6 DEF ImportInv, Progress, ReadsAll, AmongUsers

\* A step of the script over a user that needs nothing more.
LEMMA NextUser ==
  ASSUME ImportInv, AmongUsers(importer), UNCHANGED <<mongo, accounts, homes, imported>>,
         NEW i \in Importer, SameRun(importer, i), i.id = importer.id,
         importer.skipped => i.skipped, ~i.skipped => UserWhole(importer, importer.id),
         importer' = After(i)
  PROVE  ImportInv'
<1>1. /\ i.id \in Users /\ importer \in Importer /\ importer.at # "stopped"
      /\ Progress(importer) /\ ReadsAll(importer)
  BY DEF ImportInv, ImportTypeOK, Progress, AmongUsers
<1> DEFINE j == After(i)
<1>2. /\ j \in Importer /\ SameRun(i, j) /\ j.skipped = i.skipped
      /\ \/ i.id < LastUser /\ j.at = "look" /\ j.id = i.id + 1
         \/ i.id = LastUser /\ j.at = "owners" /\ j.id = i.id
  BY <1>1, AfterType
<1> HIDE DEF j
<1>3. importer' = j
  BY DEF j
<1>4. LastUser \in Nat /\ i.id \in 1 .. LastUser
  BY <1>1, ImportBounds DEF Users
<1>5. j.at \in {"look", "owners"} /\ (j.at = "look" => j.id \in Users)
  BY <1>2, <1>4 DEF Users
<1>6. SameRun(importer, j)
  BY <1>2 DEF SameRun
<1>7. ASSUME ~j.skipped, NEW u \in Users, u <= importer.id PROVE UserWhole(j, u)'
  <2>1. u < importer.id \/ u = importer.id
    BY <1>4, <1>7 DEF Users
  <2>2. UserWhole(importer, u)
    BY <1>1, <1>2, <1>7, <2>1 DEF Progress, AmongUsers
  <2> QED
    BY <1>6, <2>2 DEF UserWhole, SameRun, AccountOf, HomesOf
<1>8. Progress(j)'
  <2>1. (j.at = "look" /\ ~j.skipped) => \A u \in Users : u < j.id => UserWhole(j, u)'
    BY <1>2, <1>4, <1>7 DEF Users
  <2>2. (j.at = "owners" /\ ~j.skipped) => \A u \in Users : UserWhole(j, u)'
    BY <1>2, <1>4, <1>7 DEF Users
  <2>3. j.no \in 1 .. MaxImports
    BY <1>1, <1>6 DEF Progress, SameRun
  <2> QED
    BY <1>5, <2>1, <2>2, <2>3 DEF Progress, AmongUsers
<1>9. ReadsAll(j)'
  BY <1>1, <1>5, <1>6 DEF ReadsAll, SameRun
<1> QED
  BY <1>2, <1>3, <1>8, <1>9 DEF ImportInv, ImportTypeOK, OneHome, HomesOf

LEMMA StartImportKeeps ==
  ASSUME ImportInv, StartImport
  PROVE  ImportInv'
<1>1. importer \in Importer /\ mongo \in Source
  BY DEF ImportInv, ImportTypeOK
<1>2. /\ importer' = [importer EXCEPT !.at = "look", !.id = 1, !.skipped = FALSE, !.no = @ + 1,
                                      !.quiet = ~mongo.live, !.users = mongo.users,
                                      !.tasks = NoTasks, !.home = NoUsers]
      /\ importer.no < MaxImports /\ UNCHANGED <<mongo, accounts, homes, imported>>
  BY DEF StartImport
<1>3. importer.no + 1 \in 1 .. MaxImports /\ 1 \in 1 .. (LastUser + LastTask + 1) /\ 1 \in Users
  BY <1>1, <1>2, ImportBounds DEF Importer, Users
<1>4. NoUsers \in [Users -> Homes \cup {Absent}] /\ NoTasks \in TaskDocs /\ mongo.users \in UserDocs
      /\ mongo.live \in BOOLEAN
  BY <1>1, SourceType DEF NoUsers, Source
<1>5. /\ importer' \in Importer /\ importer'.at = "look" /\ importer'.id = 1
      /\ importer'.no \in 1 .. MaxImports
      /\ importer'.quiet = ~mongo.live /\ importer'.users = mongo.users
  <2>1. PICK no : no = importer.no + 1
    OBVIOUS
  <2>2. PICK j : j = [importer EXCEPT !.at = "look", !.id = 1, !.skipped = FALSE, !.no = no,
                                      !.quiet = ~mongo.live, !.users = mongo.users,
                                      !.tasks = NoTasks, !.home = NoUsers]
    OBVIOUS
  <2>3. no \in 1 .. MaxImports /\ no \in 0 .. MaxImports
    BY <1>3, <2>1, ImportBounds
  <2>4. j \in Importer /\ j.at = "look" /\ j.id = 1 /\ j.no = no
        /\ j.quiet = ~mongo.live /\ j.users = mongo.users
    BY <1>1, <1>3, <1>4, <2>2, <2>3 DEF Importer
  <2>5. importer' = j
    BY <1>2, <2>1, <2>2
  <2> QED
    BY <2>3, <2>4, <2>5
<1>6. Progress(importer)'
  <2>1. \A u \in Users : ~(u < 1)
    BY ImportBounds DEF Users
  <2> QED
    BY <1>3, <1>5, <2>1 DEF Progress, AmongUsers
<1>7. ReadsAll(importer)'
  BY <1>2, <1>4, <1>5 DEF ReadsAll
<1>8. UNCHANGED <<mongo, accounts, homes, imported>>
  BY <1>2
<1>9. ImportTypeOK'
  BY <1>5, <1>8 DEF ImportInv, ImportTypeOK
<1>10. OneHome'
  BY <1>8 DEF ImportInv, OneHome, HomesOf
<1> QED
  BY <1>6, <1>7, <1>9, <1>10 DEF ImportInv

\* A step that only moves the script on, over the same user.
LEMMA SameUser ==
  ASSUME ImportInv, AmongUsers(importer), NEW at \in {"save", "house", "build"},
         importer' = [importer EXCEPT !.at = at], UNCHANGED <<mongo, homes, imported>>,
         NEW id, id = importer.id,
         \A u \in Users \ {id} : AccountOf(u)' = AccountOf(u),
         accounts' \subseteq [legacy : 0..LastUser, email : Mailbox],
         at = "save" => importer.users[id] \in Mailbox,
         at \in {"house", "build"} =>
            AccountOf(id)' = {[legacy |-> id, email |-> importer.users[id]]},
         at = "build" => HomesOf(id) = {}
  PROVE  ImportInv'
<1>1. importer \in Importer /\ Progress(importer) /\ ReadsAll(importer) /\ id \in Users
      /\ importer.at # "stopped"
  BY DEF ImportInv, ImportTypeOK, Progress, AmongUsers
<1>2. PICK j : j = [importer EXCEPT !.at = at]
  OBVIOUS
<1>3. /\ j \in Importer /\ j.at = at /\ j.id = id /\ j.skipped = importer.skipped
      /\ SameRun(importer, j)
  BY <1>1, <1>2 DEF Importer, SameRun
<1>4. ASSUME ~j.skipped, NEW u \in Users, u < id
      PROVE  UserWhole(j, u)'
  <2>1. UserWhole(importer, u)
    BY <1>1, <1>3, <1>4 DEF Progress, AmongUsers
  <2>2. u # id
    BY <1>1, <1>4, ImportBounds DEF Users
  <2>3. AccountOf(u)' = AccountOf(u) /\ HomesOf(u)' = HomesOf(u)
    BY <2>2 DEF HomesOf
  <2> QED
    BY <1>3, <2>1, <2>3 DEF UserWhole, SameRun
<1>5. Progress(j)'
  <2>1. HomesOf(id)' = HomesOf(id)
    BY DEF HomesOf
  <2>2. j.users = importer.users
    BY <1>3 DEF SameRun
  <2>3. AmongUsers(j) => \A u \in Users : (~j.skipped /\ u < id) => UserWhole(j, u)'
    BY <1>4
  <2>4. j.no \in 1 .. MaxImports
    BY <1>1, <1>3 DEF Progress, SameRun
  <2> QED
    BY <1>1, <1>3, <2>1, <2>2, <2>3, <2>4 DEF Progress, AmongUsers
<1>6. ReadsAll(j)'
  BY <1>1, <1>3 DEF ReadsAll, SameRun
<1>7. importer' = j
  BY <1>2
<1> QED
  BY <1>3, <1>5, <1>6, <1>7 DEF ImportInv, ImportTypeOK, OneHome, HomesOf

LEMMA LookKeeps ==
  ASSUME ImportInv, LookUser
  PROVE  ImportInv'
<1> DEFINE email == importer.users[importer.id]
           taken == \E a \in accounts : a.email = email /\ a.legacy # importer.id
<1>1. /\ importer \in Importer /\ importer.id \in Users /\ AmongUsers(importer)
      /\ importer.at = "look" /\ UNCHANGED <<mongo, accounts, homes, imported>>
  BY DEF LookUser, ImportInv, ImportTypeOK, Progress, AmongUsers
<1>2. importer' = IF email = Absent THEN After(importer)
                  ELSE IF email = NoMailbox \/ taken THEN After(Skip(importer))
                  ELSE [importer EXCEPT !.at = "save"]
  BY DEF LookUser
<1>3. email \in Mailbox \cup {NoMailbox, Absent}
  BY <1>1 DEF Importer, UserDocs
<1> HIDE DEF taken
<1>4. CASE email = Absent
  <2>1. UserWhole(importer, importer.id) /\ importer' = After(importer)
    BY <1>2, <1>4 DEF UserWhole
  <2>2. SameRun(importer, importer)
    BY DEF SameRun
  <2> QED
    BY <1>1, <2>1, <2>2, NextUser
<1>5. CASE email # Absent /\ (email = NoMailbox \/ taken)
  <2>1. importer' = After(Skip(importer))
    BY <1>2, <1>5
  <2>2. /\ Skip(importer) \in Importer /\ SameRun(importer, Skip(importer))
        /\ Skip(importer).skipped /\ Skip(importer).id = importer.id
    BY <1>1, SkipType
  <2> QED
    BY <1>1, <2>1, <2>2, NextUser
<1>6. CASE email # Absent /\ ~(email = NoMailbox \/ taken)
  <2>1. importer' = [importer EXCEPT !.at = "save"] /\ email \in Mailbox
    BY <1>2, <1>3, <1>6
  <2>2. \A u \in Users : AccountOf(u)' = AccountOf(u)
    BY <1>1 DEF AccountOf
  <2>3. accounts' \subseteq [legacy : 0..LastUser, email : Mailbox]
    BY <1>1 DEF ImportInv, ImportTypeOK
  <2> QED
    BY <1>1, <2>1, <2>2, <2>3, SameUser
<1> QED
  BY <1>4, <1>5, <1>6

\* The script stops: what it did so far counts for nothing.
LEMMA StopKeeps ==
  ASSUME ImportInv, importer' = [importer EXCEPT !.at = "stopped"],
         UNCHANGED <<mongo, accounts, homes, imported>>
  PROVE  ImportInv'
<1>1. importer' \in Importer /\ importer'.at = "stopped"
  BY DEF ImportInv, ImportTypeOK, Importer
<1> QED
  BY <1>1 DEF ImportInv, ImportTypeOK, OneHome, HomesOf, Progress, ReadsAll, AmongUsers

LEMMA SaveKeeps ==
  ASSUME ImportInv, SaveUser
  PROVE  ImportInv'
<1>0. PICK id, email : id = importer.id /\ email = importer.users[id]
  OBVIOUS
<1> DEFINE taken == \E a \in accounts : a.email = email /\ a.legacy # id
           row == [legacy |-> id, email |-> email]
<1>1. /\ id \in Users /\ AmongUsers(importer) /\ email \in Mailbox
      /\ UNCHANGED <<mongo, homes, imported>>
      /\ accounts \subseteq [legacy : 0..LastUser, email : Mailbox]
  BY <1>0 DEF SaveUser, ImportInv, ImportTypeOK, Progress, AmongUsers
<1>2. IF taken THEN importer' = [importer EXCEPT !.at = "stopped"] /\ UNCHANGED accounts
      ELSE /\ accounts' = (accounts \ AccountOf(id)) \cup {row}
           /\ importer' = [importer EXCEPT !.at = "house"]
  BY <1>0 DEF SaveUser
<1> HIDE DEF taken
<1>3. CASE taken
  BY <1>1, <1>2, <1>3, StopKeeps
<1>4. CASE ~taken
  <2>1. accounts' = (accounts \ AccountOf(id)) \cup {row}
    BY <1>2, <1>4
  <2>2. row.legacy = id /\ row \in [legacy : 0..LastUser, email : Mailbox]
    BY <1>1, ImportBounds DEF Users
  <2> HIDE DEF row
  <2>3. AccountOf(id)' = {row}
    <3>1. \A a \in AccountOf(id)' : a = row
      BY <2>1, <2>2 DEF AccountOf
    <3>2. row \in AccountOf(id)'
      BY <2>1, <2>2 DEF AccountOf
    <3> QED
      BY <3>1, <3>2
  <2>4. \A u \in Users \ {id} : AccountOf(u)' = AccountOf(u)
    BY <2>1, <2>2 DEF AccountOf
  <2>5. accounts' \subseteq [legacy : 0..LastUser, email : Mailbox]
    BY <1>1, <2>1, <2>2
  <2>6. importer' = [importer EXCEPT !.at = "house"]
    BY <1>2, <1>4
  <2> QED
    BY <1>0, <1>1, <2>3, <2>4, <2>5, <2>6, SameUser DEF row
<1> QED
  BY <1>3, <1>4

LEMMA HouseKeeps ==
  ASSUME ImportInv, HouseUser
  PROVE  ImportInv'
<1>0. PICK id : id = importer.id
  OBVIOUS
<1>1. /\ AmongUsers(importer) /\ UNCHANGED <<mongo, accounts, homes, imported>>
      /\ AccountOf(importer.id) = {[legacy |-> importer.id, email |-> importer.users[importer.id]]}
      /\ importer \in Importer
  BY DEF HouseUser, ImportInv, ImportTypeOK, Progress, AmongUsers
<1>2. CASE HomesOf(importer.id) # {}
  <2>1. importer' = After(importer)
    BY <1>2 DEF HouseUser
  <2>2. UserWhole(importer, importer.id) /\ SameRun(importer, importer)
    BY <1>1, <1>2 DEF UserWhole, SameRun
  <2> QED
    BY <1>1, <2>1, <2>2, NextUser
<1>3. CASE HomesOf(importer.id) = {}
  <2>1. importer' = [importer EXCEPT !.at = "build"]
    BY <1>3 DEF HouseUser
  <2>2. \A u : AccountOf(u)' = AccountOf(u)
    BY <1>1 DEF AccountOf
  <2>3. accounts' \subseteq [legacy : 0..LastUser, email : Mailbox]
    BY <1>1 DEF ImportInv, ImportTypeOK
  <2> QED
    BY <1>0, <1>1, <1>3, <2>1, <2>2, <2>3, SameUser
<1> QED
  BY <1>2, <1>3

LEMMA BuildKeeps ==
  ASSUME ImportInv, BuildHome
  PROVE  ImportInv'
<1>0. PICK i, id : i = importer /\ id = importer.id
  OBVIOUS
<1> DEFINE home == [of |-> id, no |-> i.no]
           j == After(i)
<1>1. /\ i \in Importer /\ id \in Users /\ id = i.id /\ i.at = "build" /\ HomesOf(id) = {}
      /\ AccountOf(id) = {[legacy |-> id, email |-> i.users[id]]}
      /\ Progress(i) /\ ReadsAll(i) /\ homes \subseteq Homes /\ OneHome
      /\ UNCHANGED <<mongo, accounts, imported>>
  BY <1>0 DEF BuildHome, ImportInv, ImportTypeOK, Progress, AmongUsers
<1>2. homes' = homes \cup {home} /\ importer' = j
  BY <1>0 DEF BuildHome
<1>3. /\ j \in Importer /\ SameRun(i, j) /\ j.skipped = i.skipped
      /\ \/ id < LastUser /\ j.at = "look" /\ j.id = id + 1
         \/ id = LastUser /\ j.at = "owners" /\ j.id = id
  BY <1>1, AfterType
<1>4. LastUser \in Nat /\ id \in 1 .. LastUser
  BY <1>1, ImportBounds DEF Users
<1>5. j.at \in {"look", "owners"} /\ (j.at = "look" => j.id \in Users)
  BY <1>3, <1>4 DEF Users
<1>6. home \in Homes /\ home.of = id
  BY <1>1 DEF Homes, Progress
<1> HIDE DEF j, home
<1>7. HomesOf(id)' = {home} /\ \A u \in Users \ {id} : HomesOf(u)' = HomesOf(u)
  BY <1>1, <1>2, <1>6 DEF HomesOf
<1>8. \A u \in Users : AccountOf(u)' = AccountOf(u)
  BY <1>1 DEF AccountOf
<1>9. ASSUME ~j.skipped, NEW u \in Users, u <= id PROVE UserWhole(j, u)'
  <2>1. CASE u = id
    BY <1>1, <1>3, <1>7, <1>8, <2>1 DEF UserWhole, SameRun
  <2>2. CASE u < id
    <3>1. UserWhole(i, u) /\ u # id
      BY <1>1, <1>3, <1>4, <1>9, <2>2 DEF Progress, AmongUsers, Users
    <3> QED
      BY <1>3, <1>7, <1>8, <3>1 DEF UserWhole, SameRun
  <2> QED
    BY <1>4, <1>9, <2>1, <2>2 DEF Users
<1>10. Progress(j)'
  <2>1. (j.at = "look" /\ ~j.skipped) => \A u \in Users : u < j.id => UserWhole(j, u)'
    BY <1>3, <1>4, <1>9 DEF Users
  <2>2. (j.at = "owners" /\ ~j.skipped) => \A u \in Users : UserWhole(j, u)'
    BY <1>3, <1>4, <1>9 DEF Users
  <2>3. j.no \in 1 .. MaxImports
    BY <1>1, <1>3 DEF Progress, SameRun
  <2> QED
    BY <1>5, <2>1, <2>2, <2>3 DEF Progress, AmongUsers
<1>11. ReadsAll(j)'
  BY <1>1, <1>3, <1>5 DEF ReadsAll, SameRun
<1>12. OneHome'
  BY <1>1, <1>7 DEF OneHome
<1>13. ImportTypeOK'
  BY <1>1, <1>2, <1>3, <1>6 DEF ImportInv, ImportTypeOK
<1> QED
  BY <1>2, <1>10, <1>11, <1>12, <1>13 DEF ImportInv

LEMMA OwnersKeeps ==
  ASSUME ImportInv, ReadOwners
  PROVE  ImportInv'
<1>0. PICK i : i = importer
  OBVIOUS
<1>h. PICK home : home = [u \in Users |-> IF AccountOf(u) # {} /\ HomesOf(u) # {}
                                        THEN CHOOSE h \in HomesOf(u) : \A g \in HomesOf(u) : h.no <= g.no
                                        ELSE Absent]
  OBVIOUS
<1>j. PICK j : j = [i EXCEPT !.at = "tasks", !.id = 1, !.tasks = mongo.tasks, !.home = home]
  OBVIOUS
<1>1. /\ i \in Importer /\ i.at = "owners" /\ Progress(i) /\ ReadsAll(i) /\ OneHome
      /\ homes \subseteq Homes /\ mongo \in Source /\ UNCHANGED <<mongo, accounts, homes, imported>>
  BY <1>0 DEF ReadOwners, ImportInv, ImportTypeOK
<1>2. importer' = j
  BY <1>0, <1>h, <1>j DEF ReadOwners
<1>3. \A u \in Users : home[u] = Absent \/ home[u] \in HomesOf(u)
  <2>0. \A u \in Users : home[u] = IF AccountOf(u) # {} /\ HomesOf(u) # {}
                                     THEN CHOOSE h \in HomesOf(u) : \A g \in HomesOf(u) : h.no <= g.no
                                     ELSE Absent
    BY <1>h
  <2> SUFFICES ASSUME NEW u \in Users, HomesOf(u) # {}
               PROVE  (CHOOSE h \in HomesOf(u) : \A g \in HomesOf(u) : h.no <= g.no) \in HomesOf(u)
    BY <2>0
  <2>1. PICK h \in HomesOf(u) : TRUE
    OBVIOUS
  <2>2. \A g \in HomesOf(u) : g = h /\ h.no \in Int
    BY <1>1 DEF OneHome, HomesOf, Homes
  <2>3. (CHOOSE h0 \in HomesOf(u) : \A g \in HomesOf(u) : h0.no <= g.no) \in HomesOf(u)
    BY <2>1, <2>2
  <2> QED
    BY <2>3
<1>4. home \in [Users -> Homes \cup {Absent}]
  <2>1. \A u \in Users : home[u] \in Homes \cup {Absent}
    BY <1>1, <1>3 DEF HomesOf
  <2> QED
    BY <1>h, <2>1
<1>5. mongo.tasks \in TaskDocs /\ 1 \in 1 .. (LastUser + LastTask + 1) /\ 1 \in Tasks
  BY <1>1, SourceType, ImportBounds DEF Tasks
<1>6. /\ j \in Importer /\ j.at = "tasks" /\ j.id = 1 /\ j.skipped = i.skipped /\ j.no = i.no
      /\ j.quiet = i.quiet /\ j.users = i.users /\ j.tasks = mongo.tasks /\ j.home = home
  BY <1>1, <1>4, <1>5, <1>j DEF Importer
<1>7. \A u \in Users : HomesOf(u)' = HomesOf(u) /\ AccountOf(u)' = AccountOf(u)
  BY <1>1 DEF HomesOf, AccountOf
<1>8. ~j.skipped => \A u \in Users : UserWhole(j, u)'
  BY <1>1, <1>6, <1>7 DEF Progress, UserWhole
<1>9. Progress(j)'
  <2>1. \A t \in Tasks : ~(t < 1)
    BY ImportBounds DEF Tasks
  <2>2. j.no \in 1 .. MaxImports
    BY <1>1, <1>6 DEF Progress
  <2>3. \A u \in Users : j.home[u] # Absent => j.home[u] \in HomesOf(u)'
    BY <1>3, <1>6, <1>7
  <2> QED
    BY <1>5, <1>6, <1>8, <2>1, <2>2, <2>3 DEF Progress, AmongUsers
<1>10. ReadsAll(j)'
  BY <1>1, <1>6 DEF ReadsAll
<1>11. ImportTypeOK' /\ OneHome'
  BY <1>1, <1>2, <1>6, <1>7 DEF ImportInv, ImportTypeOK, OneHome
<1> QED
  BY <1>2, <1>9, <1>10, <1>11 DEF ImportInv

\* The script goes on to the next task, with this one as it should be or skipped.
LEMMA NextTask ==
  ASSUME ImportInv, importer.at = "tasks", UNCHANGED <<mongo, accounts, homes>>,
         NEW i \in Importer, SameRun(importer, i), i.id = importer.id, i.at = "tasks",
         importer.skipped => i.skipped,
         imported' \in [Tasks -> [home : Homes, of : Users, says : 1..2] \cup {Absent}],
         \A t \in Tasks \ {i.id} : imported'[t] = imported[t],
         ~i.skipped => TaskWhole(i, i.id)',
         importer' = AfterTask(i)
  PROVE  ImportInv'
<1>1. i.id \in Tasks /\ Progress(importer) /\ ReadsAll(importer)
  BY DEF ImportInv, Progress
<1> DEFINE j == AfterTask(i)
<1>2. /\ j \in Importer /\ SameRun(i, j) /\ j.skipped = i.skipped
      /\ \/ i.id < LastTask /\ j.at = "tasks" /\ j.id = i.id + 1
         \/ i.id = LastTask /\ j.at = "done" /\ j.id = i.id
  BY <1>1, AfterTaskType
<1> HIDE DEF j
<1>3. importer' = j
  BY DEF j
<1>4. LastTask \in Nat /\ i.id \in 1 .. LastTask
  BY <1>1, ImportBounds DEF Tasks
<1>5. j.at \in {"tasks", "done"} /\ (j.at = "tasks" => j.id \in Tasks)
  BY <1>2, <1>4 DEF Tasks
<1>6. \A u \in Users : HomesOf(u)' = HomesOf(u) /\ AccountOf(u)' = AccountOf(u)
  BY DEF HomesOf, AccountOf
<1>7. \A of : HomesOf(of)' = HomesOf(of)
  BY DEF HomesOf
<1>8. ASSUME ~j.skipped, NEW t \in Tasks, t <= i.id PROVE TaskWhole(j, t)'
  <2>1. CASE t = i.id
    BY <1>2, <1>8, <2>1 DEF TaskWhole, SameRun
  <2>2. CASE t < i.id
    <3>1. TaskWhole(importer, t) /\ t # i.id
      BY <1>1, <1>2, <1>4, <1>8, <2>2 DEF Progress, Tasks
    <3> QED
      BY <1>2, <1>7, <3>1 DEF TaskWhole, SameRun
  <2> QED
    BY <1>4, <1>8, <2>1, <2>2 DEF Tasks
<1>9. Progress(j)'
  <2>1. (j.at = "tasks" /\ ~j.skipped) => \A t \in Tasks : t < j.id => TaskWhole(j, t)'
    BY <1>2, <1>4, <1>8 DEF Tasks
  <2>2. (j.at = "done" /\ ~j.skipped) => \A t \in Tasks : TaskWhole(j, t)'
    BY <1>2, <1>4, <1>8 DEF Tasks
  <2>3. ~j.skipped => \A u \in Users : UserWhole(j, u)'
    BY <1>1, <1>2, <1>6 DEF Progress, UserWhole, SameRun
  <2>4. \A u \in Users : j.home[u] # Absent => j.home[u] \in HomesOf(u)'
    BY <1>1, <1>2, <1>6 DEF Progress, SameRun
  <2>5. j.no \in 1 .. MaxImports
    BY <1>1, <1>2 DEF Progress, SameRun
  <2> QED
    BY <1>5, <2>1, <2>2, <2>3, <2>4, <2>5 DEF Progress, AmongUsers
<1>10. ReadsAll(j)'
  BY <1>1, <1>2, <1>5 DEF ReadsAll, SameRun
<1>11. ImportTypeOK' /\ OneHome'
  BY <1>2, <1>3, <1>6 DEF ImportInv, ImportTypeOK, OneHome
<1> QED
  BY <1>3, <1>9, <1>10, <1>11 DEF ImportInv

LEMMA TaskKeeps ==
  ASSUME ImportInv, SaveTask
  PROVE  ImportInv'
<1>0. PICK i, id, t : i = importer /\ id = importer.id /\ t = importer.tasks[id]
  OBVIOUS
<1>1. /\ i \in Importer /\ id \in Tasks /\ id = i.id /\ i.at = "tasks" /\ t = i.tasks[id]
      /\ Progress(i) /\ UNCHANGED <<mongo, accounts, homes>> /\ homes \subseteq Homes
      /\ imported \in [Tasks -> [home : Homes, of : Users, says : 1..2] \cup {Absent}]
  BY <1>0 DEF SaveTask, ImportInv, ImportTypeOK, Progress
<1>2. t = Absent \/ t \in [of : 0..LastUser, says : 1..2]
  BY <1>1 DEF Importer, TaskDocs
<1> DEFINE row == [home |-> i.home[t.of], of |-> t.of, says |-> t.says]
<1>3. IF t = Absent THEN importer' = AfterTask(i) /\ UNCHANGED imported
      ELSE IF t.of = 0 \/ (t.of \in Users /\ i.home[t.of] = Absent)
           THEN importer' = AfterTask(Skip(i)) /\ UNCHANGED imported
      ELSE /\ imported' = [imported EXCEPT ![id] = row]
           /\ importer' = AfterTask(i)
  BY <1>0 DEF SaveTask
<1> HIDE DEF row
<1>4. SameRun(importer, i)
  BY <1>0 DEF SameRun
<1>5. CASE t = Absent
  <2>1. importer' = AfterTask(i) /\ UNCHANGED imported
    BY <1>3, <1>5
  <2>2. TaskWhole(i, id)'
    BY <1>1, <1>5 DEF TaskWhole
  <2> QED
    BY <1>0, <1>1, <1>4, <2>1, <2>2, NextTask
<1>6. CASE t # Absent /\ (t.of = 0 \/ (t.of \in Users /\ i.home[t.of] = Absent))
  <2>1. importer' = AfterTask(Skip(i)) /\ UNCHANGED imported
    BY <1>3, <1>6
  <2>2. /\ Skip(i) \in Importer /\ SameRun(i, Skip(i)) /\ Skip(i).skipped
        /\ Skip(i).at = i.at /\ Skip(i).id = id
    BY <1>1, SkipType
  <2> QED
    BY <1>0, <1>1, <2>1, <2>2, NextTask
<1>7. CASE t # Absent /\ ~(t.of = 0 \/ (t.of \in Users /\ i.home[t.of] = Absent))
  <2>1. imported' = [imported EXCEPT ![id] = row] /\ importer' = AfterTask(i)
    BY <1>3, <1>7
  <2>2. t.of \in Users /\ t.says \in 1..2 /\ i.home[t.of] \in HomesOf(t.of)
    <3>1. t.of \in 0..LastUser /\ t.of # 0 /\ t.says \in 1..2
      BY <1>2, <1>7
    <3>2. t.of \in Users
      BY <3>1, ImportBounds DEF Users
    <3> QED
      BY <1>1, <1>7, <3>1, <3>2 DEF Progress
  <2>3. row \in [home : Homes, of : Users, says : 1..2]
    BY <1>1, <2>2 DEF row, HomesOf
  <2>4. row # Absent /\ row.of = t.of /\ row.says = t.says /\ row.home \in HomesOf(t.of)
    BY <2>2, <2>3, AbsentIsNoRow DEF row
  <2>5. imported' \in [Tasks -> [home : Homes, of : Users, says : 1..2] \cup {Absent}]
    BY <1>1, <2>1, <2>3
  <2>6. imported'[id] = row /\ \A s \in Tasks \ {id} : imported'[s] = imported[s]
    BY <1>1, <2>1
  <2>7. TaskWhole(i, id)'
    BY <1>1, <2>4, <2>6 DEF TaskWhole, HomesOf
  <2> QED
    BY <1>0, <1>1, <1>4, <2>1, <2>5, <2>6, <2>7, NextTask
<1> QED
  BY <1>5, <1>6, <1>7

LEMMA SignUpKeeps ==
  ASSUME ImportInv, NEW email \in Mailbox, SignUpAnew(email)
  PROVE  ImportInv'
<1>1. accounts' = accounts \cup {[legacy |-> 0, email |-> email]} /\ 0 \notin Users
      /\ UNCHANGED <<mongo, homes, imported, importer>>
  BY ImportBounds DEF SignUpAnew, Users
<1>2. \A u \in Users : AccountOf(u)' = AccountOf(u) /\ HomesOf(u)' = HomesOf(u)
  BY <1>1 DEF AccountOf, HomesOf
<1>3. ImportTypeOK'
  BY <1>1, ImportBounds DEF ImportInv, ImportTypeOK
<1>4. OneHome' /\ ReadsAll(importer)'
  BY <1>1, <1>2 DEF ImportInv, OneHome, ReadsAll
<1>5. \A of : HomesOf(of)' = HomesOf(of)
  BY <1>1 DEF HomesOf
<1>6. Progress(importer)'
  <2>1. \A u \in Users : UserWhole(importer, u) => UserWhole(importer, u)'
    BY <1>1, <1>2 DEF UserWhole
  <2>2. \A t \in Tasks : TaskWhole(importer, t) => TaskWhole(importer, t)'
    BY <1>1, <1>5 DEF TaskWhole
  <2>3. Progress(importer)
    BY DEF ImportInv
  <2> QED
    BY <1>1, <1>2, <2>1, <2>2, <2>3 DEF Progress, AmongUsers
<1> QED
  BY <1>3, <1>4, <1>6 DEF ImportInv

\* The old application changes its data only while it runs.
LEMMA SourceStepKeeps ==
  ASSUME ImportInv, mongo' \in Source, mongo.live, UNCHANGED <<accounts, homes, imported, importer>>
  PROVE  ImportInv'
<1>1. ~(importer.quiet /\ importer.at # "stopped")
  BY DEF ImportInv, ReadsAll
<1> QED
  BY <1>1 DEF ImportInv, ImportTypeOK, OneHome, HomesOf, Progress, AmongUsers, UserWhole, TaskWhole,
     AccountOf, ReadsAll

LEMMA SourceStays ==
  ASSUME ImportInv
  PROVE  /\ \A u \in Users, email \in Mailbox \cup {NoMailbox, Absent} :
              EditUser(u, email) => ImportInv'
         /\ \A t \in Tasks, s \in [of : 0..LastUser, says : 1..2] \cup {Absent} :
              EditSource(t, s) => ImportInv'
         /\ StopOldServer => ImportInv'
<1>1. mongo \in Source
  BY DEF ImportInv, ImportTypeOK
<1>2. mongo.edits < MaxEdits => mongo.edits + 1 \in 0..MaxEdits
  BY <1>1, ImportBounds DEF Source
<1>3. ASSUME NEW u \in Users, NEW email \in Mailbox \cup {NoMailbox, Absent}, EditUser(u, email)
      PROVE  ImportInv'
  <2> DEFINE users == [mongo.users EXCEPT ![u] = email]
  <2>1. users \in UserDocs
    BY <1>1, SourceType
  <2>2. mongo' = [mongo EXCEPT !.users = users, !.edits = mongo.edits + 1]
    BY <1>3 DEF EditUser
  <2> HIDE DEF users
  <2>3. mongo' \in Source
    BY <1>1, <1>2, <1>3, <2>1, <2>2 DEF Source, EditUser
  <2> QED
    BY <1>3, <2>3, SourceStepKeeps DEF EditUser
<1>4. ASSUME NEW t \in Tasks, NEW s \in [of : 0..LastUser, says : 1..2] \cup {Absent},
             EditSource(t, s)
      PROVE  ImportInv'
  <2> DEFINE tasks == [mongo.tasks EXCEPT ![t] = s]
  <2>1. tasks \in TaskDocs
    BY <1>1 DEF Source, TaskDocs
  <2>2. mongo' = [mongo EXCEPT !.tasks = tasks, !.edits = mongo.edits + 1]
    BY <1>4 DEF EditSource
  <2> HIDE DEF tasks
  <2>3. mongo' \in Source
    BY <1>1, <1>2, <1>4, <2>1, <2>2 DEF Source, EditSource
  <2> QED
    BY <1>4, <2>3, SourceStepKeeps DEF EditSource
<1>5. ASSUME StopOldServer PROVE ImportInv'
  <2>1. mongo' \in Source
    BY <1>1, <1>5 DEF StopOldServer, Source
  <2> QED
    BY <1>5, <2>1, SourceStepKeeps DEF StopOldServer
<1> QED
  BY <1>3, <1>4, <1>5

LEMMA StepKeepsImport == ImportInv /\ [ImportNext]_importVars => ImportInv'
<1> SUFFICES ASSUME ImportInv, [ImportNext]_importVars PROVE ImportInv'
  OBVIOUS
<1>1. CASE ScriptStep
  BY <1>1, StartImportKeeps, LookKeeps, SaveKeeps, HouseKeeps, BuildKeeps, OwnersKeeps, TaskKeeps,
     StopKeeps DEF ScriptStep, StopImport
<1>2. CASE UNCHANGED importVars
  BY <1>2 DEF importVars, ImportInv, ImportTypeOK, OneHome, HomesOf, Progress, AmongUsers,
     UserWhole, TaskWhole, AccountOf, ReadsAll
<1> QED
  BY <1>1, <1>2, SignUpKeeps, SourceStays DEF ImportNext

LEMMA WholeImport ==
  ASSUME ImportInv
  PROVE  ImportedWhole
<1> SUFFICES ASSUME importer.at = "done", importer.quiet, ~importer.skipped
             PROVE  /\ \A u \in {v \in Users : mongo.users[v] # Absent} :
                          /\ AccountOf(u) = {[legacy |-> u, email |-> mongo.users[u]]}
                          /\ Cardinality(HomesOf(u)) = 1
                    /\ \A t \in {s \in Tasks : mongo.tasks[s] # Absent} :
                          /\ imported[t] # Absent
                          /\ <<imported[t].of, imported[t].says>>
                                = <<mongo.tasks[t].of, mongo.tasks[t].says>>
                          /\ imported[t].home \in HomesOf(mongo.tasks[t].of)
  BY DEF ImportedWhole
<1>1. importer.users = mongo.users /\ importer.tasks = mongo.tasks
  BY DEF ImportInv, ReadsAll
<1>2. /\ \A u \in Users : UserWhole(importer, u)
      /\ \A t \in Tasks : TaskWhole(importer, t)
  BY DEF ImportInv, Progress
<1>3. ASSUME NEW u \in Users, mongo.users[u] # Absent
      PROVE  /\ AccountOf(u) = {[legacy |-> u, email |-> mongo.users[u]]}
             /\ Cardinality(HomesOf(u)) = 1
  <2>1. AccountOf(u) = {[legacy |-> u, email |-> mongo.users[u]]} /\ HomesOf(u) # {}
    BY <1>1, <1>2, <1>3 DEF UserWhole
  <2>2. PICK h \in HomesOf(u) : TRUE
    BY <2>1
  <2>3. HomesOf(u) = {h}
    BY <2>2 DEF ImportInv, OneHome
  <2>4. Cardinality({h}) = 1
    BY FS_Singleton
  <2> QED
    BY <2>1, <2>3, <2>4
<1>4. ASSUME NEW t \in Tasks, mongo.tasks[t] # Absent
      PROVE  /\ imported[t] # Absent
             /\ <<imported[t].of, imported[t].says>> = <<mongo.tasks[t].of, mongo.tasks[t].says>>
             /\ imported[t].home \in HomesOf(mongo.tasks[t].of)
  BY <1>1, <1>2, <1>4 DEF TaskWhole
<1> QED
  BY <1>3, <1>4

\* For any users, tasks and addresses, any number of killed runs and any sign-ups
\* in between: an import of the stopped source that skips nothing ends whole.
THEOREM ImportsWhole == ImportSpec => []ImportedWhole
<1>1. ImportInv => ImportedWhole
  BY WholeImport
<1> QED
  BY <1>1, InitImport, StepKeepsImport, PTL DEF ImportSpec

-------------------------------------------------------------------------------
(* Support: a closed ticket stays closed *)

\* What a row may do without a request that read it noticing: its closings only
\* grow in number, and it does not become closed without one more.
Onward(row, after) ==
  /\ after \in TicketRow
  /\ after.closes >= row.closes
  /\ after.status = "closed" => row.status = "closed" \/ after.closes > row.closes

\* A request that has read a ticket and is about to write read it while it was
\* not closed: if it is now, it was closed since.
Tracked(call, rows) ==
  /\ (call.op \in {"read", "reply", "resolve", "answer"} \/ call.at \in {"written", "answered"})
        => call.ticket \in Ticket
  /\ call.at = "loaded" =>
        /\ call.op \in {"reply", "resolve", "answer"}
        /\ call.closes <= rows[call.ticket].closes
        /\ rows[call.ticket].status = "closed" => call.closes < rows[call.ticket].closes

\* A thread that waits for an answer is on the screen.
Threaded(call, url) == call.by = "here" /\ call.op \in {"read", "reply", "resolve"} => url # NoTicket

SupportInv ==
  /\ SupportTypeOK
  /\ \A c \in Caller : Tracked(calls[c], tickets) /\ Threaded(calls[c], helpPage.url)
  /\ helpPage.of # NoTicket => helpPage.url # NoTicket

\* A request at rest, and one that was just sent.
LEMMA NewCall ==
  ASSUME NEW op \in {"none", "create", "feedback", "read", "reply", "resolve"}, NEW t \in Ticket \cup {NoTicket},
         NEW by \in {"here", "left", "none"}, NEW rows,
         op \in {"read", "reply", "resolve"} => t \in Ticket
  PROVE  /\ [NoCall EXCEPT !.op = op, !.ticket = t, !.by = by] \in CallState
         /\ Tracked([NoCall EXCEPT !.op = op, !.ticket = t, !.by = by], rows)
<1>1. NoCall \in CallState
  BY SupportAssumption DEF NoCall, CallState
<1>2. PICK call \in CallState : call = [NoCall EXCEPT !.op = op, !.ticket = t, !.by = by]
  BY <1>1 DEF CallState
<1>3. call.op = op /\ call.at = "sent" /\ call.ticket = t
  BY <1>2 DEF NoCall
<1> QED
  BY <1>2, <1>3 DEF Tracked

LEMMA RestingCall ==
  ASSUME NEW rows
  PROVE  NoCall \in CallState /\ Tracked(NoCall, rows)
  BY SupportAssumption DEF NoCall, CallState, Tracked

\* Who waits for a request is no matter.
LEMMA LeavingCalls ==
  ASSUME SupportInv, NEW c \in Caller, NEW by \in {"here", "left", "none"}
  PROVE  /\ [calls[c] EXCEPT !.by = by] \in CallState
         /\ Tracked([calls[c] EXCEPT !.by = by], tickets)
         /\ Leaving \in [Caller -> CallState] /\ Tracked(Leaving[c], tickets)
         /\ Leaving[c].by # "here"
<1> USE DEF SupportInv, SupportTypeOK
<1>1. ASSUME NEW d \in Caller, NEW to \in {"here", "left", "none"}
      PROVE  [calls[d] EXCEPT !.by = to] \in CallState /\ Tracked([calls[d] EXCEPT !.by = to], tickets)
  <2>1. calls[d] \in CallState /\ Tracked(calls[d], tickets)
    OBVIOUS
  <2>2. PICK call \in CallState : call = [calls[d] EXCEPT !.by = to]
    BY <2>1 DEF CallState
  <2>3. /\ call.op = calls[d].op /\ call.at = calls[d].at
        /\ call.ticket = calls[d].ticket /\ call.closes = calls[d].closes
    BY <2>1, <2>2 DEF CallState
  <2> QED
    BY <2>1, <2>2, <2>3 DEF Tracked
<1>2. ASSUME NEW d \in Caller
      PROVE  Leaving[d] \in CallState /\ Tracked(Leaving[d], tickets) /\ Leaving[d].by # "here"
  <2>1. calls[d] \in CallState
    OBVIOUS
  <2> QED
    BY <1>1, <2>1 DEF Leaving, CallState
<1>3. Leaving = [d \in Caller |-> Leaving[d]]
  BY DEF Leaving
<1> QED
  BY <1>1, <1>2, <1>3

\* A step that moves rows onward keeps the requests it does not touch.
LEMMA OnwardKeeps ==
  ASSUME SupportInv, \A t \in Ticket : Onward(tickets[t], tickets'[t]),
         NEW call \in CallState, Tracked(call, tickets)
  PROVE  Tracked(call, tickets')
<1>1. CASE call.at = "loaded"
  <2> DEFINE t == call.ticket
  <2>1. t \in Ticket /\ tickets[t] \in TicketRow /\ Onward(tickets[t], tickets'[t])
    BY <1>1 DEF SupportInv, SupportTypeOK, Tracked
  <2>2. call.closes \in Nat /\ tickets[t].closes \in Nat /\ tickets'[t].closes \in Nat
    BY <2>1, SupportAssumption DEF CallState, TicketRow, Onward
  <2> QED
    BY <1>1, <2>1, <2>2 DEF Tracked, Onward
<1>2. CASE call.at # "loaded"
  BY <1>2 DEF Tracked
<1> QED
  BY <1>1, <1>2

\* The invariant after a step of one request that moves rows onward.
LEMMA OneCallKeeps ==
  ASSUME SupportInv, NEW c \in Caller, NEW call \in CallState,
         calls' = [calls EXCEPT ![c] = call], Tracked(call, tickets'),
         tickets' \in [Ticket -> TicketRow],
         \A t \in Ticket : Onward(tickets[t], tickets'[t]),
         helpPage' \in Screen, helpPage'.of # NoTicket => helpPage'.url # NoTicket,
         helpPage'.url \in {helpPage.url} \cup Ticket, Threaded(call, helpPage'.url)
  PROVE  SupportInv'
<1> USE DEF SupportInv, SupportTypeOK
<1>1. calls' \in [Caller -> CallState]
  OBVIOUS
<1>2. ASSUME NEW d \in Caller PROVE Tracked(calls'[d], tickets')
  BY OnwardKeeps
<1>3. ASSUME NEW d \in Caller PROVE Threaded(calls'[d], helpPage'.url)
  BY SupportAssumption DEF Threaded
<1> QED
  BY <1>1, <1>2, <1>3

\* Rows that do not change move onward.
LEMMA SameRows ==
  ASSUME SupportInv, tickets' = tickets
  PROVE  tickets' \in [Ticket -> TicketRow] /\ \A t \in Ticket : Onward(tickets[t], tickets'[t])
<1>1. \A t \in Ticket : tickets[t] \in TicketRow /\ tickets[t].closes \in Nat
  BY SupportAssumption DEF SupportInv, SupportTypeOK, TicketRow
<1> QED
  BY <1>1 DEF SupportInv, SupportTypeOK, Onward

\* A row that becomes another status, its closings counted, moves onward.
LEMMA BecomingOnward ==
  ASSUME NEW row \in TicketRow, NEW status \in TicketStatus, CountsClose(row, status) <= MaxCloses
  PROVE  /\ Becoming(row, status) \in TicketRow /\ Onward(row, Becoming(row, status))
         /\ Becoming(row, status).words = row.words
         /\ row.words < MaxWords =>
              LET more == [Becoming(row, status) EXCEPT !.words = @ + 1] IN Onward(row, more)
<1> USE SupportAssumption DEF TicketRow
<1>1. row.closes \in Nat /\ row.words \in Nat /\ row.closes <= MaxCloses
  OBVIOUS
<1>2. CountsClose(row, status) \in 0 .. MaxCloses /\ CountsClose(row, status) >= row.closes
  BY <1>1 DEF CountsClose
<1>3. status = "closed" => row.status = "closed" \/ CountsClose(row, status) > row.closes
  BY <1>1 DEF CountsClose
<1>4. PICK k \in 0 .. MaxCloses : k = CountsClose(row, status)
  BY <1>2
<1>5. Becoming(row, status) = [row EXCEPT !.status = status, !.closes = k]
  BY <1>4 DEF Becoming
<1>6. [row EXCEPT !.status = status, !.closes = k] \in TicketRow
  BY DEF TicketStatus
<1>7. ASSUME row.words < MaxWords
      PROVE  [Becoming(row, status) EXCEPT !.words = @ + 1]
                = [row EXCEPT !.status = status, !.closes = k, !.words = row.words + 1]
  BY <1>5
<1>8. ASSUME row.words < MaxWords
      PROVE  [row EXCEPT !.status = status, !.closes = k, !.words = row.words + 1] \in TicketRow
  <2>1. PICK w \in 0 .. MaxWords : w = row.words + 1
    BY <1>1, <1>8
  <2>2. [row EXCEPT !.status = status, !.closes = k, !.words = w] \in TicketRow
    BY DEF TicketStatus
  <2> QED
    BY <2>1, <2>2
<1> QED
  BY <1>2, <1>3, <1>4, <1>5, <1>6, <1>7, <1>8 DEF Onward

\* What the tab shows when it goes to a ticket.
LEMMA ShownScreen ==
  ASSUME SupportInv, NEW t \in Ticket
  PROVE  Shown(t) \in Screen /\ Shown(t).url = t /\ t # NoTicket
  BY SupportAssumption DEF SupportInv, SupportTypeOK, Shown, Screen, Blank

\* The tab goes to a ticket and asks for it.
LEMMA GoesToTicket ==
  ASSUME SupportInv, NEW c \in Caller, NEW t \in Ticket, tickets' = tickets, helpPage' = Shown(t),
         calls' = [(IF helpPage.url = NoTicket THEN Leaving ELSE calls)
                      EXCEPT ![c] = [NoCall EXCEPT !.op = "read", !.ticket = t, !.by = "here"]]
  PROVE  SupportInv'
<1>1. PICK new \in CallState :
        new = [NoCall EXCEPT !.op = "read", !.ticket = t, !.by = "here"] /\ Tracked(new, tickets')
  BY NewCall
<1>2. helpPage' \in Screen /\ helpPage'.url = t /\ t # NoTicket
  BY ShownScreen
<1>3. CASE helpPage.url = NoTicket
  <2>1. Leaving \in [Caller -> CallState] /\ \A d \in Caller : Tracked(Leaving[d], tickets)
    BY LeavingCalls
  <2>2. calls' = [Leaving EXCEPT ![c] = new]
    BY <1>1, <1>3
  <2>3. calls' \in [Caller -> CallState] /\ \A d \in Caller : Tracked(calls'[d], tickets')
    BY <1>1, <2>1, <2>2
  <2> QED
    BY <1>2, <2>3 DEF SupportInv, SupportTypeOK, Threaded
<1>4. CASE helpPage.url # NoTicket
  <2>1. calls' = [calls EXCEPT ![c] = new]
    BY <1>1, <1>4
  <2> QED
    BY <1>1, <1>2, <2>1, SameRows, ShownScreen, OneCallKeeps DEF Threaded
<1> QED
  BY <1>3, <1>4

\* The tab's own steps that ask nothing, and those that ask.
LEMMA TabKeeps ==
  ASSUME SupportInv, WriteTicket \/ WriteFeedback \/ WriteReply \/ ShowList
  PROVE  SupportInv'
<1> USE DEF SupportInv, SupportTypeOK
<1>1. CASE WriteTicket \/ WriteFeedback \/ WriteReply
  BY <1>1 DEF WriteTicket, WriteFeedback, WriteReply, Screen, Threaded
<1>2. CASE ShowList
  <2>1. helpPage' \in Screen /\ helpPage'.of = NoTicket
    BY <1>2 DEF ShowList, Blank, Screen
  <2>2. calls' = Leaving /\ tickets' = tickets
    BY <1>2 DEF ShowList
  <2>3. ASSUME NEW c \in Caller
        PROVE  Leaving \in [Caller -> CallState] /\ Tracked(Leaving[c], tickets) /\ Leaving[c].by # "here"
    BY LeavingCalls
  <2>4. \A c \in Caller : Tracked(calls'[c], tickets') /\ Threaded(calls'[c], helpPage'.url)
    BY <2>2, <2>3 DEF Threaded
  <2>5. CASE Caller = {}
    BY <2>1, <2>2, <2>5 DEF Leaving
  <2>6. CASE Caller # {}
    BY <2>1, <2>2, <2>3, <2>4, <2>6
  <2> QED
    BY <2>5, <2>6
<1> QED
  BY <1>1, <1>2

LEMMA AskingKeeps ==
  ASSUME SupportInv, NEW c \in Caller,
         OpenRequest(c) \/ SendFeedback(c) \/ SendReply(c) \/ MarkSolved(c)
  PROVE  SupportInv'
<1>1. PICK op \in {"create", "feedback", "reply", "resolve"}, t \in Ticket \cup {NoTicket} :
        /\ Sends(c, op, t) /\ tickets' = tickets /\ helpPage' = helpPage
        /\ op \in {"reply", "resolve"} => t \in Ticket /\ helpPage.url # NoTicket
  <2>1. helpPage.url \in Ticket \cup {NoTicket}
    BY DEF SupportInv, SupportTypeOK, Screen
  <2>2. Replies => helpPage.url \in Ticket /\ helpPage.url # NoTicket
    BY <2>1 DEF Replies, SupportInv
  <2>3. CASE OpenRequest(c)
    BY <2>3 DEF OpenRequest
  <2>4. CASE SendFeedback(c)
    BY <2>4 DEF SendFeedback
  <2>5. CASE SendReply(c)
    BY <2>1, <2>2, <2>5 DEF SendReply
  <2>6. CASE MarkSolved(c)
    BY <2>1, <2>2, <2>6 DEF MarkSolved
  <2> QED
    BY <2>3, <2>4, <2>5, <2>6
<1>2. PICK call \in CallState :
        call = [NoCall EXCEPT !.op = op, !.ticket = t, !.by = "here"] /\ Tracked(call, tickets')
  BY <1>1, NewCall
<1>3. calls' = [calls EXCEPT ![c] = call]
  BY <1>1, <1>2 DEF Sends
<1>4. helpPage' \in Screen /\ (helpPage'.of # NoTicket => helpPage'.url # NoTicket)
  BY <1>1 DEF SupportInv, SupportTypeOK
<1>5. Threaded(call, helpPage'.url)
  <2>1. call.op = op
    BY <1>2 DEF NoCall
  <2> QED
    BY <1>1, <2>1 DEF Threaded
<1> QED
  BY <1>1, <1>2, <1>3, <1>4, <1>5, SameRows, OneCallKeeps

LEMMA AnsweredKeeps ==
  ASSUME SupportInv, NEW c \in Caller, Answered(c)
  PROVE  SupportInv'
<1> DEFINE painted == [helpPage EXCEPT !.of = calls[c].ticket, !.status = calls[c].status]
<1>1. /\ tickets' = tickets /\ calls[c] \in CallState /\ calls[c].ticket \in Ticket
      /\ helpPage \in Screen /\ (helpPage.of # NoTicket => helpPage.url # NoTicket)
  BY DEF Answered, SupportInv, SupportTypeOK, Tracked
<1>2. CASE calls[c].op = "create"
  <2>1. /\ helpPage' = Shown(calls[c].ticket)
        /\ calls' = [(IF helpPage.url = NoTicket THEN Leaving ELSE calls)
                        EXCEPT ![c] = [NoCall EXCEPT !.op = "read", !.ticket = calls[c].ticket, !.by = "here"]]
    BY <1>2 DEF Answered
  <2> QED
    BY <1>1, <2>1, GoesToTicket
<1>3. CASE calls[c].op # "create"
  <2>1. calls' = [calls EXCEPT ![c] = NoCall]
    BY <1>3 DEF Answered
  <2>2. \/ helpPage' = helpPage \/ helpPage' = [helpPage EXCEPT !.feedback = FALSE]
        \/ helpPage.url # NoTicket /\ (helpPage' = painted \/ helpPage' = [painted EXCEPT !.reply = FALSE])
    BY <1>3 DEF Answered, SupportInv, Threaded
  <2>3. painted \in Screen /\ painted.url = helpPage.url
    BY <1>1 DEF Screen, CallState
  <2>4. /\ helpPage' \in Screen /\ helpPage'.url = helpPage.url
        /\ helpPage'.of # NoTicket => helpPage'.url # NoTicket
    <3> HIDE DEF painted
    <3> QED
      BY <1>1, <2>2, <2>3 DEF Screen
  <2>5. NoCall \in CallState /\ Tracked(NoCall, tickets') /\ Threaded(NoCall, helpPage'.url)
    BY RestingCall DEF NoCall, Threaded
  <2> QED
    BY <1>1, <2>1, <2>4, <2>5, SameRows, OneCallKeeps
<1> QED
  BY <1>2, <1>3

\* A request that fails, and one that ends.
LEMMA CallEndKeeps ==
  ASSUME SupportInv, NEW c \in Caller, CallFails(c) \/ EndCall(c)
  PROVE  SupportInv'
<1>1. tickets' = tickets /\ helpPage \in Screen
  BY DEF CallFails, EndCall, SupportInv, SupportTypeOK
<1>2. CASE CallFails(c)
  <2>1. PICK call \in CallState : call = [calls[c] EXCEPT !.by = "none"] /\ Tracked(call, tickets)
    BY LeavingCalls
  <2>2. calls[c] \in CallState
    BY DEF SupportInv, SupportTypeOK
  <2>3. call.by = "none"
    BY <2>1, <2>2 DEF CallState
  <2>4. helpPage' = helpPage \/ helpPage' = [helpPage EXCEPT !.failed = TRUE]
    BY <1>2 DEF CallFails
  <2>5. /\ helpPage' \in Screen /\ helpPage'.url = helpPage.url
        /\ helpPage'.of # NoTicket => helpPage'.url # NoTicket
    BY <1>1, <2>4 DEF Screen, SupportInv
  <2>6. calls' = [calls EXCEPT ![c] = call] /\ Threaded(call, helpPage'.url)
    BY <1>2, <2>1, <2>3 DEF CallFails, Threaded
  <2> QED
    BY <1>1, <2>1, <2>5, <2>6, SameRows, OneCallKeeps
<1>3. CASE EndCall(c)
  <2>1. calls' = [calls EXCEPT ![c] = NoCall] /\ helpPage' = helpPage
    BY <1>3 DEF EndCall
  <2>2. NoCall \in CallState /\ Tracked(NoCall, tickets') /\ Threaded(NoCall, helpPage'.url)
    BY RestingCall DEF NoCall, Threaded
  <2> QED
    BY <1>1, <2>1, <2>2, SameRows, OneCallKeeps DEF SupportInv
<1> QED
  BY <1>2, <1>3

\* A row stays as it is, or goes to another status with as many closings.
LEMMA RowKeeps ==
  ASSUME NEW row \in TicketRow
  PROVE  /\ Onward(row, row)
         /\ \A status \in TicketStatus \ {"closed"}, words \in 0 .. MaxWords :
               Onward(row, [row EXCEPT !.status = status, !.words = words])
<1>1. row.closes \in Nat
  BY SupportAssumption DEF TicketRow
<1>2. ASSUME NEW status \in TicketStatus \ {"closed"}, NEW words \in 0 .. MaxWords
      PROVE  Onward(row, [row EXCEPT !.status = status, !.words = words])
  <2>1. PICK after \in TicketRow : after = [row EXCEPT !.status = status, !.words = words]
    BY DEF TicketRow
  <2>2. after.status = status /\ after.closes = row.closes
    BY <2>1 DEF TicketRow
  <2> QED
    BY <1>1, <2>1, <2>2 DEF Onward
<1>3. Onward(row, row)
  BY <1>1 DEF Onward
<1> QED
  BY <1>2, <1>3

\* A request reads its ticket.
LEMMA TicketLoadKeeps ==
  ASSUME SupportInv, NEW c \in Caller,
         LoadOwnTicket(c) \/ (\E t \in Ticket : LoadToReply(c, t)) \/ LoadWithMessages(c)
  PROVE  SupportInv'
<1>1. /\ tickets' = tickets /\ helpPage' = helpPage /\ calls[c] \in CallState
      /\ Tracked(calls[c], tickets) /\ Threaded(calls[c], helpPage.url)
      /\ \A t \in Ticket : tickets[t] \in TicketRow
  BY DEF LoadOwnTicket, LoadToReply, LoadWithMessages, SupportInv, SupportTypeOK
<1>6. \A t \in Ticket : tickets[t].closes \in Nat
  BY <1>1, SupportAssumption DEF TicketRow
<1>2. ASSUME NEW call \in CallState, calls' = [calls EXCEPT ![c] = call],
             Tracked(call, tickets), Threaded(call, helpPage.url)
      PROVE  SupportInv'
  BY <1>1, <1>2, SameRows, OneCallKeeps DEF SupportInv, SupportTypeOK
<1>3. CASE LoadOwnTicket(c)
  <2> DEFINE t == calls[c].ticket
  <2>1. t \in Ticket /\ tickets[t] \in TicketRow
    BY <1>1, <1>3 DEF LoadOwnTicket, Tracked
  <2>2. CASE calls' = [calls EXCEPT ![c].at = "written"]
    <3>1. PICK call \in CallState : call = [calls[c] EXCEPT !.at = "written"]
      BY <1>1 DEF CallState
    <3>2. calls' = [calls EXCEPT ![c] = call]
      BY <2>2, <3>1
    <3>3. call.at = "written" /\ call.ticket = t /\ call.op = calls[c].op /\ call.by = calls[c].by
      BY <1>1, <3>1 DEF CallState
    <3>4. Tracked(call, tickets) /\ Threaded(call, helpPage.url)
      BY <1>1, <2>1, <3>3 DEF Tracked, Threaded
    <3> QED
      BY <1>2, <3>2, <3>4
  <2>3. CASE calls' = [calls EXCEPT ![c].at = "loaded", ![c].closes = tickets[t].closes]
             /\ calls[c].op \in {"reply", "resolve"} /\ tickets[t].status # "closed"
    <3>1. tickets[t].closes \in 0 .. MaxCloses
      BY <2>1 DEF TicketRow
    <3>2. PICK k \in 0 .. MaxCloses : k = tickets[t].closes
      BY <3>1
    <3>3. PICK call \in CallState : call = [calls[c] EXCEPT !.at = "loaded", !.closes = k]
      BY <1>1 DEF CallState
    <3>4. calls' = [calls EXCEPT ![c] = call]
      BY <2>3, <3>2, <3>3
    <3>5. /\ call.at = "loaded" /\ call.ticket = t /\ call.op = calls[c].op /\ call.by = calls[c].by
          /\ call.closes = tickets[t].closes
      BY <1>1, <3>2, <3>3 DEF CallState
    <3>6. Tracked(call, tickets) /\ Threaded(call, helpPage.url)
      BY <1>1, <1>6, <2>1, <2>3, <3>5 DEF Tracked, Threaded
    <3> QED
      BY <1>2, <3>4, <3>6
  <2> QED
    BY <1>3, <2>2, <2>3 DEF LoadOwnTicket
<1>4. ASSUME NEW t \in Ticket, LoadToReply(c, t) PROVE SupportInv'
  <2>1. PICK k \in 0 .. MaxCloses : k = tickets[t].closes
    BY <1>1 DEF TicketRow
  <2>2. NoCall \in CallState
    BY RestingCall
  <2>3. PICK call \in CallState :
          call = [NoCall EXCEPT !.op = "answer", !.at = "loaded", !.ticket = t, !.closes = k]
    BY <2>2 DEF CallState
  <2>4. calls' = [calls EXCEPT ![c] = call] /\ tickets[t].status # "closed"
    BY <1>4, <2>1, <2>3 DEF LoadToReply
  <2>5. call.at = "loaded" /\ call.ticket = t /\ call.op = "answer" /\ call.closes = k
    BY <2>2, <2>3 DEF CallState
  <2>6. Tracked(call, tickets) /\ Threaded(call, helpPage.url)
    BY <1>1, <1>6, <2>1, <2>4, <2>5 DEF Tracked, Threaded
  <2> QED
    BY <1>2, <2>4, <2>6
<1>5. CASE LoadWithMessages(c)
  <2> DEFINE t == calls[c].ticket
  <2>1. t \in Ticket /\ tickets[t].status \in {"none"} \cup TicketStatus
    BY <1>1, <1>5 DEF LoadWithMessages, Tracked, TicketRow
  <2>2. PICK status \in {"none"} \cup TicketStatus : status = tickets[t].status
    BY <2>1
  <2>3. PICK call \in CallState : call = [calls[c] EXCEPT !.at = "answered", !.status = status]
    BY <1>1 DEF CallState
  <2>4. calls' = [calls EXCEPT ![c] = call]
    BY <1>5, <2>2, <2>3 DEF LoadWithMessages
  <2>5. call.at = "answered" /\ call.ticket = t /\ call.op = calls[c].op /\ call.by = calls[c].by
    BY <1>1, <2>3 DEF CallState
  <2>6. Tracked(call, tickets) /\ Threaded(call, helpPage.url)
    BY <1>1, <2>1, <2>5 DEF Tracked, Threaded
  <2> QED
    BY <1>2, <2>4, <2>6
<1> QED
  BY <1>3, <1>4, <1>5

\* A request writes its ticket.
LEMMA TicketWriteKeeps ==
  ASSUME SupportInv, NEW c \in Caller,
         \/ \E t \in Ticket : CreateTicket(c, t)
         \/ ReplyToMyTicket(c) \/ ResolveMyTicket(c)
         \/ \E status \in TicketStatus : ReplyToTicket(c, status)
  PROVE  SupportInv'
<1>1. /\ helpPage' = helpPage /\ calls[c] \in CallState
      /\ Tracked(calls[c], tickets) /\ Threaded(calls[c], helpPage.url)
      /\ tickets \in [Ticket -> TicketRow]
      /\ \A t \in Ticket : tickets[t] \in TicketRow
  BY DEF CreateTicket, ReplyToMyTicket, ResolveMyTicket, ReplyToTicket, SupportInv, SupportTypeOK
<1>6. \A t \in Ticket : tickets[t].words \in Nat
  BY <1>1, SupportAssumption DEF TicketRow
<1>2. ASSUME NEW call \in CallState, calls' = [calls EXCEPT ![c] = call],
             Tracked(call, tickets'), Threaded(call, helpPage.url),
             NEW t \in Ticket, NEW row, tickets' = [tickets EXCEPT ![t] = row], Onward(tickets[t], row)
      PROVE  SupportInv'
  <2>1. \A u \in Ticket : Onward(tickets[u], tickets'[u])
    BY <1>1, <1>2, RowKeeps
  <2>2. tickets' \in [Ticket -> TicketRow]
    BY <1>1, <1>2 DEF Onward
  <2>3. helpPage' \in Screen /\ (helpPage'.of # NoTicket => helpPage'.url # NoTicket)
    BY <1>1 DEF SupportInv, SupportTypeOK
  <2> QED
    BY <1>1, <1>2, <2>1, <2>2, <2>3, OneCallKeeps
<1>3. ASSUME NEW t \in Ticket, CreateTicket(c, t) PROVE SupportInv'
  <2>1. tickets' = [tickets EXCEPT ![t] = [tickets[t] EXCEPT !.status = "open", !.words = 1]]
    BY <1>1, <1>3 DEF CreateTicket
  <2>2. Onward(tickets[t], [tickets[t] EXCEPT !.status = "open", !.words = 1])
    <3>1. "open" \in TicketStatus \ {"closed"} /\ 1 \in 0 .. MaxWords
      BY SupportAssumption DEF TicketStatus
    <3> QED
      BY <1>1, <3>1, RowKeeps
  <2>3. PICK call \in CallState : call = [calls[c] EXCEPT !.at = "written", !.ticket = t]
    BY <1>1 DEF CallState
  <2>4. calls' = [calls EXCEPT ![c] = call]
    BY <1>3, <2>3 DEF CreateTicket
  <2>5. call.at = "written" /\ call.ticket = t /\ call.op = calls[c].op /\ call.by = calls[c].by
    BY <1>1, <2>3 DEF CallState
  <2>6. Tracked(call, tickets') /\ Threaded(call, helpPage.url)
    BY <1>1, <2>5 DEF Tracked, Threaded
  <2> QED
    BY <1>2, <2>1, <2>2, <2>4, <2>6
<1>4. CASE ReplyToMyTicket(c) \/ ResolveMyTicket(c)
  <2> DEFINE t == calls[c].ticket
  <2>1. t \in Ticket
    BY <1>1, <1>4 DEF ReplyToMyTicket, ResolveMyTicket, Tracked
  <2>2. PICK status \in TicketStatus \ {"closed"}, words \in 0 .. MaxWords :
          tickets' = [tickets EXCEPT ![t] = [tickets[t] EXCEPT !.status = status, !.words = words]]
    <3>1. CASE ReplyToMyTicket(c)
      <4>1. tickets[t].words + 1 \in 0 .. MaxWords
        BY <1>1, <1>6, <2>1, <3>1, SupportAssumption DEF ReplyToMyTicket
      <4>2. tickets' = [tickets EXCEPT ![t] = [tickets[t] EXCEPT !.status = "open", !.words = tickets[t].words + 1]]
        BY <1>1, <2>1, <3>1 DEF ReplyToMyTicket
      <4> QED
        BY <4>1, <4>2 DEF TicketStatus
    <3>2. CASE ResolveMyTicket(c)
      <4>1. tickets[t].words \in 0 .. MaxWords
        BY <1>1, <2>1 DEF TicketRow
      <4>2. [tickets[t] EXCEPT !.status = "resolved", !.words = tickets[t].words]
              = [tickets[t] EXCEPT !.status = "resolved"]
        BY <1>1, <2>1 DEF TicketRow
      <4>3. tickets' = [tickets EXCEPT ![t] = [tickets[t] EXCEPT !.status = "resolved", !.words = tickets[t].words]]
        BY <1>1, <2>1, <3>2, <4>2 DEF ResolveMyTicket
      <4> QED
        BY <4>1, <4>3 DEF TicketStatus
    <3> QED
      BY <1>4, <3>1, <3>2
  <2>3. Onward(tickets[t], [tickets[t] EXCEPT !.status = status, !.words = words])
    BY <1>1, <2>1, RowKeeps
  <2>4. PICK call \in CallState : call = [calls[c] EXCEPT !.at = "written", !.closes = 0]
    <3>1. 0 \in 0 .. MaxCloses
      BY SupportAssumption
    <3> QED
      BY <1>1, <3>1 DEF CallState
  <2>5. calls' = [calls EXCEPT ![c] = call]
    BY <1>4, <2>4 DEF ReplyToMyTicket, ResolveMyTicket
  <2>6. call.at = "written" /\ call.ticket = t /\ call.op = calls[c].op /\ call.by = calls[c].by
    BY <1>1, <2>4 DEF CallState
  <2>7. Tracked(call, tickets') /\ Threaded(call, helpPage.url)
    BY <1>1, <2>1, <2>6 DEF Tracked, Threaded
  <2> QED
    BY <1>2, <2>1, <2>2, <2>3, <2>5, <2>7
<1>5. ASSUME NEW status \in TicketStatus, ReplyToTicket(c, status) PROVE SupportInv'
  <2> DEFINE t == calls[c].ticket
             row == [Becoming(tickets[t], status) EXCEPT !.words = @ + 1]
  <2>1. t \in Ticket
    BY <1>1, <1>5 DEF ReplyToTicket, Tracked
  <2>2. tickets' = [tickets EXCEPT ![t] = row] /\ calls' = [calls EXCEPT ![c] = NoCall]
    BY <1>5 DEF ReplyToTicket
  <2>3. Onward(tickets[t], row)
    BY <1>1, <1>5, <2>1, BecomingOnward DEF ReplyToTicket
  <2>4. NoCall \in CallState /\ Tracked(NoCall, tickets') /\ Threaded(NoCall, helpPage.url)
    BY RestingCall DEF NoCall, Threaded
  <2> HIDE DEF row
  <2> QED
    BY <1>2, <2>1, <2>2, <2>3, <2>4
<1> QED
  BY <1>3, <1>4, <1>5

\* An operator changes a status.
LEMMA UpdateKeeps ==
  ASSUME SupportInv, NEW t \in Ticket, NEW status \in TicketStatus, UpdateTicketStatus(t, status)
  PROVE  SupportInv'
<1>1. /\ calls' = calls /\ helpPage' = helpPage /\ tickets \in [Ticket -> TicketRow]
      /\ tickets' = [tickets EXCEPT ![t] = Becoming(tickets[t], status)]
  BY DEF UpdateTicketStatus, SupportInv, SupportTypeOK
<1>2. Onward(tickets[t], Becoming(tickets[t], status))
  BY <1>1, BecomingOnward DEF UpdateTicketStatus
<1>3. \A u \in Ticket : Onward(tickets[u], tickets'[u])
  BY <1>1, <1>2, RowKeeps
<1>4. tickets' \in [Ticket -> TicketRow]
  BY <1>1, <1>2 DEF Onward
<1>5. ASSUME NEW c \in Caller PROVE Tracked(calls[c], tickets')
  BY <1>3, OnwardKeeps DEF SupportInv, SupportTypeOK
<1> QED
  BY <1>1, <1>4, <1>5 DEF SupportInv, SupportTypeOK

LEMMA InitSupport == SupportInit => SupportInv
<1> SUFFICES ASSUME SupportInit PROVE SupportInv
  OBVIOUS
<1>1. SupportTypeOK
  BY SupportAssumption DEF SupportInit, SupportTypeOK, TicketRow, NoCall, CallState, Blank, Screen
<1>2. ASSUME NEW c \in Caller PROVE Tracked(calls[c], tickets) /\ Threaded(calls[c], helpPage.url)
  BY RestingCall DEF SupportInit, NoCall, Threaded
<1> QED
  BY <1>1, <1>2 DEF SupportInv, SupportInit, Blank

LEMMA StepKeepsSupport == SupportInv /\ [SupportNext]_supportVars => SupportInv'
<1> SUFFICES ASSUME SupportInv, [SupportNext]_supportVars PROVE SupportInv'
  OBVIOUS
<1>1. CASE WriteTicket \/ WriteFeedback \/ WriteReply \/ ShowList
  BY <1>1, TabKeeps
<1>2. ASSUME NEW c \in Caller, TicketPage(c) PROVE SupportInv'
  <2>1. ASSUME NEW t \in Ticket, ShowTicket(c, t) PROVE SupportInv'
    BY <2>1, GoesToTicket DEF ShowTicket
  <2> QED
    BY <1>2, <2>1, AskingKeeps, AnsweredKeeps, CallEndKeeps DEF TicketPage
<1>3. ASSUME NEW c \in Caller, TicketService(c) PROVE SupportInv'
  BY <1>3, TicketLoadKeeps, TicketWriteKeeps, CallEndKeeps DEF TicketService
<1>4. ASSUME NEW t \in Ticket, NEW status \in TicketStatus, UpdateTicketStatus(t, status) PROVE SupportInv'
  BY <1>4, UpdateKeeps
<1>5. CASE UNCHANGED supportVars
  BY <1>5 DEF supportVars, SupportInv, SupportTypeOK
<1> QED
  BY <1>1, <1>2, <1>3, <1>4, <1>5 DEF SupportNext

\* A step of a request that wrote a closed ticket had read it before.
LEMMA ClosedStep ==
  ASSUME SupportInv, SupportNext, NEW t \in Ticket, tickets[t].status = "closed", tickets'[t] # tickets[t]
  PROVE  \/ tickets'[t].words = tickets[t].words /\ UNCHANGED calls
         \/ \E c \in Caller : ClosedBefore(c, t) /\ calls'[c] # calls[c]
<1>1. /\ tickets \in [Ticket -> TicketRow] /\ calls \in [Caller -> CallState]
      /\ \A c \in Caller : calls[c] \in CallState /\ Tracked(calls[c], tickets)
  BY DEF SupportInv, SupportTypeOK
<1>2. ASSUME NEW c \in Caller, calls[c].at = "loaded", tickets' # tickets,
             calls'[c].at # "loaded",
             \A u \in Ticket \ {calls[c].ticket} : tickets'[u] = tickets[u]
      PROVE  ClosedBefore(c, t) /\ calls'[c] # calls[c]
  BY <1>1, <1>2 DEF ClosedBefore, Tracked
<1>3. ASSUME NEW c \in Caller, ReplyToMyTicket(c) \/ ResolveMyTicket(c)
      PROVE  ClosedBefore(c, t) /\ calls'[c] # calls[c]
  <2>1. calls'[c].at = "written" /\ calls[c].at = "loaded"
    BY <1>1, <1>3 DEF ReplyToMyTicket, ResolveMyTicket, CallState
  <2>2. \A u \in Ticket \ {calls[c].ticket} : tickets'[u] = tickets[u]
    BY <1>1, <1>3 DEF ReplyToMyTicket, ResolveMyTicket
  <2> QED
    BY <1>2, <2>1, <2>2
<1>4. ASSUME NEW c \in Caller, NEW status \in TicketStatus, ReplyToTicket(c, status)
      PROVE  ClosedBefore(c, t) /\ calls'[c] # calls[c]
  <2>1. calls'[c].at = "sent" /\ calls[c].at = "loaded"
    BY <1>1, <1>4 DEF ReplyToTicket, NoCall
  <2>2. \A u \in Ticket \ {calls[c].ticket} : tickets'[u] = tickets[u]
    BY <1>1, <1>4 DEF ReplyToTicket
  <2> QED
    BY <1>2, <2>1, <2>2
<1>5. ASSUME NEW c \in Caller, NEW u \in Ticket, CreateTicket(c, u) PROVE FALSE
  BY <1>1, <1>5 DEF CreateTicket
<1>6. ASSUME NEW u \in Ticket, NEW status \in TicketStatus, UpdateTicketStatus(u, status)
      PROVE  tickets'[t].words = tickets[t].words /\ UNCHANGED calls
  <2>1. tickets' = [tickets EXCEPT ![u] = Becoming(tickets[u], status)] /\ calls' = calls
        /\ CountsClose(tickets[u], status) <= MaxCloses
    BY <1>6 DEF UpdateTicketStatus
  <2>2. Becoming(tickets[u], status).words = tickets[u].words
    BY <1>1, <2>1, BecomingOnward
  <2> QED
    BY <1>1, <2>1, <2>2
<1>7. ASSUME NEW c \in Caller, TicketPage(c) PROVE FALSE
  BY <1>7 DEF TicketPage, OpenRequest, SendFeedback, SendReply, MarkSolved, Answered, CallFails, ShowTicket
<1>8. ASSUME NEW c \in Caller,
             LoadOwnTicket(c) \/ LoadWithMessages(c) \/ EndCall(c) \/ \E u \in Ticket : LoadToReply(c, u)
      PROVE  FALSE
  BY <1>8 DEF LoadOwnTicket, LoadWithMessages, EndCall, LoadToReply
<1>9. CASE WriteTicket \/ WriteFeedback \/ WriteReply \/ ShowList
  BY <1>9 DEF WriteTicket, WriteFeedback, WriteReply, ShowList
<1>10. ASSUME NEW c \in Caller, TicketService(c)
       PROVE  ClosedBefore(c, t) /\ calls'[c] # calls[c]
  BY <1>3, <1>4, <1>5, <1>8, <1>10 DEF TicketService
<1> QED
  BY <1>6, <1>7, <1>9, <1>10 DEF SupportNext

\* For any number of tickets and requests: a closed ticket takes a message or
\* leaves that status only by an operator's change of its status, or by a
\* request that read it before it was last closed.
THEOREM ClosedStays == SupportSpec => StaysClosed
<1>1. SupportInv /\ [SupportNext]_supportVars =>
        [\A t \in Ticket : tickets[t].status = "closed" =>
          \/ tickets'[t] = tickets[t]
          \/ tickets'[t].words = tickets[t].words /\ UNCHANGED calls
          \/ \E c \in Caller : ClosedBefore(c, t) /\ calls'[c] # calls[c]]_supportVars
  BY ClosedStep
<1> QED
  BY <1>1, InitSupport, StepKeepsSupport, PTL DEF SupportSpec, StaysClosed
===============================================================================
