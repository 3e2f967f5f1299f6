----------------------------- MODULE SessionProofs -----------------------------
(***************************************************************************)
(* Proofs about Session, for any number of browsers, pages and sessions,   *)
(* password changes, rotations and lost answers, and about Registration,   *)
(* for any number of handlers, links and accounts.                         *)
(***************************************************************************)
EXTENDS Session, Registration, Integers, TLAPS

-------------------------------------------------------------------------------
(* What every step keeps *)

\* What a page that waits for an answer remembers is what the answer is made of.
Made(p) ==
    /\ p.pc \in {"checked", "cleared"} => p.op = "login"
    /\ p.pc \in {"asked", "denied", "presented", "unmatched", "found"} => p.op # "login"
    /\ p.pc = "found" => p.sent.refresh \in Secret
    /\ (p.pc = "answered" /\ p.sets \in {"both", "access"}) =>
         IF p.op = "login" THEN p.own \in SessionId ELSE p.sent.refresh \in Secret
    /\ (p.pc = "answered" /\ p.sets = "both" /\ p.op # "login") => p.sent.refresh.gen < MaxRotation

AnswersMade == \A t \in Tab : Made(page[t])

\* While no handler died, a session that is behind the password is about to be
\* revoked by whoever wrote the present one.
RevokerAtWork ==
    \A s \in SessionId :
      session[s].life = "live" /\ session[s].good < account.password
      => lost > 0 \/ \E t \in Tab : page[t].pc = "changed" /\ page[t].wrote = account.password

SessionInv == SessionTypeOK /\ AnswersMade /\ RevokerAtWork

-------------------------------------------------------------------------------
(* Rows *)

\* Cookies without the refresh secret, without the access token, or without both.
LEMMA CookiesLess ==
  ASSUME NEW cookies \in Cookies
  PROVE  /\ AccessOnly(cookies) \in Cookies
         /\ RefreshOnly(cookies) \in Cookies
         /\ NoCookies \in Cookies
  BY SessionAssumption DEF Cookies, AccessOnly, RefreshOnly, NoCookies, NoSecret, Secret

\* A page that waits for nothing.
LEMMA StillPage ==
  ASSUME NEW shows \in {"app", "login", "loading"}
  PROVE  /\ Still(shows) \in PageState /\ Still(shows).pc = "idle" /\ Still(shows).op = "none"
         /\ Still(shows).wrote = 0
  BY CookiesLess, SessionAssumption DEF Still, PageState, NoCookies, Cookies, NoSecret

PcOf == {"idle", "asked", "denied", "presented", "found", "unmatched", "answered",
         "checked", "cleared", "compared", "changed"}

\* A page that moves on.
LEMMA PcPage ==
  ASSUME NEW p \in PageState, NEW pc \in PcOf
  PROVE  LET q == [p EXCEPT !.pc = pc]
         IN  q \in PageState /\ q.pc = pc /\ q.op = p.op /\ q.sent = p.sent
  BY DEF PageState, PcOf

\* A page that compared the current password.
LEMMA ComparedPage ==
  ASSUME NEW p \in PageState, NEW own \in SessionId \cup {NoSession}
  PROVE  LET q == [p EXCEPT !.pc = "compared", !.op = "change", !.own = own]
         IN  q \in PageState /\ q.pc = "compared"
  BY DEF PageState

\* A session that ends.
LEMMA EndedRow ==
  ASSUME NEW row \in SessionRow
  PROVE  Ended(row) \in SessionRow /\ Ended(row).life # "live" /\ Ended(row).good = row.good
  BY DEF Ended, SessionRow

\* A session that survives the password change it made.
LEMMA SurvivorRow ==
  ASSUME NEW row \in SessionRow, NEW n \in 0 .. MaxPassword
  PROVE  LET q == [row EXCEPT !.good = Later(row.good, n)]
         IN  /\ q \in SessionRow /\ q.life = row.life
             /\ q.good \in 0 .. MaxPassword /\ q.good >= row.good /\ q.good >= n
<1>1. /\ row.good \in 0 .. MaxPassword
  BY DEF SessionRow
<1>2. /\ Later(row.good, n) \in 0 .. MaxPassword
      /\ Later(row.good, n) >= row.good /\ Later(row.good, n) >= n
  BY <1>1, SessionAssumption DEF Later
<1> HIDE DEF Later
<1> QED
  BY <1>2 DEF SessionRow
\* A refresh secret that is somebody's.
LEMMA SomebodysSecret ==
  ASSUME NEW p \in PageState, p.sent.refresh.session # NoSession
  PROVE  p.sent.refresh \in Secret
<1>1. p.sent.refresh \in Secret \cup {NoSecret}
  BY DEF PageState, Cookies
<1> QED
  BY <1>1 DEF NoSecret

-------------------------------------------------------------------------------
(* Steps *)

\* The initial states.
LEMMA InitInv == ASSUME SessionInit PROVE SessionInv
<1>1. NoCookies \in Cookies
  BY SessionAssumption DEF NoCookies, Cookies, NoSecret
<1>2. account \in [password : 0 .. MaxPassword, suspended : BOOLEAN]
  BY SessionAssumption DEF SessionInit
<1>3. [life |-> "unborn", gen |-> 0, fresh |-> FALSE, good |-> 0] \in SessionRow
  BY SessionAssumption DEF SessionRow
<1>4. session \in [SessionId -> SessionRow] /\ \A s \in SessionId : session[s].life # "live"
  BY <1>3 DEF SessionInit
<1>5. page \in [Tab -> PageState] /\ \A t \in Tab : page[t].pc = "idle"
  BY StillPage DEF SessionInit
<1>6. lost \in 0 .. MaxLost
  BY SessionAssumption DEF SessionInit
<1>7. jar \in [Browser -> Cookies]
  BY <1>1 DEF SessionInit
<1>8. SessionTypeOK
  BY <1>2, <1>4, <1>5, <1>6, <1>7 DEF SessionTypeOK
<1> QED
  BY <1>4, <1>5, <1>8 DEF SessionInv, AnswersMade, Made, RevokerAtWork

\* A page that is not about to revoke turns to q, and a session that is live then was
\* live before with the same password, or has the present one.
LEMMA TurnKeeps ==
  ASSUME SessionInv, NEW t \in Tab, NEW q \in PageState, Turn(t, q), Made(q),
         page[t].pc # "changed" \/ lost' > 0,
         session' \in [SessionId -> SessionRow], jar' \in [Browser -> Cookies],
         UNCHANGED account, lost' \in 0 .. MaxLost, lost' >= lost,
         \A s \in SessionId : session'[s].life = "live" =>
           \/ session[s].life = "live" /\ session'[s].good = session[s].good
           \/ session'[s].good = account.password
  PROVE  SessionInv'
<1>0. lost \in 0 .. MaxLost /\ account.password \in 0 .. MaxPassword
  BY DEF SessionInv, SessionTypeOK
<1>1. /\ page' \in [Tab -> PageState] /\ page'[t] = q
      /\ \A u \in Tab : u # t => page'[u] = page[u]
  BY DEF SessionInv, SessionTypeOK, Turn
<1>2. SessionTypeOK'
  BY <1>1 DEF SessionInv, SessionTypeOK
<1>3. AnswersMade'
  <2>1. \A u \in Tab : Made(page'[u])
    BY <1>1 DEF SessionInv, AnswersMade
  <2> QED
    BY <2>1 DEF AnswersMade, Made
<1>4. RevokerAtWork'
  <2> SUFFICES ASSUME NEW s \in SessionId, session'[s].life = "live",
                      session'[s].good < account.password, ~(lost' > 0)
               PROVE  \E u \in Tab : page'[u].pc = "changed" /\ page'[u].wrote = account.password
    BY DEF RevokerAtWork
  <2>1. session[s].life = "live" /\ session[s].good < account.password
    BY <1>0
  <2>2. ~(lost > 0)
    BY <1>0
  <2>3. PICK u \in Tab : page[u].pc = "changed" /\ page[u].wrote = account.password
    BY <2>1, <2>2 DEF SessionInv, RevokerAtWork
  <2> QED
    BY <1>1, <2>3
<1> QED
  BY <1>2, <1>3, <1>4 DEF SessionInv

\* The steps of a page that touch nothing but itself.
PageOnly(t, q) == Turn(t, q) /\ UNCHANGED <<account, session, jar, lost>>

\* They keep the invariant.
LEMMA PageOnlyKeeps ==
  ASSUME SessionInv, NEW t \in Tab, NEW q \in PageState, PageOnly(t, q), Made(q),
         page[t].pc # "changed"
  PROVE  SessionInv'
<1>1. /\ session' \in [SessionId -> SessionRow] /\ jar' \in [Browser -> Cookies]
      /\ lost' \in 0 .. MaxLost /\ lost' >= lost
      /\ session' = session /\ account' = account
  BY DEF SessionInv, SessionTypeOK, PageOnly
<1> QED
  BY <1>1, TurnKeeps DEF PageOnly

\* The steps of a page that reads.
LEMMA ReadingKeeps ==
  ASSUME SessionInv, NEW t \in Tab,
         \/ \E shows \in {"app", "loading"} : Ask(t, shows)
         \/ Protect(t) \/ SendRefresh(t) \/ GiveUp(t)
         \/ page[t].op = "ask" /\ FindCurrent(t)
         \/ GraceLookup(t) \/ Login(t) \/ CheckSuspended(t) \/ Logout(t)
         \/ ComparePassword(t) \/ UseResetLink(t)
  PROVE  SessionInv'
<1>0. page[t] \in PageState /\ Made(page[t]) /\ CookiesOf(t) \in Cookies
  BY DEF SessionInv, SessionTypeOK, AnswersMade, CookiesOf, Tab
<1>a. AccessOnly(CookiesOf(t)) \in Cookies /\ RefreshOnly(CookiesOf(t)) \in Cookies
  BY <1>0, CookiesLess
<1>1. ASSUME NEW shows \in {"app", "loading"}, Ask(t, shows) PROVE SessionInv'
  <2> DEFINE base == Still(shows)
             sent == AccessOnly(CookiesOf(t))
             q    == [base EXCEPT !.pc = "asked", !.op = "ask", !.sent = sent]
  <2>2. PageOnly(t, q) /\ page[t].pc = "idle"
    BY <1>1 DEF Ask, PageOnly
  <2>3. base \in PageState /\ sent \in Cookies
    BY <1>a, StillPage
  <2> HIDE DEF base, sent
  <2>1. q \in PageState /\ q.pc = "asked" /\ q.op = "ask"
    BY <2>3 DEF PageState
  <2> HIDE DEF q
  <2> QED
    BY <2>1, <2>2, PageOnlyKeeps DEF Made
<1>2. CASE Protect(t)
  <2>1. CASE Usable(page[t].sent.access)
    <3>1. PageOnly(t, Still("app")) /\ page[t].pc = "asked"
      BY <1>2, <2>1 DEF Protect, PageOnly
    <3> QED
      BY <3>1, StillPage, PageOnlyKeeps DEF Made
  <2>2. CASE ~Usable(page[t].sent.access)
    <3> DEFINE q == [page[t] EXCEPT !.pc = "denied"]
    <3>1. PageOnly(t, q) /\ page[t].pc = "asked"
      BY <1>2, <2>2 DEF Protect, PageOnly
    <3>2. q \in PageState /\ q.pc = "denied" /\ q.op = page[t].op
      BY <1>0, PcPage DEF PcOf
    <3> HIDE DEF q
    <3> QED
      BY <1>0, <3>1, <3>2, PageOnlyKeeps DEF Made
  <2> QED
    BY <2>1, <2>2
<1>3. CASE SendRefresh(t)
  <2> DEFINE base == page[t]
             sent == RefreshOnly(CookiesOf(t))
             q    == [base EXCEPT !.pc = "presented", !.sent = sent]
  <2>1. PageOnly(t, q) /\ page[t].pc = "denied"
    BY <1>3 DEF SendRefresh, PageOnly
  <2>3. base \in PageState /\ sent \in Cookies /\ base.op = page[t].op
    BY <1>0, <1>a
  <2> HIDE DEF base, sent
  <2>2. q \in PageState /\ q.pc = "presented" /\ q.op = page[t].op
    BY <2>3 DEF PageState
  <2> HIDE DEF q
  <2> QED
    BY <1>0, <2>1, <2>2, PageOnlyKeeps DEF Made
<1>4. CASE GiveUp(t)
  <2>1. PageOnly(t, Still("login")) /\ page[t].pc = "denied"
    BY <1>4 DEF GiveUp, PageOnly
  <2> QED
    BY <2>1, StillPage, PageOnlyKeeps DEF Made
<1>5. CASE page[t].op = "ask" /\ FindCurrent(t)
  <2> DEFINE secret == page[t].sent.refresh
             pc == IF Usable(secret.session) /\ session[secret.session].gen = secret.gen
                   THEN "found" ELSE "unmatched"
             q == [page[t] EXCEPT !.pc = pc]
  <2>1. PageOnly(t, q) /\ page[t].pc = "presented"
    BY <1>5 DEF FindCurrent, PageOnly
  <2>2. pc \in PcOf /\ pc \in {"found", "unmatched"} /\ (pc = "found" => secret.session # NoSession)
    BY DEF PcOf, Usable
  <2> HIDE DEF pc
  <2>3. q \in PageState /\ q.pc = pc /\ q.op = page[t].op /\ q.sent = page[t].sent
    BY <1>0, <2>2, PcPage
  <2>4. pc = "found" => page[t].sent.refresh \in Secret
    BY <1>0, <2>2, SomebodysSecret
  <2> HIDE DEF q
  <2> QED
    BY <1>5, <2>1, <2>2, <2>3, <2>4, PageOnlyKeeps DEF Made
<1>6. CASE GraceLookup(t)
  <2> DEFINE secret == page[t].sent.refresh
             sets == IF /\ Usable(secret.session)
                        /\ session[secret.session].gen = secret.gen + 1
                        /\ session[secret.session].fresh
                     THEN "access" ELSE "clear"
             base == page[t]
             q == [base EXCEPT !.pc = "answered", !.sets = sets]
  <2>1. PageOnly(t, q) /\ page[t].pc = "unmatched"
    BY <1>6 DEF GraceLookup, PageOnly
  <2>2. sets \in {"access", "clear"} /\ (sets = "access" => secret.session # NoSession)
    BY DEF Usable
  <2>4. sets = "access" => page[t].sent.refresh \in Secret
    BY <1>0, <2>2, SomebodysSecret
  <2>5. base \in PageState /\ sets \in {"access", "clear"}
    BY <1>0, <2>2
  <2>7. base = page[t]
    OBVIOUS
  <2> HIDE DEF sets, base
  <2>6. /\ q \in PageState /\ q.pc = "answered" /\ q.sets = sets /\ q.op = base.op
        /\ q.sent = base.sent
    BY <2>5 DEF PageState
  <2> HIDE DEF q
  <2> QED
    BY <1>0, <2>1, <2>2, <2>4, <2>6, <2>7, PageOnlyKeeps DEF Made
<1>7. CASE Login(t)
  <2> DEFINE base == Still("login")
             q    == [base EXCEPT !.pc = "checked", !.op = "login"]
  <2>1. PageOnly(t, q) /\ page[t].pc # "changed"
    BY <1>7, StillPage DEF Login, PageOnly
  <2>3. base \in PageState
    BY StillPage
  <2> HIDE DEF base
  <2>2. q \in PageState /\ q.pc = "checked" /\ q.op = "login"
    BY <2>3 DEF PageState
  <2> HIDE DEF q
  <2> QED
    BY <2>1, <2>2, PageOnlyKeeps DEF Made
<1>8. CASE CheckSuspended(t)
  <2>1. CASE account.suspended
    <3>1. PageOnly(t, Still("login")) /\ page[t].pc = "checked"
      BY <1>8, <2>1 DEF CheckSuspended, PageOnly
    <3> QED
      BY <3>1, StillPage, PageOnlyKeeps DEF Made
  <2>2. CASE ~account.suspended
    <3> DEFINE q == [page[t] EXCEPT !.pc = "cleared"]
    <3>1. PageOnly(t, q) /\ page[t].pc = "checked"
      BY <1>8, <2>2 DEF CheckSuspended, PageOnly
    <3>2. q \in PageState /\ q.pc = "cleared" /\ q.op = page[t].op
      BY <1>0, PcPage DEF PcOf
    <3> HIDE DEF q
    <3> QED
      BY <1>0, <3>1, <3>2, PageOnlyKeeps DEF Made
  <2> QED
    BY <2>1, <2>2
<1>9. CASE Logout(t)
  <2> DEFINE base == Still("app")
             sent == RefreshOnly(CookiesOf(t))
             q    == [base EXCEPT !.pc = "presented", !.op = "logout", !.sent = sent]
  <2>1. PageOnly(t, q) /\ page[t].pc # "changed"
    BY <1>9, StillPage DEF Logout, PageOnly
  <2>3. base \in PageState /\ sent \in Cookies
    BY <1>a, StillPage
  <2> HIDE DEF base, sent
  <2>2. q \in PageState /\ q.pc = "presented" /\ q.op = "logout"
    BY <2>3 DEF PageState
  <2> HIDE DEF q
  <2> QED
    BY <2>1, <2>2, PageOnlyKeeps DEF Made
<1>10. CASE ComparePassword(t)
  <2> DEFINE q == [Still("app") EXCEPT !.pc = "compared", !.op = "change", !.own = CookiesOf(t).access]
  <2>1. PageOnly(t, q) /\ page[t].pc # "changed"
    BY <1>10, StillPage DEF ComparePassword, PageOnly
  <2>2. CookiesOf(t).access \in SessionId \cup {NoSession}
    BY <1>0 DEF Cookies
  <2>3. q \in PageState /\ q.pc = "compared"
    BY <2>2, StillPage, ComparedPage
  <2> HIDE DEF q
  <2> QED
    BY <2>1, <2>3, PageOnlyKeeps DEF Made
<1>11. CASE UseResetLink(t)
  <2> DEFINE base == Still("login")
             q    == [base EXCEPT !.pc = "compared", !.op = "reset"]
  <2>1. PageOnly(t, q) /\ page[t].pc # "changed"
    BY <1>11, StillPage DEF UseResetLink, PageOnly
  <2>3. base \in PageState
    BY StillPage
  <2> HIDE DEF base
  <2>2. q \in PageState /\ q.pc = "compared"
    BY <2>3 DEF PageState
  <2> HIDE DEF q
  <2> QED
    BY <2>1, <2>2, PageOnlyKeeps DEF Made
<1> QED
  BY <1>1, <1>2, <1>3, <1>4, <1>5, <1>6, <1>7, <1>8, <1>9, <1>10, <1>11

\* The secret an answer carries, and the session it is for.
LEMMA SecretSent ==
  ASSUME SessionInv, NEW t \in Tab, page[t].pc = "answered"
  PROVE  /\ page[t].sets \in {"both", "access"} => SentSecret(t).session \in SessionId
         /\ page[t].sets = "both" => SentSecret(t) \in Secret
<1>1. page[t] \in PageState /\ Made(page[t])
  BY DEF SessionInv, SessionTypeOK, AnswersMade
<1>2. CASE page[t].op = "login"
  BY <1>1, <1>2, SessionAssumption DEF Made, SentSecret, Secret
<1>3. CASE page[t].op # "login"
  <2> DEFINE old == page[t].sent.refresh
             new == [old EXCEPT !.gen = old.gen + 1]
  <2>1. SentSecret(t) = new
    BY <1>3 DEF SentSecret
  <2>2. page[t].sets \in {"both", "access"} => old \in Secret
    BY <1>1, <1>3 DEF Made
  <2>3. page[t].sets = "both" => old.gen < MaxRotation
    BY <1>1, <1>3 DEF Made
  <2> HIDE DEF old
  <2>4. old \in Secret => new.session \in SessionId
    BY DEF Secret
  <2>5. old \in Secret /\ old.gen < MaxRotation => old.gen + 1 \in 0 .. MaxRotation
    BY SessionAssumption DEF Secret
  <2>6. old \in Secret /\ old.gen < MaxRotation => new \in Secret
    BY <2>5 DEF Secret
  <2> HIDE DEF new
  <2> QED
    BY <2>1, <2>2, <2>3, <2>4, <2>6
<1> QED
  BY <1>2, <1>3

\* Cookies with another access token.
LEMMA AccessCookies ==
  ASSUME NEW cookies \in Cookies, NEW s \in SessionId \cup {NoSession}
  PROVE  [cookies EXCEPT !.access = s] \in Cookies
  BY DEF Cookies

\* Cookies of a session.
LEMMA SessionCookies ==
  ASSUME NEW secret \in Secret
  PROVE  [access |-> secret.session, refresh |-> secret] \in Cookies
  BY DEF Cookies, Secret

\* Cookies stay cookies.
LEMMA CookiesSet ==
  ASSUME SessionInv, NEW t \in Tab, page[t].pc = "answered", SetCookies(t)
  PROVE  jar' \in [Browser -> Cookies] /\ jar'[t[1]] \in Cookies
<1>1. jar \in [Browser -> Cookies] /\ t[1] \in Browser /\ CookiesOf(t) \in Cookies
  BY DEF SessionInv, SessionTypeOK, CookiesOf, Tab
<1>2. page[t].sets \in {"none", "both", "access", "clear"}
  BY DEF SessionInv, SessionTypeOK, PageState
<1> SUFFICES ASSUME NEW c \in Cookies, jar' = [jar EXCEPT ![t[1]] = c]
             PROVE  jar' \in [Browser -> Cookies] /\ jar'[t[1]] \in Cookies
  <2>1. CASE page[t].sets = "both"
    <3>1. [access |-> SentSecret(t).session, refresh |-> SentSecret(t)] \in Cookies
      BY <2>1, SecretSent, SessionCookies
    <3> QED
      BY <2>1, <3>1 DEF SetCookies
  <2>2. CASE page[t].sets = "access"
    <3>1. [CookiesOf(t) EXCEPT !.access = SentSecret(t).session] \in Cookies
      BY <1>1, <2>2, SecretSent, AccessCookies
    <3> QED
      BY <2>2, <3>1 DEF SetCookies
  <2>3. CASE page[t].sets = "clear"
    BY <2>3, CookiesLess, <1>1 DEF SetCookies
  <2>4. CASE page[t].sets = "none"
    BY <2>4, <1>1 DEF SetCookies
  <2> QED
    BY <1>2, <2>1, <2>2, <2>3, <2>4
<1> QED
  BY <1>1

\* The conditional update that rotates a refresh secret.
LEMMA RotateKeeps == ASSUME SessionInv, NEW t \in Tab, Rotate(t) PROVE SessionInv'
<1> DEFINE base   == page[t]
           secret == page[t].sent.refresh
<1>1. base \in PageState /\ Made(base) /\ base.pc = "found"
  BY DEF SessionInv, SessionTypeOK, AnswersMade, Rotate
<1>2. secret \in Secret /\ base.op # "login"
  BY <1>1 DEF Made
<1>3. CASE session[secret.session].gen = secret.gen
  <2> DEFINE q == [base EXCEPT !.pc = "answered", !.sets = "both"]
             own == secret.session
             gen == session[own].gen + 1
  <2>1. secret.gen < MaxRotation /\ Turn(t, q)
    BY <1>3 DEF Rotate
  <2>2. gen \in 0 .. MaxRotation /\ own \in SessionId
    BY <1>2, <1>3, <2>1, SessionAssumption DEF Secret
  <2>3. session' = [session EXCEPT ![own].gen = gen, ![own].fresh = TRUE]
    BY <1>3 DEF Rotate
  <2>4. session \in [SessionId -> SessionRow]
    BY DEF SessionInv, SessionTypeOK
  <2> HIDE DEF gen, own
  <2>5. /\ session' \in [SessionId -> SessionRow]
        /\ \A z \in SessionId : session'[z].life = session[z].life /\ session'[z].good = session[z].good
    BY <2>2, <2>3, <2>4 DEF SessionRow
  <2>6. UNCHANGED <<account, jar, lost>>
    BY DEF Rotate
  <2>7. lost \in 0 .. MaxLost /\ jar \in [Browser -> Cookies]
    BY DEF SessionInv, SessionTypeOK
  <2>8. base.sent.refresh \in Secret /\ base.sent.refresh.gen < MaxRotation
    BY <1>2, <2>1
  <2>9. base.pc # "changed" /\ page[t].pc # "changed"
    BY <1>1
  <2>10. q \in PageState /\ q.pc = "answered" /\ q.sets = "both" /\ q.op = base.op /\ q.sent = base.sent
    <3> HIDE DEF base
    <3> QED
      BY <1>1 DEF PageState
  <2> HIDE DEF q, base
  <2>11. Made(q)
    BY <1>2, <2>8, <2>10 DEF Made
  <2> QED
    BY <2>1, <2>5, <2>6, <2>7, <2>9, <2>10, <2>11, TurnKeeps
<1>4. CASE session[secret.session].gen # secret.gen
  <2> DEFINE q == [base EXCEPT !.pc = "unmatched"]
  <2>1. PageOnly(t, q) /\ page[t].pc # "changed"
    BY <1>1, <1>4 DEF Rotate, PageOnly
  <2> HIDE DEF base
  <2>2. q \in PageState /\ q.pc = "unmatched" /\ q.op = base.op
    BY <1>1, PcPage DEF PcOf
  <2> HIDE DEF q
  <2> QED
    BY <1>2, <2>1, <2>2, PageOnlyKeeps DEF Made
<1> QED
  BY <1>3, <1>4

\* An answer arrives.
LEMMA ReceiveKeeps == ASSUME SessionInv, NEW t \in Tab, Receive(t) PROVE SessionInv'
<1>1. /\ page[t] \in PageState /\ page[t].pc = "answered"
      /\ session \in [SessionId -> SessionRow] /\ lost \in 0 .. MaxLost
  BY DEF SessionInv, SessionTypeOK, Receive
<1>2. jar' \in [Browser -> Cookies] /\ jar'[t[1]] \in Cookies
  BY <1>1, CookiesSet DEF Receive
<1>3. UNCHANGED <<account, session, lost>>
  BY DEF Receive
<1>4. ASSUME NEW q \in PageState, Turn(t, q), Made(q) PROVE SessionInv'
  BY <1>1, <1>2, <1>3, <1>4, TurnKeeps
<1>5. ASSUME NEW shows \in {"app", "login"}, Turn(t, Still(shows)) PROVE SessionInv'
  BY <1>4, <1>5, StillPage DEF Made
<1> DEFINE base == page[t]
           sent == AccessOnly(jar'[t[1]])
           q    == [base EXCEPT !.pc = "asked", !.retried = TRUE, !.sets = "none", !.sent = sent]
<1>6. CASE page[t].op # "login" /\ Turn(t, q)
  <2>1. sent \in Cookies /\ base \in PageState /\ base.op # "login"
    BY <1>1, <1>2, <1>6, CookiesLess
  <2> HIDE DEF sent, base
  <2>2. q \in PageState /\ q.pc = "asked" /\ q.op = base.op
    BY <2>1 DEF PageState
  <2> HIDE DEF q
  <2> QED
    BY <1>4, <1>6, <2>1, <2>2 DEF Made
<1>7. CASE page[t].op = "login"
  <2>1. Turn(t, Still("app"))
    BY <1>7 DEF Receive, Turn
  <2> QED
    BY <1>5, <2>1
<1>8. CASE page[t].op # "login" /\ (page[t].op = "logout" \/ page[t].sets = "clear")
  <2>1. Turn(t, Still("login"))
    BY <1>8 DEF Receive, Turn
  <2> QED
    BY <1>5, <2>1
<1>9. CASE page[t].op # "login" /\ ~(page[t].op = "logout" \/ page[t].sets = "clear")
  <2>1. Turn(t, q)
    BY <1>9 DEF Receive
  <2> QED
    BY <1>6, <1>9, <2>1
<1> QED
  BY <1>7, <1>8, <1>9

\* An answer or a handler is lost.
LEMMA LoseKeeps == ASSUME SessionInv, NEW t \in Tab, Lose(t) PROVE SessionInv'
<1>1. /\ session \in [SessionId -> SessionRow] /\ jar \in [Browser -> Cookies]
      /\ lost' \in 0 .. MaxLost /\ lost' >= lost /\ lost' > 0
  BY SessionAssumption DEF SessionInv, SessionTypeOK, Lose
<1>2. UNCHANGED <<account, session, jar>>
  BY DEF Lose
<1>3. PICK shows \in {"app", "login"} : Turn(t, Still(shows))
  BY DEF Lose
<1>4. Still(shows) \in PageState /\ Made(Still(shows))
  BY StillPage DEF Made
<1> QED
  BY <1>1, <1>2, <1>3, <1>4, TurnKeeps

\* A sign-in creates its session.
LEMMA StartSessionKeeps ==
  ASSUME SessionInv, NEW t \in Tab, NEW s \in SessionId, StartSession(t, s)
  PROVE  SessionInv'
<1> DEFINE row  == [life |-> "live", gen |-> 0, fresh |-> FALSE, good |-> account.password]
           base == page[t]
           q    == [base EXCEPT !.pc = "answered", !.sets = "both", !.own = s]
<1>1. base \in PageState /\ Made(base) /\ base.pc = "cleared" /\ page[t].pc # "changed"
  BY DEF SessionInv, SessionTypeOK, AnswersMade, StartSession
<1>2. /\ session \in [SessionId -> SessionRow] /\ jar \in [Browser -> Cookies]
      /\ lost \in 0 .. MaxLost /\ account.password \in 0 .. MaxPassword
  BY DEF SessionInv, SessionTypeOK
<1>3. UNCHANGED <<account, jar, lost>> /\ Turn(t, q) /\ session' = [session EXCEPT ![s] = row]
  BY DEF StartSession
<1>4. row \in SessionRow /\ row.good = account.password
  BY <1>2, SessionAssumption DEF SessionRow
<1> HIDE DEF row
<1>5. /\ session' \in [SessionId -> SessionRow]
      /\ \A z \in SessionId : session'[z] = session[z] \/ session'[z].good = account.password
  BY <1>2, <1>3, <1>4
<1> HIDE DEF base
<1>6. q \in PageState /\ q.pc = "answered" /\ q.sets = "both" /\ q.own = s /\ q.op = base.op
  BY <1>1 DEF PageState
<1>7. base.op = "login"
  BY <1>1 DEF Made
<1> HIDE DEF q
<1>8. Made(q)
  BY <1>6, <1>7 DEF Made
<1>9. /\ lost' \in 0 .. MaxLost /\ lost' >= lost /\ jar' \in [Browser -> Cookies]
      /\ \A z \in SessionId : session'[z].life = "live" =>
           \/ session[z].life = "live" /\ session'[z].good = session[z].good
           \/ session'[z].good = account.password
  BY <1>2, <1>3, <1>5
<1> QED
  BY <1>1, <1>3, <1>5, <1>6, <1>8, <1>9, TurnKeeps

\* A sign-out ends the session it presents.
LEMMA EndSessionKeeps == ASSUME SessionInv, NEW t \in Tab, EndSession(t) PROVE SessionInv'
<1> DEFINE base == page[t]
           q    == [base EXCEPT !.pc = "answered", !.sets = "clear"]
<1>1. base \in PageState /\ page[t].pc # "changed" /\ base.op = "logout"
  BY DEF SessionInv, SessionTypeOK, EndSession
<1>2. /\ session \in [SessionId -> SessionRow] /\ jar \in [Browser -> Cookies]
      /\ lost \in 0 .. MaxLost
  BY DEF SessionInv, SessionTypeOK
<1>3. UNCHANGED <<account, jar, lost>> /\ Turn(t, q)
  BY DEF EndSession
<1>4. \A z \in SessionId : session'[z] \in {session[z], Ended(session[z])}
  BY DEF EndSession
<1>5. session' \in [SessionId -> SessionRow]
  <2>1. \A z \in SessionId : Ended(session[z]) \in SessionRow
    BY <1>2, EndedRow
  <2> QED
    BY <1>2, <2>1 DEF EndSession
<1>6. \A z \in SessionId : session'[z].life = "live" =>
        session[z].life = "live" /\ session'[z].good = session[z].good
  <2>1. \A z \in SessionId : Ended(session[z]).life # "live"
    BY <1>2, EndedRow
  <2> QED
    BY <1>4, <2>1
<1> HIDE DEF base
<1>7. q \in PageState /\ q.pc = "answered" /\ q.sets = "clear"
  BY <1>1 DEF PageState
<1> HIDE DEF q
<1>8. Made(q)
  BY <1>7 DEF Made
<1>9. lost' \in 0 .. MaxLost /\ lost' >= lost /\ jar' \in [Browser -> Cookies]
  BY <1>2, <1>3
<1> QED
  BY <1>1, <1>3, <1>5, <1>6, <1>7, <1>8, <1>9, TurnKeeps

\* A handler writes the new password, and will revoke the sessions.
LEMMA ChangeKeeps == ASSUME SessionInv, NEW t \in Tab, ChangePassword(t) PROVE SessionInv'
<1> DEFINE base == page[t]
           n    == account.password + 1
           q    == [base EXCEPT !.pc = "changed", !.wrote = n]
<1>1. base \in PageState /\ n \in 0 .. MaxPassword /\ Turn(t, q)
  BY SessionAssumption DEF SessionInv, SessionTypeOK, ChangePassword
<1>2. account' = [account EXCEPT !.password = n] /\ UNCHANGED <<session, jar, lost>>
  BY DEF ChangePassword
<1>3. account \in [password : 0 .. MaxPassword, suspended : BOOLEAN]
  BY DEF SessionInv, SessionTypeOK
<1> HIDE DEF base, n
<1>4. q \in PageState /\ q.pc = "changed" /\ q.wrote = n
  BY <1>1 DEF PageState
<1>5. account' \in [password : 0 .. MaxPassword, suspended : BOOLEAN] /\ account'.password = n
  BY <1>1, <1>2, <1>3
<1> HIDE DEF q
<1>6. page' \in [Tab -> PageState] /\ page'[t] = q /\ \A u \in Tab : u # t => page'[u] = page[u]
  BY <1>1, <1>4 DEF SessionInv, SessionTypeOK, Turn
<1>7. SessionTypeOK'
  BY <1>2, <1>5, <1>6 DEF SessionInv, SessionTypeOK
<1>8. AnswersMade'
  <2>1. Made(q)
    BY <1>4 DEF Made
  <2>2. \A u \in Tab : Made(page'[u])
    BY <1>6, <2>1 DEF SessionInv, AnswersMade
  <2> QED
    BY <2>2 DEF AnswersMade, Made
<1>9. RevokerAtWork'
  BY <1>4, <1>5, <1>6 DEF RevokerAtWork
<1> QED
  BY <1>7, <1>8, <1>9 DEF SessionInv

\* It revokes them: those that are still behind the password are another handler's.
LEMMA RevokeKeeps == ASSUME SessionInv, NEW t \in Tab, RevokeAllSessions(t) PROVE SessionInv'
<1> DEFINE wrote == page[t].wrote
           own   == page[t].own
<1>1. /\ page[t] \in PageState /\ session \in [SessionId -> SessionRow]
      /\ wrote \in 0 .. MaxPassword /\ account.password \in 0 .. MaxPassword
  BY DEF SessionInv, SessionTypeOK, PageState
<1>2. UNCHANGED <<account, jar, lost>>
  BY DEF RevokeAllSessions
<1>3. PICK shows \in {"app", "login", "loading"} : Turn(t, Still(shows))
  BY <1>1 DEF RevokeAllSessions, PageState
<1> DEFINE q == Still(shows)
<1>4. q \in PageState /\ q.pc = "idle" /\ Made(q)
  BY StillPage DEF Made
<1> HIDE DEF q
<1>5. page' \in [Tab -> PageState] /\ page'[t] = q /\ \A u \in Tab : u # t => page'[u] = page[u]
  BY <1>3, <1>4 DEF SessionInv, SessionTypeOK, Turn, q
<1>6. session' = [s \in SessionId |-> IF s # own THEN Ended(session[s])
                                      ELSE [session[s] EXCEPT !.good = Later(session[s].good, wrote)]]
  BY DEF RevokeAllSessions
<1> HIDE DEF wrote, own
<1>7. ASSUME NEW s \in SessionId
      PROVE  /\ session'[s] \in SessionRow
             /\ session'[s].life = "live" =>
                  /\ session[s].life = "live"
                  /\ session'[s].good >= session[s].good /\ session'[s].good >= wrote
  <2> DEFINE row == session[s]
             n   == [row EXCEPT !.good = Later(row.good, wrote)]
  <2>1. row \in SessionRow
    BY <1>1
  <2>2. CASE s # own
    <3>1. session'[s] = Ended(row)
      BY <1>6, <2>2
    <3> HIDE DEF row
    <3> QED
      BY <2>1, <3>1, EndedRow
  <2>3. CASE s = own
    <3>1. session'[s] = n
      BY <1>6, <2>3
    <3>2. row.life = session[s].life /\ row.good = session[s].good
      OBVIOUS
    <3> HIDE DEF row
    <3>3. n \in SessionRow /\ n.life = row.life /\ n.good >= row.good /\ n.good >= wrote
      BY <1>1, <2>1, SurvivorRow
    <3> HIDE DEF n
    <3> QED
      BY <3>1, <3>2, <3>3
  <2> QED
    BY <2>2, <2>3
<1>8. session' \in [SessionId -> SessionRow]
  BY <1>6, <1>7
<1>9. SessionTypeOK'
  BY <1>2, <1>5, <1>8 DEF SessionInv, SessionTypeOK
<1>10. AnswersMade'
  <2>1. \A u \in Tab : Made(page'[u])
    BY <1>4, <1>5 DEF SessionInv, AnswersMade
  <2> QED
    BY <2>1 DEF AnswersMade, Made
<1>11. RevokerAtWork'
  <2> SUFFICES ASSUME NEW s \in SessionId, session'[s].life = "live",
                      session'[s].good < account.password, ~(lost > 0)
               PROVE  \E u \in Tab : page'[u].pc = "changed" /\ page'[u].wrote = account.password
    BY <1>2 DEF RevokerAtWork
  <2>1. session[s].good \in 0 .. MaxPassword /\ session'[s].good \in 0 .. MaxPassword
    BY <1>1, <1>8 DEF SessionRow
  <2>2. session[s].life = "live" /\ session[s].good < account.password /\ wrote < account.password
    BY <1>1, <1>7, <2>1, SessionAssumption
  <2>3. PICK u \in Tab : page[u].pc = "changed" /\ page[u].wrote = account.password
    BY <2>2 DEF SessionInv, RevokerAtWork
  <2>4. u # t
    BY <1>1, <2>2, <2>3 DEF wrote
  <2> QED
    BY <1>5, <2>3, <2>4
<1> QED
  BY <1>9, <1>10, <1>11 DEF SessionInv

\* The steps no page takes: an operator's, and time's.
LEMMA OthersKeep ==
  ASSUME SessionInv, UNCHANGED <<page, lost>>,
         account'.password = account.password,
         account' \in [password : 0 .. MaxPassword, suspended : BOOLEAN],
         session' \in [SessionId -> SessionRow], jar' \in [Browser -> Cookies],
         \A s \in SessionId : session'[s].life = "live" =>
           session[s].life = "live" /\ session'[s].good = session[s].good
  PROVE  SessionInv'
<1>1. SessionTypeOK'
  BY DEF SessionInv, SessionTypeOK
<1>2. AnswersMade'
  BY DEF SessionInv, AnswersMade, Made
<1>3. RevokerAtWork'
  BY DEF SessionInv, RevokerAtWork
<1> QED
  BY <1>1, <1>2, <1>3 DEF SessionInv

\* Suspending and restoring the account.
LEMMA OperatorKeeps == ASSUME SessionInv, Suspend \/ Restore PROVE SessionInv'
<1>1. /\ account \in [password : 0 .. MaxPassword, suspended : BOOLEAN]
      /\ session \in [SessionId -> SessionRow] /\ jar \in [Browser -> Cookies]
  BY DEF SessionInv, SessionTypeOK
<1>2. CASE Suspend
  <2>1. \A s \in SessionId : Ended(session[s]) \in SessionRow /\ Ended(session[s]).life # "live"
    BY <1>1, EndedRow
  <2>2. /\ session' \in [SessionId -> SessionRow]
        /\ \A s \in SessionId : session'[s].life # "live"
    BY <1>2, <2>1 DEF Suspend
  <2>3. /\ account' \in [password : 0 .. MaxPassword, suspended : BOOLEAN]
        /\ account'.password = account.password
        /\ UNCHANGED <<jar, page, lost>>
    BY <1>1, <1>2 DEF Suspend
  <2> QED
    BY <1>1, <2>2, <2>3, OthersKeep
<1>3. CASE Restore
  <2>1. /\ account' \in [password : 0 .. MaxPassword, suspended : BOOLEAN]
        /\ account'.password = account.password
        /\ UNCHANGED <<session, jar, page, lost>>
    BY <1>1, <1>3 DEF Restore
  <2> QED
    BY <1>1, <2>1, OthersKeep
<1> QED
  BY <1>2, <1>3

\* An access token that expires, a session that ages.
LEMMA TimeKeeps ==
  ASSUME SessionInv, (\E b \in Browser : AccessExpires(b)) \/ (\E s \in SessionId : Age(s))
  PROVE  SessionInv'
<1>1. /\ account \in [password : 0 .. MaxPassword, suspended : BOOLEAN]
      /\ session \in [SessionId -> SessionRow] /\ jar \in [Browser -> Cookies]
  BY DEF SessionInv, SessionTypeOK
<1>2. ASSUME NEW b \in Browser, AccessExpires(b) PROVE SessionInv'
  <2> DEFINE c == [jar[b] EXCEPT !.access = NoSession]
  <2>1. c \in Cookies
    BY <1>1, AccessCookies
  <2>2. jar' = [jar EXCEPT ![b] = c] /\ UNCHANGED <<account, session, page, lost>>
    BY <1>2 DEF AccessExpires
  <2> HIDE DEF c
  <2>3. jar' \in [Browser -> Cookies]
    BY <1>1, <2>1, <2>2
  <2> QED
    BY <1>1, <2>2, <2>3, OthersKeep
<1>3. ASSUME NEW s \in SessionId, Age(s) PROVE SessionInv'
  <2>1. UNCHANGED <<account, jar, page, lost>>
    BY <1>3 DEF Age
  <2> DEFINE row   == session[s]
             tired == [row EXCEPT !.fresh = FALSE]
             over  == [row EXCEPT !.life = "ended"]
  <2>2. PICK new \in {tired, over} : session' = [session EXCEPT ![s] = new]
    BY <1>3, <1>1 DEF Age
  <2>3. row \in SessionRow
    BY <1>1
  <2>4. new \in SessionRow /\ new.good = row.good /\ (new.life = "live" => row.life = "live")
    <3> HIDE DEF row
    <3> QED
      BY <2>3 DEF SessionRow
  <2>5. session' \in [SessionId -> SessionRow]
    BY <1>1, <2>2, <2>4
  <2>6. \A z \in SessionId : session'[z].life = "live" =>
          session[z].life = "live" /\ session'[z].good = session[z].good
    BY <1>1, <2>2, <2>4
  <2> QED
    BY <1>1, <2>1, <2>5, <2>6, OthersKeep
<1> QED
  BY <1>2, <1>3

\* Every step keeps the invariant.
LEMMA StepInv == ASSUME SessionInv, [SessionNext]_sessionVars PROVE SessionInv'
<1>1. ASSUME NEW t \in Tab, PageStep(t) PROVE SessionInv'
  BY <1>1, ReadingKeeps, RotateKeeps, ReceiveKeeps, LoseKeeps, StartSessionKeeps, EndSessionKeeps,
     ChangeKeeps, RevokeKeeps DEF PageStep
<1>2. CASE Suspend \/ Restore
  BY <1>2, OperatorKeeps
<1>3. CASE (\E b \in Browser : AccessExpires(b)) \/ (\E s \in SessionId : Age(s))
  BY <1>3, TimeKeeps
<1>4. CASE UNCHANGED sessionVars
  BY <1>4 DEF sessionVars, SessionInv, SessionTypeOK, AnswersMade, Made, RevokerAtWork
<1> QED
  BY <1>1, <1>2, <1>3, <1>4 DEF SessionNext

\* The invariant holds in every reachable state.
LEMMA Always == SessionSpec => []SessionInv
<1>1. SessionInit => SessionInv
  BY InitInv
<1>2. SessionInv /\ [SessionNext]_sessionVars => SessionInv'
  BY StepInv
<1> QED
  BY <1>1, <1>2, PTL DEF SessionSpec

-------------------------------------------------------------------------------
(* Theorems *)

\* Every variable keeps its type, for any number of browsers, pages and sessions.
THEOREM TypeCorrect == SessionSpec => []SessionTypeOK
<1>1. SessionInv => SessionTypeOK
  BY DEF SessionInv
<1> QED
  BY <1>1, Always, PTL

\* However many password changes, resets and sign-ins overlap, a live session from
\* before the present password has a handler about to revoke it, unless one died.
THEOREM ChangeEndsSessions == SessionSpec => []PasswordChangeEndsSessions
<1>1. SessionInv => PasswordChangeEndsSessions
  BY DEF SessionInv, RevokerAtWork, PasswordChangeEndsSessions
<1> QED
  BY <1>1, Always, PTL

-------------------------------------------------------------------------------
(* Where the refresh secrets are *)

\* The secret a browser holds, the one a page presented, and the new one that
\* is on its way to a page.
Jar(b)    == jar[b].refresh
Sent(t)   == page[t].sent.refresh
Answer(t) == IF page[t].pc = "answered" /\ page[t].sets = "both" THEN SentSecret(t) ELSE NoSecret

\* A secret is of a session that was started, and no newer than its row.
Issued(x) == x # NoSecret => session[x.session].life # "unborn" /\ x.gen <= session[x.session].gen

Both(x, y) == x # NoSecret /\ y # NoSecret /\ x.session = y.session

\* The secrets of a session are in one browser.  A new secret on its way is the
\* row's and the only one under way, and is newer than all that page and browser
\* hold; what a page presents is not newer than what the browser holds.
SecretsInv ==
    /\ \A b \in Browser : Issued(Jar(b))
    /\ \A b \in Browser : Jar(b) # NoSecret => session[Jar(b).session].gen <= Jar(b).gen + 1
    /\ \A t \in Tab : Issued(Sent(t)) /\ Issued(Answer(t))
    /\ \A t \in Tab : Answer(t) # NoSecret => session[Answer(t).session].gen = Answer(t).gen
    /\ \A b, c \in Browser : Both(Jar(b), Jar(c)) => b = c
    /\ \A t \in Tab, b \in Browser : Both(Sent(t), Jar(b)) => t[1] = b /\ Sent(t).gen <= Jar(b).gen
    /\ \A t, u \in Tab : Both(Sent(t), Sent(u)) => t[1] = u[1]
    /\ \A t \in Tab, b \in Browser : Both(Answer(t), Jar(b)) => t[1] = b /\ Jar(b).gen < Answer(t).gen
    /\ \A t, u \in Tab : Both(Answer(t), Sent(u)) => t[1] = u[1] /\ Sent(u).gen < Answer(t).gen
    /\ \A t, u \in Tab : Both(Answer(t), Answer(u)) => t = u

\* What they are.
LEMMA SecretTypes ==
  ASSUME SessionInv
  PROVE  /\ \A b \in Browser : Jar(b) \in Secret \cup {NoSecret}
         /\ \A t \in Tab : t[1] \in Browser
         /\ \A t \in Tab : Sent(t) \in Secret \cup {NoSecret}
         /\ \A t \in Tab : Answer(t) \in Secret \cup {NoSecret}
         /\ \A x \in Secret : x.session \in SessionId /\ x.gen \in Int
         /\ \A s \in SessionId : session[s] \in SessionRow /\ session[s].gen \in Int
<1>1. \A b \in Browser : Jar(b) \in Secret \cup {NoSecret}
  BY DEF SessionInv, SessionTypeOK, Jar, Cookies
<1>2. \A t \in Tab : Sent(t) \in Secret \cup {NoSecret}
  BY DEF SessionInv, SessionTypeOK, Sent, PageState, Cookies
<1>3. \A t \in Tab : Answer(t) \in Secret \cup {NoSecret}
  BY SecretSent DEF Answer
<1>4. \A x \in Secret : x.session \in SessionId /\ x.gen \in Int
  BY SessionAssumption DEF Secret
<1>5. \A s \in SessionId : session[s] \in SessionRow /\ session[s].gen \in Int
  BY SessionAssumption DEF SessionInv, SessionTypeOK, SessionRow
<1>6. \A t \in Tab : t[1] \in Browser
  BY DEF Tab
<1> QED
  BY <1>1, <1>2, <1>3, <1>4, <1>5, <1>6

\* Secrets get lost, or are presented.
LEMMA SecretsFade ==
  ASSUME SessionInv, SecretsInv,
         \A b \in Browser : Jar(b)' \in {Jar(b), NoSecret},
         \A t \in Tab : Sent(t)' \in {Sent(t), Jar(t[1]), NoSecret},
         \A t \in Tab : Answer(t)' \in {Answer(t), NoSecret},
         \A s \in SessionId : /\ session'[s].gen = session[s].gen
                              /\ session'[s].life = "unborn" => session[s].life = "unborn"
  PROVE  SecretsInv'
<1> USE SecretTypes
<1>1. ASSUME NEW x \in Secret \cup {NoSecret}, Issued(x) PROVE Issued(x)'
  BY <1>1 DEF Issued
<1>2. \A b \in Browser : Issued(Jar(b)) /\ Issued(Jar(b))'
  <2>1. ASSUME NEW b \in Browser, NEW x, x = Jar(b)' PROVE Issued(x)'
    BY <1>1, <2>1 DEF SecretsInv, Issued
  <2> QED
    BY <2>1 DEF SecretsInv, Issued
<1>3. \A b \in Browser : Jar(b)' # NoSecret => session'[Jar(b)'.session].gen <= Jar(b)'.gen + 1
  BY DEF SecretsInv
<1>4. \A t \in Tab : Issued(Sent(t))' /\ Issued(Answer(t))'
  <2>1. ASSUME NEW t \in Tab, NEW x, x = Sent(t)' PROVE Issued(x)'
    BY <1>1, <1>2, <2>1 DEF SecretsInv, Issued
  <2>2. ASSUME NEW t \in Tab, NEW x, x = Answer(t)' PROVE Issued(x)'
    BY <1>1, <2>2 DEF SecretsInv, Issued
  <2> QED
    BY <2>1, <2>2 DEF Issued
<1>5. \A t \in Tab : Answer(t)' # NoSecret => session'[Answer(t)'.session].gen = Answer(t)'.gen
  BY DEF SecretsInv
<1>6. \A b, c \in Browser : Both(Jar(b), Jar(c))' => b = c
  BY DEF SecretsInv, Both
<1>7. ASSUME NEW t \in Tab, NEW b \in Browser, Both(Sent(t), Jar(b))'
      PROVE  t[1] = b /\ Sent(t)'.gen <= Jar(b)'.gen
  BY <1>7 DEF SecretsInv, Both
<1>8. ASSUME NEW t \in Tab, NEW u \in Tab, Both(Sent(t), Sent(u))' PROVE t[1] = u[1]
  BY <1>8 DEF SecretsInv, Both
<1>9. ASSUME NEW t \in Tab, NEW b \in Browser, Both(Answer(t), Jar(b))'
      PROVE  t[1] = b /\ Jar(b)'.gen < Answer(t)'.gen
  BY <1>9 DEF SecretsInv, Both
<1>10. ASSUME NEW t \in Tab, NEW u \in Tab, Both(Answer(t), Sent(u))'
       PROVE  t[1] = u[1] /\ Sent(u)'.gen < Answer(t)'.gen
  BY <1>10 DEF SecretsInv, Both
<1>11. \A t, u \in Tab : Both(Answer(t), Answer(u))' => t = u
  BY DEF SecretsInv, Both
<1> QED
  BY <1>2, <1>3, <1>4, <1>5, <1>6, <1>7, <1>8, <1>9, <1>10, <1>11 DEF SecretsInv

\* A page turns to q, which carries no new secret.
LEMMA TurnFades ==
  ASSUME SessionInv, SecretsInv, NEW t \in Tab, NEW q, Turn(t, q),
         q.sent.refresh \in {page[t].sent.refresh, jar[t[1]].refresh, NoSecret},
         q.pc # "answered" \/ q.sets # "both",
         \A b \in Browser : jar'[b].refresh \in {jar[b].refresh, NoSecret},
         \A s \in SessionId : /\ session'[s].gen = session[s].gen
                              /\ session'[s].life = "unborn" => session[s].life = "unborn"
  PROVE  SecretsInv'
<1>1. page'[t] = q /\ \A u \in Tab : u # t => page'[u] = page[u]
  BY DEF SessionInv, SessionTypeOK, Turn
<1>2. \A b \in Browser : Jar(b)' \in {Jar(b), NoSecret}
  BY DEF Jar
<1>3. \A u \in Tab : Sent(u)' \in {Sent(u), Jar(u[1]), NoSecret}
  BY <1>1 DEF Sent, Jar
<1>4. Answer(t)' = NoSecret
  BY <1>1 DEF Answer
<1>5. \A u \in Tab : u # t => Answer(u)' = Answer(u)
  BY <1>1 DEF Answer, SentSecret
<1> QED
  BY <1>2, <1>3, <1>4, <1>5, SecretsFade

\* A page that waits for nothing holds nothing.
LEMMA StillFades ==
  ASSUME SessionInv, SecretsInv, NEW t \in Tab, NEW shows, Turn(t, Still(shows)),
         \A b \in Browser : jar'[b].refresh \in {jar[b].refresh, NoSecret},
         \A s \in SessionId : /\ session'[s].gen = session[s].gen
                              /\ session'[s].life = "unborn" => session[s].life = "unborn"
  PROVE  SecretsInv'
<1>1. PICK q : q = Still(shows)
  OBVIOUS
<1>2. q.sent.refresh = NoSecret /\ q.pc = "idle"
  BY <1>1 DEF Still, NoCookies
<1> QED
  BY <1>1, <1>2, TurnFades

\* A page by itself.
LEMMA PageOnlyFades ==
  ASSUME SessionInv, SecretsInv, NEW t \in Tab, NEW q, PageOnly(t, q),
         q.sent.refresh \in {page[t].sent.refresh, jar[t[1]].refresh, NoSecret},
         q.pc # "answered" \/ q.sets # "both"
  PROVE  SecretsInv'
<1>1. Turn(t, q) /\ session' = session /\ jar' = jar
  BY DEF PageOnly
<1> QED
  BY <1>1, TurnFades

\* The steps of a page that reads.
LEMMA ReadingFades ==
  ASSUME SessionInv, SecretsInv, NEW t \in Tab,
         \/ \E shows \in {"app", "loading"} : Ask(t, shows)
         \/ Protect(t) \/ SendRefresh(t) \/ GiveUp(t)
         \/ FindCurrent(t)
         \/ GraceLookup(t) \/ Login(t) \/ CheckSuspended(t) \/ Logout(t)
         \/ ComparePassword(t) \/ UseResetLink(t)
  PROVE  SecretsInv'
<1>0. page[t] \in PageState /\ CookiesOf(t) \in Cookies /\ CookiesOf(t) = jar[t[1]]
  BY DEF SessionInv, SessionTypeOK, CookiesOf, Tab
<1>1. PICK p, cookies : p = page[t] /\ cookies = CookiesOf(t)
  OBVIOUS
<1>2. p \in PageState /\ cookies \in Cookies
  BY <1>0, <1>1
<1>3. PICK less : less = AccessOnly(cookies)
  OBVIOUS
<1>4. PICK more : more = RefreshOnly(cookies)
  OBVIOUS
<1>5. less.refresh = NoSecret /\ more.refresh = jar[t[1]].refresh
  BY <1>0, <1>1, <1>2, <1>3, <1>4 DEF AccessOnly, RefreshOnly, Cookies
<1>6. ASSUME NEW shows, PageOnly(t, Still(shows)) PROVE SecretsInv'
  <2>1. Turn(t, Still(shows)) /\ session' = session /\ jar' = jar
    BY <1>6 DEF PageOnly
  <2> QED
    BY <2>1, StillFades
<1>7. ASSUME NEW shows \in {"app", "loading"}, Ask(t, shows) PROVE SecretsInv'
  <2>1. PICK q : q = [Still(shows) EXCEPT !.pc = "asked", !.op = "ask", !.sent = less]
    OBVIOUS
  <2>2. PageOnly(t, q)
    BY <1>1, <1>3, <1>7, <2>1 DEF Ask, PageOnly
  <2>3. q.pc = "asked" /\ q.sent = less
    BY <2>1 DEF Still
  <2> QED
    BY <1>5, <2>2, <2>3, PageOnlyFades
<1>8. CASE Protect(t)
  <2>1. PICK q : q = [p EXCEPT !.pc = "denied"]
    OBVIOUS
  <2>2. q.pc = "denied" /\ q.sent = p.sent
    BY <1>2, <2>1 DEF PageState
  <2>3. PageOnly(t, Still("app")) \/ PageOnly(t, q)
    BY <1>1, <1>8, <2>1 DEF Protect, PageOnly
  <2> QED
    BY <1>1, <1>6, <2>2, <2>3, PageOnlyFades
<1>9. CASE SendRefresh(t)
  <2>1. PICK q : q = [p EXCEPT !.pc = "presented", !.sent = more]
    OBVIOUS
  <2>2. q.pc = "presented" /\ q.sent = more
    BY <1>2, <2>1 DEF PageState
  <2>3. PageOnly(t, q)
    BY <1>1, <1>4, <1>9, <2>1 DEF SendRefresh, PageOnly
  <2> QED
    BY <1>5, <2>2, <2>3, PageOnlyFades
<1>10. CASE GiveUp(t)
  BY <1>6, <1>10 DEF GiveUp, PageOnly
<1>11. CASE FindCurrent(t)
  <2>1. PICK pc \in {"found", "unmatched"} : PageOnly(t, [p EXCEPT !.pc = pc])
    BY <1>1, <1>11 DEF FindCurrent, PageOnly
  <2>2. PICK q : q = [p EXCEPT !.pc = pc]
    OBVIOUS
  <2>3. q.pc = pc /\ q.sent = p.sent
    BY <1>2, <2>2 DEF PageState
  <2> QED
    BY <1>1, <2>1, <2>2, <2>3, PageOnlyFades
<1>12. CASE GraceLookup(t)
  <2>1. PICK sets \in {"access", "clear"} :
          PageOnly(t, [p EXCEPT !.pc = "answered", !.sets = sets])
    BY <1>1, <1>12 DEF GraceLookup, PageOnly
  <2>2. PICK q : q = [p EXCEPT !.pc = "answered", !.sets = sets]
    OBVIOUS
  <2>3. q.sets = sets /\ q.sent = p.sent
    BY <1>2, <2>2 DEF PageState
  <2> QED
    BY <1>1, <2>1, <2>2, <2>3, PageOnlyFades
<1>13. CASE Login(t)
  <2>1. PICK q : q = [Still("login") EXCEPT !.pc = "checked", !.op = "login"]
    OBVIOUS
  <2>2. q.pc = "checked" /\ q.sent.refresh = NoSecret
    BY <2>1 DEF Still, NoCookies
  <2>3. PageOnly(t, q)
    BY <1>13, <2>1 DEF Login, PageOnly
  <2> QED
    BY <2>2, <2>3, PageOnlyFades
<1>14. CASE CheckSuspended(t)
  <2>1. PICK q : q = [p EXCEPT !.pc = "cleared"]
    OBVIOUS
  <2>2. q.pc = "cleared" /\ q.sent = p.sent
    BY <1>2, <2>1 DEF PageState
  <2>3. PageOnly(t, Still("login")) \/ PageOnly(t, q)
    BY <1>1, <1>14, <2>1 DEF CheckSuspended, PageOnly
  <2> QED
    BY <1>1, <1>6, <2>2, <2>3, PageOnlyFades
<1>15. CASE Logout(t)
  <2>1. PICK q : q = [Still("app") EXCEPT !.pc = "presented", !.op = "logout", !.sent = more]
    OBVIOUS
  <2>2. q.pc = "presented" /\ q.sent = more
    BY <2>1 DEF Still
  <2>3. PageOnly(t, q)
    BY <1>1, <1>4, <1>15, <2>1 DEF Logout, PageOnly
  <2> QED
    BY <1>5, <2>2, <2>3, PageOnlyFades
<1>16. CASE ComparePassword(t)
  <2>1. PICK own : own = cookies.access
    OBVIOUS
  <2>2. PICK q : q = [Still("app") EXCEPT !.pc = "compared", !.op = "change", !.own = own]
    OBVIOUS
  <2>3. q.pc = "compared" /\ q.sent.refresh = NoSecret
    BY <2>2 DEF Still, NoCookies
  <2>4. PageOnly(t, q)
    BY <1>1, <1>16, <2>1, <2>2 DEF ComparePassword, PageOnly
  <2> QED
    BY <2>3, <2>4, PageOnlyFades
<1>17. CASE UseResetLink(t)
  <2>1. PICK q : q = [Still("login") EXCEPT !.pc = "compared", !.op = "reset"]
    OBVIOUS
  <2>2. q.pc = "compared" /\ q.sent.refresh = NoSecret
    BY <2>1 DEF Still, NoCookies
  <2>3. PageOnly(t, q)
    BY <1>17, <2>1 DEF UseResetLink, PageOnly
  <2> QED
    BY <2>2, <2>3, PageOnlyFades
<1> QED
  BY <1>7, <1>8, <1>9, <1>10, <1>11, <1>12, <1>13, <1>14, <1>15, <1>16, <1>17

\* The steps that write sessions or passwords, or lose something.
LEMMA WritingFades ==
  ASSUME SessionInv, SecretsInv, NEW t \in Tab,
         Lose(t) \/ EndSession(t) \/ ChangePassword(t) \/ RevokeAllSessions(t)
  PROVE  SecretsInv'
<1>1. PICK p : p = page[t]
  OBVIOUS
<1>2. p \in PageState /\ session \in [SessionId -> SessionRow]
  BY <1>1 DEF SessionInv, SessionTypeOK
<1>3. \A s \in SessionId : /\ Ended(session[s]).gen = session[s].gen
                           /\ Ended(session[s]).life = "unborn" => session[s].life = "unborn"
  BY <1>2 DEF Ended, SessionRow
<1>4. CASE Lose(t)
  <2>1. session' = session /\ jar' = jar /\ \E shows : Turn(t, Still(shows))
    BY <1>4 DEF Lose
  <2> QED
    BY <2>1, StillFades
<1>5. CASE EndSession(t)
  <2>1. PICK q : q = [p EXCEPT !.pc = "answered", !.sets = "clear"]
    OBVIOUS
  <2>2. q.sets = "clear" /\ q.sent = p.sent
    BY <1>2, <2>1 DEF PageState
  <2>3. Turn(t, q) /\ jar' = jar /\ \A s \in SessionId : session'[s] \in {session[s], Ended(session[s])}
    BY <1>1, <1>5, <2>1 DEF EndSession
  <2> QED
    BY <1>1, <1>3, <2>2, <2>3, TurnFades
<1>6. CASE ChangePassword(t)
  <2>1. PICK n : n = account.password + 1
    OBVIOUS
  <2>2. PICK q : q = [p EXCEPT !.pc = "changed", !.wrote = n]
    OBVIOUS
  <2>3. q.pc = "changed" /\ q.sent = p.sent
    BY <1>2, <2>2 DEF PageState
  <2>4. Turn(t, q) /\ jar' = jar /\ session' = session
    BY <1>1, <1>6, <2>1, <2>2 DEF ChangePassword
  <2> QED
    BY <1>1, <2>3, <2>4, TurnFades
<1>7. CASE RevokeAllSessions(t)
  <2>1. Turn(t, Still(p.shows)) /\ jar' = jar
    BY <1>1, <1>7 DEF RevokeAllSessions
  <2>2. ASSUME NEW s \in SessionId
        PROVE  /\ session'[s].gen = session[s].gen
               /\ session'[s].life = "unborn" => session[s].life = "unborn"
    <3>1. PICK row, n : row = session[s] /\ n = Later(session[s].good, p.wrote)
      OBVIOUS
    <3>2. PICK new : new = [row EXCEPT !.good = n]
      OBVIOUS
    <3>3. new.gen = row.gen /\ new.life = row.life
      BY <1>2, <3>1, <3>2 DEF SessionRow
    <3>4. session'[s] \in {Ended(session[s]), new}
      BY <1>1, <1>7, <3>1, <3>2 DEF RevokeAllSessions
    <3> QED
      BY <1>3, <3>1, <3>3, <3>4
  <2> QED
    BY <2>1, <2>2, StillFades
<1> QED
  BY <1>4, <1>5, <1>6, <1>7

\* The steps no page takes.
LEMMA OthersFade ==
  ASSUME SessionInv, SecretsInv,
         \/ Suspend \/ Restore \/ (\E b \in Browser : AccessExpires(b)) \/ \E s \in SessionId : Age(s)
  PROVE  SecretsInv'
<1>1. session \in [SessionId -> SessionRow] /\ jar \in [Browser -> Cookies] /\ page' = page
  BY DEF SessionInv, SessionTypeOK, Suspend, Restore, AccessExpires, Age
<1>2. \A u \in Tab : Sent(u)' = Sent(u) /\ Answer(u)' = Answer(u)
  BY <1>1 DEF Sent, Answer, SentSecret
<1>3. \A b \in Browser : Jar(b)' = Jar(b)
  <2>1. CASE jar' = jar
    BY <2>1 DEF Jar
  <2>2. ASSUME NEW b \in Browser, AccessExpires(b) PROVE \A c \in Browser : Jar(c)' = Jar(c)
    <3>1. PICK cookies, new : cookies = jar[b] /\ new = [cookies EXCEPT !.access = NoSession]
      OBVIOUS
    <3>2. cookies \in Cookies
      BY <1>1, <3>1
    <3>3. new.refresh = cookies.refresh
      BY <3>1, <3>2 DEF Cookies
    <3>4. jar'[b] = new /\ \A c \in Browser : c # b => jar'[c] = jar[c]
      BY <1>1, <2>2, <3>1 DEF AccessExpires
    <3> QED
      BY <3>1, <3>3, <3>4 DEF Jar
  <2> QED
    BY <2>1, <2>2 DEF Suspend, Restore, Age
<1>4. ASSUME NEW s \in SessionId
      PROVE  /\ session'[s].gen = session[s].gen
             /\ session'[s].life = "unborn" => session[s].life = "unborn"
  <2>1. session[s] \in SessionRow
    BY <1>1
  <2>2. CASE Suspend
    BY <2>1, <2>2 DEF Suspend, Ended, SessionRow
  <2>3. ASSUME NEW z \in SessionId, Age(z)
        PROVE  /\ session'[s].gen = session[s].gen
               /\ session'[s].life = "unborn" => session[s].life = "unborn"
    <3>1. PICK row : row = session[z]
      OBVIOUS
    <3>2. PICK tired, over : tired = [row EXCEPT !.fresh = FALSE] /\ over = [row EXCEPT !.life = "ended"]
      OBVIOUS
    <3>3. row \in SessionRow
      BY <1>1, <3>1
    <3>4. tired.gen = row.gen /\ tired.life = row.life
      BY <3>2, <3>3 DEF SessionRow
    <3>5. over.gen = row.gen /\ over.life = "ended"
      BY <3>2, <3>3 DEF SessionRow
    <3>6. session'[z] \in {tired, over} /\ (s # z => session'[s] = session[s])
      BY <1>1, <2>3, <3>1, <3>2 DEF Age
    <3> QED
      BY <3>1, <3>4, <3>5, <3>6
  <2> QED
    BY <2>2, <2>3 DEF Restore, AccessExpires
<1> QED
  BY <1>2, <1>3, <1>4, SecretsFade

\* A session starts: nobody has a secret of it but the page that is answered.
LEMMA StartKeepsSecrets ==
  ASSUME SessionInv, SecretsInv, NEW t \in Tab, NEW s \in SessionId, StartSession(t, s)
  PROVE  SecretsInv'
<1> USE SecretTypes
<1>1. PICK p : p = page[t]
  OBVIOUS
<1>2. PICK q : q = [p EXCEPT !.pc = "answered", !.sets = "both", !.own = s]
  OBVIOUS
<1>3. PICK row : row = [life |-> "live", gen |-> 0, fresh |-> FALSE, good |-> account.password]
  OBVIOUS
<1>4. /\ p \in PageState /\ p.op = "login" /\ session \in [SessionId -> SessionRow]
      /\ session[s].life = "unborn" /\ Turn(t, q) /\ jar' = jar
      /\ session' = [session EXCEPT ![s] = row]
  BY <1>1, <1>2, <1>3 DEF StartSession, SessionInv, SessionTypeOK, AnswersMade, Made
<1>5. q.pc = "answered" /\ q.sets = "both" /\ q.own = s /\ q.sent = p.sent /\ q.op = "login"
  BY <1>2, <1>4 DEF PageState
<1>6. page'[t] = q /\ \A u \in Tab : u # t => page'[u] = page[u]
  BY <1>4 DEF SessionInv, SessionTypeOK, Turn
<1>7. PICK x : x = [session |-> s, gen |-> 0]
  OBVIOUS
<1>8. x \in Secret /\ x # NoSecret /\ x.session = s /\ x.gen = 0
  BY <1>7, SessionAssumption DEF Secret, NoSecret
<1>9. Answer(t)' = x /\ \A u \in Tab : u # t => Answer(u)' = Answer(u)
  BY <1>5, <1>6, <1>7 DEF Answer, SentSecret
<1>10. (\A u \in Tab : Sent(u)' = Sent(u)) /\ \A b \in Browser : Jar(b)' = Jar(b)
  BY <1>1, <1>4, <1>5, <1>6 DEF Sent, Jar
<1>11. /\ session'[s].life = "live" /\ session'[s].gen = 0
       /\ \A z \in SessionId : z # s => session'[z] = session[z]
  BY <1>3, <1>4
<1>12. /\ \A b \in Browser : Jar(b) # NoSecret => Jar(b).session # s
       /\ \A u \in Tab : Sent(u) # NoSecret => Sent(u).session # s
       /\ \A u \in Tab : Answer(u) # NoSecret => Answer(u).session # s
  BY <1>4 DEF SecretsInv, Issued
<1>13. ASSUME NEW y \in Secret \cup {NoSecret}, Issued(y), y # NoSecret => y.session # s
       PROVE  Issued(y)'
  BY <1>11, <1>13 DEF Issued
<1>14. \A b \in Browser : Issued(Jar(b))'
  <2>1. ASSUME NEW b \in Browser, NEW y, y = Jar(b)' PROVE Issued(y)'
    BY <1>10, <1>12, <1>13, <2>1 DEF SecretsInv
  <2> QED
    BY <2>1 DEF Issued
<1>15. \A u \in Tab : Issued(Sent(u))' /\ Issued(Answer(u))'
  <2>1. ASSUME NEW u \in Tab, NEW y, y = Sent(u)' PROVE Issued(y)'
    BY <1>10, <1>12, <1>13, <2>1 DEF SecretsInv
  <2>2. ASSUME NEW u \in Tab, NEW y, y = Answer(u)' PROVE Issued(y)'
    <3>1. Issued(x)'
      BY <1>8, <1>11 DEF Issued
    <3> QED
      BY <1>9, <1>12, <1>13, <2>2, <3>1 DEF SecretsInv
  <2> QED
    BY <2>1, <2>2 DEF Issued
<1>16. \A b \in Browser : Jar(b)' # NoSecret => session'[Jar(b)'.session].gen <= Jar(b)'.gen + 1
  BY <1>10, <1>11, <1>12 DEF SecretsInv
<1>17. \A u \in Tab : Answer(u)' # NoSecret => session'[Answer(u)'.session].gen = Answer(u)'.gen
  BY <1>8, <1>9, <1>11, <1>12 DEF SecretsInv
<1>18. \A b, c \in Browser : Both(Jar(b), Jar(c))' => b = c
  BY <1>10 DEF SecretsInv, Both
<1>19. \A u \in Tab, b \in Browser :
         Both(Sent(u), Jar(b))' => u[1] = b /\ Sent(u)'.gen <= Jar(b)'.gen
  BY <1>10 DEF SecretsInv, Both
<1>20. \A u, v \in Tab : Both(Sent(u), Sent(v))' => u[1] = v[1]
  BY <1>10 DEF SecretsInv, Both
<1>21. \A u \in Tab, b \in Browser :
         Both(Answer(u), Jar(b))' => u[1] = b /\ Jar(b)'.gen < Answer(u)'.gen
  BY <1>8, <1>9, <1>10, <1>12 DEF SecretsInv, Both
<1>22. \A u, v \in Tab :
         Both(Answer(u), Sent(v))' => u[1] = v[1] /\ Sent(v)'.gen < Answer(u)'.gen
  BY <1>8, <1>9, <1>10, <1>12 DEF SecretsInv, Both
<1>23. \A u, v \in Tab : Both(Answer(u), Answer(v))' => u = v
  BY <1>8, <1>9, <1>12 DEF SecretsInv, Both
<1> QED
  BY <1>14, <1>15, <1>16, <1>17, <1>18, <1>19, <1>20, <1>21, <1>22, <1>23 DEF SecretsInv

\* A session is rotated by a page that presents its present secret: so no new
\* secret of it is on its way, and its browser holds that secret.
LEMMA RotateKeepsSecrets == ASSUME SessionInv, SecretsInv, NEW t \in Tab, Rotate(t) PROVE SecretsInv'
<1> USE SecretTypes
<1>1. PICK p, old : p = page[t] /\ old = page[t].sent.refresh
  OBVIOUS
<1>2. p \in PageState /\ p.pc = "found" /\ old \in Secret /\ p.op # "login" /\ old # NoSecret
  BY <1>1, SessionAssumption
  DEF Rotate, SessionInv, SessionTypeOK, AnswersMade, Made, Secret, NoSecret
<1>3. CASE session[old.session].gen # old.gen
  <2>1. PICK q : q = [p EXCEPT !.pc = "unmatched"]
    OBVIOUS
  <2>2. q.pc = "unmatched" /\ q.sent = p.sent
    BY <1>2, <2>1 DEF PageState
  <2>3. PageOnly(t, q)
    BY <1>1, <1>3, <2>1 DEF Rotate, PageOnly
  <2> QED
    BY <1>1, <2>2, <2>3, PageOnlyFades
<1>4. CASE session[old.session].gen = old.gen
  <2>1. PICK s, n : s = old.session /\ n = old.gen + 1
    OBVIOUS
  <2>2. PICK q : q = [p EXCEPT !.pc = "answered", !.sets = "both"]
    OBVIOUS
  <2>3. PICK row : row = session[s]
    OBVIOUS
  <2>4. PICK new : new = [row EXCEPT !.gen = n, !.fresh = TRUE]
    OBVIOUS
  <2>5. /\ Turn(t, q) /\ jar' = jar /\ session \in [SessionId -> SessionRow] /\ s \in SessionId
        /\ session[s].gen = old.gen
    BY <1>1, <1>2, <1>4, <2>1, <2>2 DEF Rotate, SessionInv, SessionTypeOK
  <2>6. session' = [session EXCEPT ![s] = new]
    BY <1>1, <1>4, <2>1, <2>3, <2>4, <2>5 DEF Rotate
  <2>7. new.gen = n /\ new.life = row.life
    BY <2>3, <2>4, <2>5 DEF SessionRow
  <2>8. q.pc = "answered" /\ q.sets = "both" /\ q.sent = p.sent /\ q.op = p.op
    BY <1>2, <2>2 DEF PageState
  <2>9. page'[t] = q /\ \A u \in Tab : u # t => page'[u] = page[u]
    BY <2>5 DEF SessionInv, SessionTypeOK, Turn
  <2>10. PICK x : x = [old EXCEPT !.gen = n]
    OBVIOUS
  <2>11. x.session = s /\ x.gen = n /\ n = old.gen + 1 /\ old.gen \in Int /\ x # NoSecret
    BY <1>2, <2>1, <2>5, <2>10, SessionAssumption DEF Secret, NoSecret
  <2>12. Answer(t)' = x /\ \A u \in Tab : u # t => Answer(u)' = Answer(u)
    BY <1>1, <1>2, <2>1, <2>8, <2>9, <2>10 DEF Answer, SentSecret
  <2>13. (\A u \in Tab : Sent(u)' = Sent(u)) /\ (\A b \in Browser : Jar(b)' = Jar(b)) /\ Sent(t) = old
    BY <1>1, <2>5, <2>8, <2>9 DEF Sent, Jar
  <2>14. /\ session'[s].life = session[s].life /\ session'[s].gen = n
         /\ \A z \in SessionId : z # s => session'[z] = session[z]
    BY <2>3, <2>5, <2>6, <2>7
  <2>15. \A u \in Tab : Answer(u) # NoSecret => Answer(u).session # s
    BY <1>2, <2>1, <2>5, <2>13 DEF SecretsInv, Both
  <2>16. \A b \in Browser : (Jar(b) # NoSecret /\ Jar(b).session = s) => Jar(b).gen = old.gen /\ t[1] = b
    BY <1>2, <2>1, <2>5, <2>13 DEF SecretsInv, Both, Issued
  <2>17. \A u \in Tab : (Sent(u) # NoSecret /\ Sent(u).session = s) => Sent(u).gen < n /\ t[1] = u[1]
    BY <1>2, <2>1, <2>5, <2>11, <2>13 DEF SecretsInv, Both, Issued
  <2>18. ASSUME NEW y \in Secret \cup {NoSecret}, Issued(y) PROVE Issued(y)'
    BY <2>5, <2>11, <2>14, <2>18 DEF Issued
  <2>19. \A b \in Browser : Issued(Jar(b))'
    <3>1. ASSUME NEW b \in Browser, NEW y, y = Jar(b)' PROVE Issued(y)'
      BY <2>13, <2>18, <3>1 DEF SecretsInv
    <3> QED
      BY <3>1 DEF Issued
  <2>20. \A u \in Tab : Issued(Sent(u))' /\ Issued(Answer(u))'
    <3>1. ASSUME NEW u \in Tab, NEW y, y = Sent(u)' PROVE Issued(y)'
      BY <2>13, <2>18, <3>1 DEF SecretsInv
    <3>2. ASSUME NEW u \in Tab, NEW y, y = Answer(u)' PROVE Issued(y)'
      <4>1. Issued(old)
        BY <2>13 DEF SecretsInv
      <4>2. Issued(x)'
        BY <1>2, <2>1, <2>11, <2>14, <4>1 DEF Issued
      <4> QED
        BY <2>12, <2>18, <3>2, <4>2 DEF SecretsInv
    <3> QED
      BY <3>1, <3>2 DEF Issued
  <2>21. \A b \in Browser : Jar(b)' # NoSecret => session'[Jar(b)'.session].gen <= Jar(b)'.gen + 1
    BY <2>11, <2>13, <2>14, <2>16 DEF SecretsInv
  <2>22. \A u \in Tab : Answer(u)' # NoSecret => session'[Answer(u)'.session].gen = Answer(u)'.gen
    BY <2>11, <2>12, <2>14, <2>15 DEF SecretsInv
  <2>23. \A b, c \in Browser : Both(Jar(b), Jar(c))' => b = c
    BY <2>13 DEF SecretsInv, Both
  <2>24. \A u \in Tab, b \in Browser :
           Both(Sent(u), Jar(b))' => u[1] = b /\ Sent(u)'.gen <= Jar(b)'.gen
    BY <2>13 DEF SecretsInv, Both
  <2>25. \A u, v \in Tab : Both(Sent(u), Sent(v))' => u[1] = v[1]
    BY <2>13 DEF SecretsInv, Both
  <2>26. \A u \in Tab, b \in Browser :
           Both(Answer(u), Jar(b))' => u[1] = b /\ Jar(b)'.gen < Answer(u)'.gen
    BY <2>11, <2>12, <2>13, <2>16 DEF SecretsInv, Both
  <2>27. \A u, v \in Tab :
           Both(Answer(u), Sent(v))' => u[1] = v[1] /\ Sent(v)'.gen < Answer(u)'.gen
    BY <2>11, <2>12, <2>13, <2>17 DEF SecretsInv, Both
  <2>28. \A u, v \in Tab : Both(Answer(u), Answer(v))' => u = v
    BY <2>11, <2>12, <2>15 DEF SecretsInv, Both
  <2> QED
    BY <2>19, <2>20, <2>21, <2>22, <2>23, <2>24, <2>25, <2>26, <2>27, <2>28 DEF SecretsInv
<1> QED
  BY <1>3, <1>4

\* An answer arrives: its secret, if it has a new one, is what the browser holds.
LEMMA ReceiveKeepsSecrets ==
  ASSUME SessionInv, SecretsInv, NEW t \in Tab, Receive(t) PROVE SecretsInv'
<1> USE SecretTypes
<1>1. PICK p, b : p = page[t] /\ b = t[1]
  OBVIOUS
<1>2. /\ p \in PageState /\ p.pc = "answered" /\ SetCookies(t) /\ b \in Browser
      /\ jar \in [Browser -> Cookies] /\ jar' \in [Browser -> Cookies] /\ session' = session
      /\ p.sets \in {"none", "both", "access", "clear"}
  BY <1>1, CookiesSet DEF Receive, SessionInv, SessionTypeOK, Tab, PageState
<1>3. PICK shows, sent : /\ shows \in {"app", "login"} /\ sent = AccessOnly(jar'[t[1]])
                         /\ \/ Turn(t, Still(shows))
                            \/ Turn(t, [p EXCEPT !.pc = "asked", !.retried = TRUE, !.sets = "none",
                                                 !.sent = sent])
  BY <1>1 DEF Receive, Turn
<1>4. PICK q : /\ Turn(t, q)
               /\ \/ q = Still(shows)
                  \/ q = [p EXCEPT !.pc = "asked", !.retried = TRUE, !.sets = "none", !.sent = sent]
  BY <1>3
<1>5. sent.refresh = NoSecret
  BY <1>1, <1>2, <1>3 DEF AccessOnly, Cookies
<1>6. q.sent.refresh = NoSecret /\ q.pc # "answered"
  <2>1. CASE q = Still(shows)
    BY <2>1 DEF Still, NoCookies
  <2>2. CASE q = [p EXCEPT !.pc = "asked", !.retried = TRUE, !.sets = "none", !.sent = sent]
    <3>1. q.sent = sent /\ q.pc = "asked"
      BY <1>2, <2>2 DEF PageState
    <3> QED
      BY <1>5, <3>1
  <2> QED
    BY <1>4, <2>1, <2>2
<1>7. page'[t] = q /\ \A u \in Tab : u # t => page'[u] = page[u]
  BY <1>4 DEF SessionInv, SessionTypeOK, Turn
<1>8. \A c \in Browser : c # b => jar'[c] = jar[c]
  BY <1>1, <1>2 DEF SetCookies
<1>9. CASE p.sets # "both"
  <2>1. jar'[b].refresh \in {jar[b].refresh, NoSecret}
    <3>1. PICK cookies, s : cookies = CookiesOf(t) /\ s = SentSecret(t).session
      OBVIOUS
    <3>2. cookies = jar[b] /\ cookies \in Cookies
      BY <1>1, <1>2, <3>1 DEF CookiesOf
    <3>3. PICK new : new = [cookies EXCEPT !.access = s]
      OBVIOUS
    <3>4. new.refresh = cookies.refresh
      BY <3>2, <3>3 DEF Cookies
    <3>5. jar'[b] \in {new, NoCookies, cookies}
      BY <1>1, <1>2, <1>9, <3>1, <3>3 DEF SetCookies
    <3> QED
      BY <3>2, <3>4, <3>5 DEF NoCookies
  <2>2. \A c \in Browser : jar'[c].refresh \in {jar[c].refresh, NoSecret}
    BY <1>8, <2>1
  <2> QED
    BY <1>2, <1>4, <1>6, <2>2, TurnFades
<1>10. CASE p.sets = "both"
  <2>1. PICK x : x = Answer(t)
    OBVIOUS
  <2>2. x = SentSecret(t) /\ x \in Secret /\ x # NoSecret
    BY <1>1, <1>2, <1>10, <2>1, SecretSent, SessionAssumption DEF Answer, Secret, NoSecret
  <2>3. jar'[b].refresh = x
    BY <1>1, <1>2, <1>10, <2>2 DEF SetCookies
  <2>4. Jar(b)' = x /\ \A c \in Browser : c # b => Jar(c)' = Jar(c)
    BY <1>8, <2>3 DEF Jar
  <2>5. Sent(t)' = NoSecret /\ \A u \in Tab : u # t => Sent(u)' = Sent(u)
    BY <1>6, <1>7 DEF Sent
  <2>6. Answer(t)' = NoSecret /\ \A u \in Tab : u # t => Answer(u)' = Answer(u)
    BY <1>6, <1>7 DEF Answer, SentSecret
  <2>7. \A y : Issued(y)' = Issued(y)
    BY <1>2 DEF Issued
  <2>8. \A c \in Browser : Issued(Jar(c))'
    <3>1. ASSUME NEW c \in Browser, NEW y, y = Jar(c)' PROVE Issued(y)
      BY <2>1, <2>4, <3>1 DEF SecretsInv
    <3> QED
      BY <2>7, <3>1 DEF Issued
  <2>9. \A u \in Tab : Issued(Sent(u))' /\ Issued(Answer(u))'
    <3>0. Issued(NoSecret)
      BY DEF Issued
    <3>1. ASSUME NEW u \in Tab, NEW y, y = Sent(u)' \/ y = Answer(u)' PROVE Issued(y)
      BY <2>5, <2>6, <3>0, <3>1 DEF SecretsInv
    <3> QED
      BY <2>7, <3>1 DEF Issued
  <2>10. session[x.session].gen = x.gen /\ x.gen \in Int
    BY <2>1, <2>2 DEF SecretsInv
  <2>11. \A c \in Browser : c # b /\ Jar(c) # NoSecret => Jar(c).session # x.session
    BY <1>1, <2>1, <2>2 DEF SecretsInv, Both
  <2>12. \A u \in Tab : Sent(u) # NoSecret /\ Sent(u).session = x.session
                         => u[1] = b /\ Sent(u).gen < x.gen
    BY <1>1, <2>1, <2>2 DEF SecretsInv, Both
  <2>13. \A u \in Tab : u # t /\ Answer(u) # NoSecret => Answer(u).session # x.session
    BY <2>1, <2>2 DEF SecretsInv, Both
  <2>14. \A c \in Browser : Jar(c)' # NoSecret => session'[Jar(c)'.session].gen <= Jar(c)'.gen + 1
    <3>1. ASSUME NEW c \in Browser, Jar(c)' # NoSecret
          PROVE  session'[Jar(c)'.session].gen <= Jar(c)'.gen + 1
      <4>1. CASE c = b
        BY <1>2, <2>4, <2>10, <4>1
      <4>2. CASE c # b
        BY <1>2, <2>4, <3>1, <4>2 DEF SecretsInv
      <4> QED
        BY <4>1, <4>2
    <3> QED
      BY <3>1
  <2>15. \A u \in Tab : Answer(u)' # NoSecret => session'[Answer(u)'.session].gen = Answer(u)'.gen
    BY <1>2, <2>6 DEF SecretsInv
  <2>16. \A c, d \in Browser : Both(Jar(c), Jar(d))' => c = d
    BY <2>4, <2>11 DEF SecretsInv, Both
  <2>17. \A u \in Tab, c \in Browser :
           Both(Sent(u), Jar(c))' => u[1] = c /\ Sent(u)'.gen <= Jar(c)'.gen
    <3>1. ASSUME NEW u \in Tab, NEW c \in Browser, Both(Sent(u), Jar(c))'
          PROVE  u[1] = c /\ Sent(u)'.gen <= Jar(c)'.gen
      <4>1. u # t /\ Sent(u)' = Sent(u)
        BY <2>5, <3>1 DEF Both
      <4>2. CASE c = b
        BY <2>4, <2>10, <2>12, <3>1, <4>1, <4>2 DEF Both
      <4>3. CASE c # b
        BY <2>4, <3>1, <4>1, <4>3 DEF SecretsInv, Both
      <4> QED
        BY <4>2, <4>3
    <3> QED
      BY <3>1
  <2>18. \A u, v \in Tab : Both(Sent(u), Sent(v))' => u[1] = v[1]
    BY <2>5 DEF SecretsInv, Both
  <2>19. \A u \in Tab, c \in Browser :
           Both(Answer(u), Jar(c))' => u[1] = c /\ Jar(c)'.gen < Answer(u)'.gen
    <3>1. ASSUME NEW u \in Tab, NEW c \in Browser, Both(Answer(u), Jar(c))'
          PROVE  u[1] = c /\ Jar(c)'.gen < Answer(u)'.gen
      <4>1. u # t /\ Answer(u)' = Answer(u)
        BY <2>6, <3>1 DEF Both
      <4>2. c # b
        BY <2>4, <2>13, <3>1, <4>1 DEF Both
      <4> QED
        BY <2>4, <3>1, <4>1, <4>2 DEF SecretsInv, Both
    <3> QED
      BY <3>1
  <2>20. \A u, v \in Tab :
           Both(Answer(u), Sent(v))' => u[1] = v[1] /\ Sent(v)'.gen < Answer(u)'.gen
    BY <2>5, <2>6 DEF SecretsInv, Both
  <2>21. \A u, v \in Tab : Both(Answer(u), Answer(v))' => u = v
    BY <2>6 DEF SecretsInv, Both
  <2> QED
    BY <2>8, <2>9, <2>14, <2>15, <2>16, <2>17, <2>18, <2>19, <2>20, <2>21 DEF SecretsInv
<1> QED
  BY <1>9, <1>10

LEMMA SecretsStart == SessionInit => SecretsInv
<1> SUFFICES ASSUME SessionInit PROVE SecretsInv
  OBVIOUS
<1>1. \A b \in Browser : Jar(b) = NoSecret
  BY DEF SessionInit, Jar, NoCookies
<1>2. \A t \in Tab : Sent(t) = NoSecret /\ Answer(t) = NoSecret
  BY DEF SessionInit, Sent, Answer, Still, NoCookies
<1> QED
  BY <1>1, <1>2 DEF SecretsInv, Issued, Both

LEMMA SecretsStep == ASSUME SessionInv, SecretsInv, [SessionNext]_sessionVars PROVE SecretsInv'
<1>1. ASSUME NEW t \in Tab, PageStep(t) PROVE SecretsInv'
  BY <1>1, ReadingFades, RotateKeepsSecrets, ReceiveKeepsSecrets, WritingFades, StartKeepsSecrets
  DEF PageStep
<1>2. CASE Suspend \/ Restore \/ (\E b \in Browser : AccessExpires(b)) \/ \E s \in SessionId : Age(s)
  BY <1>2, OthersFade
<1>3. CASE UNCHANGED sessionVars
  <2>1. \A b \in Browser : Jar(b)' = Jar(b)
    BY <1>3 DEF sessionVars, Jar
  <2>2. \A t \in Tab : Sent(t)' = Sent(t) /\ Answer(t)' = Answer(t)
    BY <1>3 DEF sessionVars, Sent, Answer, SentSecret
  <2>3. session' = session
    BY <1>3 DEF sessionVars
  <2> QED
    BY <2>1, <2>2, <2>3, SecretsFade
<1> QED
  BY <1>1, <1>2, <1>3 DEF SessionNext

\* However many pages of however many browsers refresh at once, and whatever
\* answers are lost or come late: the secret a browser holds is its session's
\* or the one before it, which the grace period is for (refreshSession of
\* sessionService.ts, refreshInFlight of lib/api.js).
THEOREM CookieStaysClose == SessionSpec => []CookieAtMostOneBehind
<1>1. SessionInit => SessionInv /\ SecretsInv
  BY InitInv, SecretsStart
<1>2. SessionInv /\ SecretsInv /\ [SessionNext]_sessionVars => SessionInv' /\ SecretsInv'
  BY StepInv, SecretsStep
<1>3. SecretsInv => CookieAtMostOneBehind
  BY DEF SecretsInv, Jar, CookieAtMostOneBehind
<1> QED
  BY <1>1, <1>2, <1>3, PTL DEF SessionSpec

-------------------------------------------------------------------------------
(* Registration: what every step keeps *)

SigningUp(p, id) == p.op = "signup" /\ p.id = id /\ p.pc \in {"issue", "issuing", "send", "undo"}

\* Somebody can use a link that was mailed.
Mailed(id) == \E k \in Link : /\ link[k].owner = id /\ link[k].purpose = "verify_email"
                              /\ link[k].mailed

\* A handler that is to issue a link, send it or take something back knows for whom.
Serves(p) ==
    /\ p.pc = "free" => p.op = "signup"
    /\ p.pc \in {"issue", "issuing", "send", "undo"} => p.id # 0
    /\ p.pc = "send" => /\ p.link \in Link /\ link[p.link].state # "unborn"
                        /\ link[p.link].owner = p.id
                        /\ p.op # "forgot" => link[p.link].purpose = "verify_email"

\* An account that is not verified was mailed a link, or its signup is at work.
WayOut ==
    user.id # 0 /\ ~user.verified /\ deaths = 0
    => Mailed(user.id) \/ \E h \in Handler : SigningUp(handler[h], user.id)

RegistrationInv ==
    /\ RegistrationTypeOK
    /\ \A k \in Link : /\ link[k].state = "unborn" => ~link[k].mailed
                       /\ link[k].state = "unused" => link[k].owner # 0
    /\ \A h \in Handler : Serves(handler[h])
    /\ WayOut

UserRow == [id : {0} \cup UserId, verified : BOOLEAN, google : BOOLEAN]

\* A link that exists stays what it is and for whom; one that is new is nobody's news.
LinksGrow ==
    /\ link' \in [Link -> LinkRow]
    /\ \A k \in Link : /\ link'[k].state = "unborn" => ~link'[k].mailed
                       /\ link'[k].state = "unused" => link'[k].owner # 0 /\ link'[k].owner = user'.id
                       /\ link[k].state # "unborn" =>
                            /\ link'[k].state # "unborn"
                            /\ link'[k].owner = link[k].owner /\ link'[k].purpose = link[k].purpose
                            /\ link[k].mailed => link'[k].mailed

\* Links are as they were, and so is the account's id.
LEMMA LinksStay ==
  ASSUME RegistrationInv, UNCHANGED link, user'.id = user.id
  PROVE  LinksGrow
  BY DEF RegistrationInv, RegistrationTypeOK, LinksGrow

\* What was mailed stays mailed.
LEMMA MailedStays == ASSUME RegistrationInv, LinksGrow, NEW id, Mailed(id) PROVE Mailed(id)'
<1>1. PICK k \in Link : link[k].owner = id /\ link[k].purpose = "verify_email" /\ link[k].mailed
  BY DEF Mailed
<1>2. link[k].state # "unborn"
  BY <1>1 DEF RegistrationInv
<1>3. link'[k].owner = id /\ link'[k].purpose = "verify_email" /\ link'[k].mailed
  BY <1>1, <1>2 DEF LinksGrow
<1> QED
  BY <1>3 DEF Mailed

\* Who has a link to send still has.
LEMMA ServesOn ==
  ASSUME RegistrationInv, LinksGrow, NEW p, Serves(p)
  PROVE  Serves(p)'
<1>1. p.pc = "send" => /\ link'[p.link].state # "unborn" /\ link'[p.link].owner = p.id
                       /\ p.op # "forgot" => link'[p.link].purpose = "verify_email"
  BY DEF Serves, LinksGrow
<1> QED
  BY <1>1 DEF Serves

\* A handler goes on to q.
LEMMA HandlerGoes ==
  ASSUME RegistrationInv, NEW h \in Handler, NEW q \in HandlerState, Goes(h, q), Serves(q)',
         LinksGrow, user' \in UserRow, lastId' \in {0} \cup UserId,
         deaths' \in 0 .. MaxDeaths, deaths <= deaths',
         (user'.id # 0 /\ ~user'.verified /\ deaths' = 0) =>
           \/ SigningUp(q, user'.id)
           \/ Mailed(user.id)'
           \/ /\ user'.id = user.id /\ ~user.verified
              /\ ~SigningUp(handler[h], user.id)
  PROVE  RegistrationInv'
<1>1. /\ handler' \in [Handler -> HandlerState] /\ handler'[h] = q
      /\ \A g \in Handler : g # h => handler'[g] = handler[g]
  BY DEF RegistrationInv, RegistrationTypeOK, Goes
<1>2. RegistrationTypeOK'
  BY <1>1 DEF RegistrationTypeOK, LinksGrow, UserRow
<1>3. ASSUME NEW g \in Handler PROVE Serves(handler[g])'
  <2>1. CASE g = h
    BY <1>1, <2>1 DEF Serves
  <2>2. CASE g # h
    <3>1. PICK p : p = handler[g]
      OBVIOUS
    <3>2. Serves(p)'
      BY <3>1, ServesOn DEF RegistrationInv
    <3> QED
      BY <1>1, <2>2, <3>1, <3>2 DEF Serves
  <2> QED
    BY <2>1, <2>2
<1>4. WayOut'
  <2> SUFFICES ASSUME user'.id # 0, ~user'.verified, deaths' = 0
               PROVE  Mailed(user.id)' \/ \E g \in Handler : SigningUp(handler'[g], user'.id)
    BY DEF WayOut, SigningUp, Mailed
  <2>1. CASE SigningUp(q, user'.id)
    BY <1>1, <2>1
  <2>2. CASE user'.id = user.id /\ ~user.verified /\ ~SigningUp(handler[h], user.id)
    <3>1. deaths = 0
      BY RegistrationAssumption DEF RegistrationInv, RegistrationTypeOK
    <3>2. CASE Mailed(user.id)
      <4>1. PICK id : id = user.id
        OBVIOUS
      <4>2. Mailed(id)'
        BY <3>2, <4>1, MailedStays
      <4> QED
        BY <2>2, <4>1, <4>2 DEF Mailed
    <3>3. ASSUME NEW g \in Handler, SigningUp(handler[g], user.id)
          PROVE  \E f \in Handler : SigningUp(handler'[f], user'.id)
      <4>1. g # h
        BY <2>2, <3>3
      <4> QED
        BY <1>1, <2>2, <3>3, <4>1
    <3> QED
      BY <2>2, <3>1, <3>2, <3>3 DEF RegistrationInv, WayOut
  <2> QED
    BY <2>1, <2>2 DEF Mailed
<1> QED
  BY <1>2, <1>3, <1>4 DEF RegistrationInv, LinksGrow

LEMMA FreeState == Free \in HandlerState /\ Free.pc = "idle" /\ Free.op = "none" /\ Free.id = 0
  BY DEF Free, HandlerState

\* A handler goes on by itself, and no signup is given up.
LEMMA HandlerOnly ==
  ASSUME RegistrationInv, NEW h \in Handler, NEW q \in HandlerState, Goes(h, q), Serves(q),
         UNCHANGED <<user, lastId, link, deaths>>,
         SigningUp(handler[h], user.id) => SigningUp(q, user.id) \/ Mailed(user.id)
  PROVE  RegistrationInv'
<1>1. /\ user' \in UserRow /\ lastId' \in {0} \cup UserId /\ deaths' \in 0 .. MaxDeaths
      /\ deaths <= deaths' /\ user' = user /\ deaths' = deaths
  BY RegistrationAssumption DEF RegistrationInv, RegistrationTypeOK, UserRow
<1>2. LinksGrow
  BY LinksStay
<1>3. Serves(q)' /\ Mailed(user.id)' = Mailed(user.id)
  BY <1>1 DEF Serves, Mailed
<1>4. Mailed(user.id)' = Mailed(user.id)
  BY <1>1 DEF Mailed
<1>5. (user'.id # 0 /\ ~user'.verified /\ deaths' = 0) =>
        \/ SigningUp(q, user'.id)
        \/ Mailed(user.id)'
        \/ /\ user'.id = user.id /\ ~user.verified
           /\ ~SigningUp(handler[h], user.id)
  BY <1>1, <1>4
<1> QED
  BY <1>1, <1>2, <1>3, <1>5, HandlerGoes

\* Links are used up, or lapse, or are mailed.
LEMMA LinksUsed ==
  ASSUME RegistrationInv, UNCHANGED user,
         link' = [k \in Link |-> link'[k]],
         \A k \in Link : \/ link'[k] = link[k]
                         \/ link'[k] = [link[k] EXCEPT !.state = "used"] /\ link[k].state # "unborn"
                         \/ link'[k] = [link[k] EXCEPT !.live = FALSE]
                         \/ link'[k] = [link[k] EXCEPT !.mailed = TRUE] /\ link[k].state # "unborn"
  PROVE  LinksGrow
<1>1. ASSUME NEW k \in Link
      PROVE  /\ link'[k] \in LinkRow /\ link'[k].state \in {link[k].state, "used"}
             /\ link[k].state = "unborn" => link'[k].state = "unborn"
             /\ link'[k].owner = link[k].owner /\ link'[k].purpose = link[k].purpose
             /\ link[k].mailed => link'[k].mailed
             /\ link[k].state = "unborn" => link'[k].mailed = link[k].mailed
  <2>1. PICK row : row = link[k]
    OBVIOUS
  <2>2. PICK used, dead, sent : /\ used = [row EXCEPT !.state = "used"]
                                /\ dead = [row EXCEPT !.live = FALSE]
                                /\ sent = [row EXCEPT !.mailed = TRUE]
    OBVIOUS
  <2>3. row \in LinkRow
    BY <2>1 DEF RegistrationInv, RegistrationTypeOK
  <2>4. /\ used \in LinkRow /\ used.state = "used" /\ used.owner = row.owner
        /\ used.purpose = row.purpose /\ used.mailed = row.mailed
    BY <2>2, <2>3 DEF LinkRow
  <2>5. /\ dead \in LinkRow /\ dead.state = row.state /\ dead.owner = row.owner
        /\ dead.purpose = row.purpose /\ dead.mailed = row.mailed
    BY <2>2, <2>3 DEF LinkRow
  <2>6. /\ sent \in LinkRow /\ sent.state = row.state /\ sent.owner = row.owner
        /\ sent.purpose = row.purpose /\ sent.mailed = TRUE
    BY <2>2, <2>3 DEF LinkRow
  <2>7. link'[k] \in {row, dead} \/ (link'[k] \in {used, sent} /\ row.state # "unborn")
    BY <2>1, <2>2
  <2> QED
    BY <2>1, <2>3, <2>4, <2>5, <2>6, <2>7
<1>2. link' \in [Link -> LinkRow]
  BY <1>1
<1> QED
  BY <1>1, <1>2 DEF RegistrationInv, RegistrationTypeOK, LinksGrow

LEMMA UsedUpGrows ==
  ASSUME RegistrationInv, UNCHANGED user, NEW links, link' = UsedUp(links)
  PROVE  LinksGrow
BY LinksUsed DEF UsedUp

\* The steps of a handler that read or wait.
LEMMA ReadingHandlersKeep ==
  ASSUME RegistrationInv, NEW h \in Handler,
         \/ CheckAddress(h) \/ RetireUnused(h) \/ CannotIssue(h) \/ Welcome(h) \/ GoogleLookup(h)
         \/ \E op \in {"login", "forgot"} : AskForLink(h, op)
         \/ \E k \in Link : OpenLink(h, k)
  PROVE  RegistrationInv'
<1>1. PICK p, f : p = handler[h] /\ f = Free
  OBVIOUS
<1>2. /\ p \in HandlerState /\ Serves(p) /\ f \in HandlerState /\ f.pc = "idle" /\ f.op = "none"
      /\ f.id = 0 /\ user \in UserRow /\ user.id \in {0} \cup UserId
  BY <1>1, FreeState DEF RegistrationInv, RegistrationTypeOK, UserRow
<1>3. CASE CheckAddress(h)
  <2>1. PICK q : q = [f EXCEPT !.pc = "free", !.op = "signup"]
    OBVIOUS
  <2>2. q \in HandlerState /\ q.pc = "free" /\ q.op = "signup"
    BY <1>2, <2>1 DEF HandlerState
  <2>3. Goes(h, q) /\ UNCHANGED <<user, lastId, link, deaths>> /\ p = f
    BY <1>1, <1>3, <2>1 DEF CheckAddress
  <2>4. Serves(q) /\ ~SigningUp(handler[h], user.id)
    BY <1>1, <1>2, <2>2, <2>3 DEF Serves, SigningUp
  <2> QED
    BY <2>2, <2>3, <2>4, HandlerOnly
<1>4. CASE RetireUnused(h)
  <2>1. PICK retires : retires = Unused(p.id, PurposeOf(h))
    OBVIOUS
  <2>2. retires \in SUBSET Link
    BY <2>1 DEF Unused
  <2>3. PICK q : q = [p EXCEPT !.pc = "issuing", !.retires = retires]
    OBVIOUS
  <2>4. q \in HandlerState /\ q.pc = "issuing" /\ q.op = p.op /\ q.id = p.id
    BY <1>2, <2>2, <2>3 DEF HandlerState
  <2>5. p.pc = "issue" /\ Goes(h, q) /\ UNCHANGED <<user, lastId, link, deaths>>
    BY <1>1, <1>4, <2>1, <2>3 DEF RetireUnused
  <2>6. Serves(q) /\ (SigningUp(p, user.id) => SigningUp(q, user.id))
    BY <1>2, <2>4, <2>5 DEF Serves, SigningUp
  <2> QED
    BY <1>1, <2>4, <2>5, <2>6, HandlerOnly
<1>5. CASE CannotIssue(h)
  <2>1. PICK q : q = [p EXCEPT !.pc = "undo", !.retires = {}]
    OBVIOUS
  <2>2. q \in HandlerState /\ q.pc = "undo" /\ q.op = p.op /\ q.id = p.id
    BY <1>2, <2>1 DEF HandlerState
  <2>3. p.pc = "issuing" /\ UNCHANGED <<user, lastId, link, deaths>>
    BY <1>1, <1>5 DEF CannotIssue
  <2>4. CASE p.op = "signup"
    <3>1. Goes(h, q)
      BY <1>1, <1>5, <2>1, <2>4 DEF CannotIssue, AfterFailure
    <3>2. Serves(q) /\ (SigningUp(p, user.id) => SigningUp(q, user.id))
      BY <1>2, <2>2, <2>3 DEF Serves, SigningUp
    <3> QED
      BY <1>1, <2>2, <2>3, <3>1, <3>2, HandlerOnly
  <2>5. CASE p.op # "signup"
    <3>1. Goes(h, f)
      BY <1>1, <1>5, <2>3, <2>5 DEF CannotIssue, AfterFailure
    <3>2. Serves(f) /\ ~SigningUp(p, user.id)
      BY <1>2, <2>5 DEF Serves, SigningUp
    <3> QED
      BY <1>1, <1>2, <2>3, <3>1, <3>2, HandlerOnly
  <2> QED
    BY <2>4, <2>5
<1>6. CASE Welcome(h)
  <2>1. p.pc = "welcome" /\ Goes(h, f) /\ UNCHANGED <<user, lastId, link, deaths>>
    BY <1>1, <1>6 DEF Welcome
  <2>2. Serves(f) /\ ~SigningUp(p, user.id)
    BY <1>2, <2>1 DEF Serves, SigningUp
  <2> QED
    BY <1>1, <1>2, <2>1, <2>2, HandlerOnly
<1>7. CASE GoogleLookup(h)
  <2>1. PICK id, knew, pc : /\ id = user.id /\ knew = user.verified
                            /\ pc = IF user.id = 0 THEN "create" ELSE "link"
    OBVIOUS
  <2>2. id \in {0} \cup UserId /\ knew \in BOOLEAN /\ pc \in {"create", "link"}
    BY <1>2, <2>1 DEF UserRow
  <2>3. PICK q : q = [f EXCEPT !.op = "google", !.id = id, !.knew = knew, !.pc = pc]
    OBVIOUS
  <2>4. q \in HandlerState /\ q.pc = pc
    BY <1>2, <2>2, <2>3 DEF HandlerState
  <2>5. Goes(h, q) /\ UNCHANGED <<user, lastId, link, deaths>> /\ p = f
    BY <1>1, <1>7, <2>1, <2>3 DEF GoogleLookup
  <2>6. Serves(q) /\ ~SigningUp(handler[h], user.id)
    BY <1>1, <1>2, <2>2, <2>4, <2>5 DEF Serves, SigningUp
  <2> QED
    BY <2>4, <2>5, <2>6, HandlerOnly
<1>8. ASSUME NEW op \in {"login", "forgot"}, AskForLink(h, op) PROVE RegistrationInv'
  <2>1. PICK id : id = user.id
    OBVIOUS
  <2>2. PICK q : q = [f EXCEPT !.pc = "issue", !.op = op, !.id = id]
    OBVIOUS
  <2>3. q \in HandlerState /\ q.pc = "issue" /\ q.id = id
    BY <1>2, <2>1, <2>2 DEF HandlerState
  <2>4. Goes(h, q) /\ UNCHANGED <<user, lastId, link, deaths>> /\ p = f /\ id # 0
    BY <1>1, <1>8, <2>1, <2>2 DEF AskForLink
  <2>5. Serves(q) /\ ~SigningUp(handler[h], user.id)
    BY <1>1, <1>2, <2>3, <2>4 DEF Serves, SigningUp
  <2> QED
    BY <2>3, <2>4, <2>5, HandlerOnly
<1>9. ASSUME NEW k \in Link, OpenLink(h, k) PROVE RegistrationInv'
  <2>1. PICK op, pc, owner, l : /\ op = IF link[k].live THEN "verify" ELSE "login"
                                /\ pc = IF link[k].live THEN "found" ELSE "issue"
                                /\ owner = link[k].owner
                                /\ l = IF link[k].live THEN k ELSE NoLink
    OBVIOUS
  <2>2. owner \in {0} \cup UserId /\ owner # 0 /\ p = f /\ UNCHANGED <<user, lastId, link, deaths>>
    BY <1>1, <1>9, <2>1 DEF OpenLink, RegistrationInv, RegistrationTypeOK, LinkRow
  <2>3. PICK q : q = [f EXCEPT !.op = op, !.pc = pc, !.id = owner, !.link = l]
    OBVIOUS
  <2>4. op \in {"verify", "login"} /\ pc \in {"found", "issue"} /\ l \in Link \cup {NoLink}
    BY <2>1
  <2>5. Goes(h, q)
    BY <1>1, <1>9, <2>1, <2>3 DEF OpenLink
  <2>6. q \in HandlerState /\ q.pc = pc /\ q.id = owner
    BY <1>2, <2>2, <2>3, <2>4 DEF HandlerState
  <2>7. Serves(q) /\ ~SigningUp(handler[h], user.id)
    BY <1>1, <1>2, <2>4, <2>2, <2>6 DEF Serves, SigningUp
  <2> QED
    BY <2>2, <2>6, <2>7, <2>5, HandlerOnly
<1> QED
  BY <1>3, <1>4, <1>5, <1>6, <1>7, <1>8, <1>9

\* An account appears: no link is unused, as there was no account.
LEMMA NewUserGrows ==
  ASSUME RegistrationInv, NEW verified \in BOOLEAN, user.id = 0, NewUser(verified), UNCHANGED link
  PROVE  /\ LinksGrow /\ user' \in UserRow /\ lastId' \in {0} \cup UserId
         /\ user'.id = lastId + 1 /\ user'.id \in UserId /\ user'.id # 0 /\ user'.verified = verified
<1>1. lastId + 1 \in UserId /\ lastId + 1 # 0
  BY RegistrationAssumption DEF RegistrationInv, RegistrationTypeOK, NewUser, UserId
<1>2. /\ user' = [id |-> lastId + 1, verified |-> verified, google |-> verified]
      /\ lastId' = lastId + 1
  BY DEF NewUser
<1>3. LinksGrow
  BY DEF RegistrationInv, RegistrationTypeOK, LinksGrow
<1> QED
  BY <1>1, <1>2, <1>3 DEF UserRow

LEMMA CreateKeeps ==
  ASSUME RegistrationInv, NEW h \in Handler, CreateUser(h) \/ GoogleCreate(h) PROVE RegistrationInv'
<1>1. PICK p, f : p = handler[h] /\ f = Free
  OBVIOUS
<1>2. /\ p \in HandlerState /\ Serves(p) /\ f \in HandlerState /\ f.pc = "idle" /\ f.op = "none"
      /\ f.id = 0 /\ deaths \in 0 .. MaxDeaths /\ deaths <= deaths
  BY <1>1, FreeState, RegistrationAssumption DEF RegistrationInv, RegistrationTypeOK
<1>3. UNCHANGED <<link, deaths>> /\ p.pc \in {"free", "create"} /\ ~SigningUp(p, user.id)
  BY <1>1 DEF CreateUser, GoogleCreate, SigningUp
<1>4. CASE user.id # 0
  <2>1. Goes(h, f) /\ UNCHANGED <<user, lastId>>
    BY <1>1, <1>4 DEF CreateUser, GoogleCreate
  <2>2. Serves(f)
    BY <1>2 DEF Serves
  <2> QED
    BY <1>1, <1>2, <1>3, <2>1, <2>2, HandlerOnly
<1>5. CASE user.id = 0 /\ CreateUser(h)
  <2>1. PICK id : id = lastId + 1
    OBVIOUS
  <2>2. PICK q : q = [p EXCEPT !.pc = "issue", !.id = id]
    OBVIOUS
  <2>3. NewUser(FALSE) /\ Goes(h, q) /\ p.pc = "free"
    BY <1>1, <1>5, <2>1, <2>2 DEF CreateUser
  <2>4. /\ LinksGrow /\ user' \in UserRow /\ lastId' \in {0} \cup UserId
        /\ user'.id = id /\ id \in UserId /\ id # 0
    BY <1>3, <1>5, <2>1, <2>3, NewUserGrows
  <2>5. q \in HandlerState /\ q.pc = "issue" /\ q.id = id /\ q.op = "signup"
    BY <1>2, <2>2, <2>3, <2>4 DEF HandlerState, Serves
  <2>6. Serves(q)' /\ SigningUp(q, user'.id)
    BY <2>4, <2>5 DEF Serves, SigningUp
  <2> QED
    BY <1>2, <1>3, <2>3, <2>4, <2>5, <2>6, HandlerGoes
<1>6. CASE user.id = 0 /\ GoogleCreate(h)
  <2>1. PICK id : id = lastId + 1
    OBVIOUS
  <2>2. PICK q : q = [p EXCEPT !.pc = "welcome", !.id = id]
    OBVIOUS
  <2>3. NewUser(TRUE) /\ Goes(h, q)
    BY <1>1, <1>6, <2>1, <2>2 DEF GoogleCreate
  <2>4. /\ LinksGrow /\ user' \in UserRow /\ lastId' \in {0} \cup UserId
        /\ user'.id = id /\ id \in UserId /\ user'.verified = TRUE
    BY <1>3, <1>6, <2>1, <2>3, NewUserGrows
  <2>5. q \in HandlerState /\ q.pc = "welcome"
    BY <1>2, <2>2, <2>4 DEF HandlerState
  <2>6. Serves(q)'
    BY <2>5 DEF Serves
  <2> QED
    BY <1>2, <1>3, <2>3, <2>4, <2>5, <2>6, HandlerGoes
<1> QED
  BY <1>4, <1>5, <1>6

\* A new link: the first email to its account has a row to be about.
LEMMA IssueKeeps ==
  ASSUME RegistrationInv, NEW h \in Handler, NEW k \in Link, IssueLink(h, k) PROVE RegistrationInv'
<1>1. PICK p, id, purpose : p = handler[h] /\ id = handler[h].id /\ purpose = PurposeOf(h)
  OBVIOUS
<1>2. PICK q : q = [p EXCEPT !.pc = "send", !.link = k, !.retires = {}]
  OBVIOUS
<1>3. PICK base, row : base = Unborn /\ row = [base EXCEPT !.state = "unused", !.owner = id,
                                                           !.purpose = purpose]
  OBVIOUS
<1>4. PICK used : used = UsedUp(p.retires)
  OBVIOUS
<1>5. /\ p \in HandlerState /\ Serves(p) /\ p.pc = "issuing" /\ user.id = id /\ id # 0
      /\ id \in {0} \cup UserId /\ link[k].state = "unborn"
      /\ link' = [used EXCEPT ![k] = row] /\ Goes(h, q) /\ UNCHANGED <<user, lastId, deaths>>
      /\ link \in [Link -> LinkRow]
  BY <1>1, <1>2, <1>3, <1>4
  DEF IssueLink, RegistrationInv, RegistrationTypeOK, Serves, HandlerState
<1>6. purpose \in Purpose /\ (p.op # "forgot" => purpose = "verify_email")
  BY <1>1 DEF PurposeOf, Purpose
<1>7. base \in LinkRow /\ base.mailed = FALSE
  BY <1>3 DEF Unborn, LinkRow, Purpose
<1>8. /\ row \in LinkRow /\ row.state = "unused" /\ row.owner = id /\ row.purpose = purpose
      /\ row.mailed = FALSE
  BY <1>3, <1>5, <1>6, <1>7 DEF LinkRow
<1>9. ASSUME NEW j \in Link
      PROVE  /\ used[j] \in LinkRow /\ used[j].state \in {link[j].state, "used"}
             /\ link[j].state # "unused" => used[j] = link[j]
             /\ used[j].owner = link[j].owner /\ used[j].purpose = link[j].purpose
             /\ used[j].mailed = link[j].mailed
  <2>1. PICK old : old = link[j]
    OBVIOUS
  <2>2. PICK new : new = [old EXCEPT !.state = "used"]
    OBVIOUS
  <2>3. old \in LinkRow
    BY <1>5, <2>1
  <2>4. /\ new \in LinkRow /\ new.state = "used" /\ new.owner = old.owner
        /\ new.purpose = old.purpose /\ new.mailed = old.mailed
    BY <2>2, <2>3 DEF LinkRow
  <2>5. used[j] = old \/ (used[j] = new /\ old.state = "unused")
    BY <1>4, <2>1, <2>2 DEF UsedUp
  <2> QED
    BY <2>1, <2>3, <2>4, <2>5
<1>10. used = [j \in Link |-> used[j]]
  BY <1>4 DEF UsedUp
<1>11. /\ link' \in [Link -> LinkRow] /\ link'[k] = row
       /\ \A j \in Link : j # k => link'[j] = used[j]
  BY <1>5, <1>8, <1>9, <1>10
<1>12. ASSUME NEW j \in Link
       PROVE  /\ link'[j].state = "unborn" => ~link'[j].mailed
              /\ link'[j].state = "unused" => link'[j].owner # 0 /\ link'[j].owner = user'.id
              /\ link[j].state # "unborn" =>
                   /\ link'[j].state # "unborn"
                   /\ link'[j].owner = link[j].owner /\ link'[j].purpose = link[j].purpose
                   /\ link[j].mailed => link'[j].mailed
  <2>1. CASE j = k
    BY <1>5, <1>8, <1>11, <2>1
  <2>2. CASE j # k
    BY <1>5, <1>9, <1>11, <2>2 DEF RegistrationInv, RegistrationTypeOK, LinkRow
  <2> QED
    BY <2>1, <2>2
<1>13. LinksGrow
  BY <1>11, <1>12 DEF LinksGrow
<1>14. /\ q \in HandlerState /\ q.pc = "send" /\ q.link = k /\ q.id = p.id /\ q.op = p.op
  BY <1>2, <1>5 DEF HandlerState
<1>15. Serves(q)' /\ (SigningUp(p, user.id) => SigningUp(q, user'.id))
  BY <1>1, <1>5, <1>6, <1>8, <1>11, <1>14 DEF Serves, SigningUp
<1>16. user' \in UserRow /\ lastId' \in {0} \cup UserId /\ deaths' \in 0 .. MaxDeaths /\ deaths <= deaths'
  BY <1>5, RegistrationAssumption DEF RegistrationInv, RegistrationTypeOK, UserRow
<1> QED
  BY <1>1, <1>5, <1>13, <1>14, <1>15, <1>16, HandlerGoes

\* A link is mailed, or it is not.
LEMMA SendLinkKeeps ==
  ASSUME RegistrationInv, NEW h \in Handler, NEW accepted \in BOOLEAN, SendLink(h, accepted)
  PROVE  RegistrationInv'
<1>1. PICK p, f : p = handler[h] /\ f = Free
  OBVIOUS
<1>2. /\ p \in HandlerState /\ Serves(p) /\ p.pc = "send" /\ UNCHANGED <<user, lastId, deaths>>
      /\ f \in HandlerState /\ f.pc = "idle" /\ f.op = "none" /\ f.id = 0
      /\ link \in [Link -> LinkRow] /\ p.link \in Link /\ link[p.link].state # "unborn"
  BY <1>1, FreeState DEF SendLink, RegistrationInv, RegistrationTypeOK, Serves
<1>3. user' \in UserRow /\ lastId' \in {0} \cup UserId /\ deaths' \in 0 .. MaxDeaths /\ deaths <= deaths'
  BY <1>2, RegistrationAssumption DEF RegistrationInv, RegistrationTypeOK, UserRow
<1>4. CASE accepted
  <2>1. PICK k, row : k = p.link /\ row = [link[k] EXCEPT !.mailed = TRUE]
    OBVIOUS
  <2>2. link' = [link EXCEPT ![k] = row] /\ Goes(h, f)
    BY <1>1, <1>4, <2>1 DEF SendLink
  <2>3. LinksGrow
    <3>1. link' = [j \in Link |-> link'[j]]
      BY <1>2, <2>2
    <3>2. \A j \in Link : \/ link'[j] = link[j]
                          \/ link'[j] = [link[j] EXCEPT !.mailed = TRUE] /\ link[j].state # "unborn"
      BY <1>2, <2>1, <2>2
    <3> QED
      BY <1>2, <3>1, <3>2, LinksUsed
  <2>4. SigningUp(p, user.id) => Mailed(user.id)'
    <3>1. SigningUp(p, user.id) => /\ link[k].owner = user.id /\ link[k].purpose = "verify_email"
      BY <1>2, <2>1 DEF SigningUp, Serves
    <3>2. link'[k].mailed /\ k \in Link
      BY <1>2, <2>1, <2>2 DEF LinkRow
    <3>3. link'[k].owner = link[k].owner /\ link'[k].purpose = link[k].purpose
      BY <1>2, <2>1, <2>3 DEF LinksGrow
    <3> QED
      BY <1>2, <3>1, <3>2, <3>3 DEF Mailed
  <2>5. Serves(f)'
    BY <1>2 DEF Serves
  <2> QED
    BY <1>1, <1>2, <1>3, <2>2, <2>3, <2>4, <2>5, HandlerGoes
<1>5. CASE ~accepted
  <2>1. link' = link
    BY <1>5 DEF SendLink
  <2>2. ASSUME NEW q, q.id = p.id, q.op = p.op, q \in HandlerState, q.pc = "undo", Goes(h, q)
        PROVE  RegistrationInv'
    <3>1. Serves(q) /\ (SigningUp(p, user.id) => SigningUp(q, user.id))
      BY <1>2, <2>2 DEF Serves, SigningUp
    <3> QED
      BY <1>1, <1>2, <2>1, <2>2, <3>1, HandlerOnly
  <2>3. CASE p.op = "signup"
    <3>1. PICK q : q = [p EXCEPT !.pc = "undo", !.retires = {}]
      OBVIOUS
    <3>2. q \in HandlerState /\ q.pc = "undo" /\ q.op = p.op /\ q.id = p.id
      BY <1>2, <3>1 DEF HandlerState
    <3>3. Goes(h, q)
      BY <1>1, <1>5, <2>3, <3>1 DEF SendLink, AfterFailure
    <3> QED
      BY <2>2, <3>2, <3>3
  <2>4. CASE p.op = "forgot"
    <3>1. PICK q : q = [p EXCEPT !.pc = "undo"]
      OBVIOUS
    <3>2. q \in HandlerState /\ q.pc = "undo" /\ q.op = p.op /\ q.id = p.id
      BY <1>2, <3>1 DEF HandlerState
    <3>3. Goes(h, q)
      BY <1>1, <1>2, <1>5, <2>4, <3>1 DEF SendLink, AfterFailure
    <3> QED
      BY <2>2, <3>2, <3>3
  <2>5. CASE p.op \notin {"signup", "forgot"}
    <3>1. Goes(h, f)
      BY <1>1, <1>5, <2>5 DEF SendLink, AfterFailure
    <3>2. Serves(f) /\ ~SigningUp(p, user.id)
      BY <1>2, <2>5 DEF Serves, SigningUp
    <3> QED
      BY <1>1, <1>2, <2>1, <3>1, <3>2, HandlerOnly
  <2> QED
    BY <2>3, <2>4, <2>5
<1> QED
  BY <1>4, <1>5

\* What failed is taken back: a signup's account with all its links.
LEMMA UndoKeeps == ASSUME RegistrationInv, NEW h \in Handler, Undo(h) PROVE RegistrationInv'
<1>1. PICK p, f, id : p = handler[h] /\ f = Free /\ id = handler[h].id
  OBVIOUS
<1>2. /\ p \in HandlerState /\ Serves(p) /\ p.pc = "undo" /\ UNCHANGED <<lastId, deaths>>
      /\ f \in HandlerState /\ f.pc = "idle" /\ f.op = "none" /\ f.id = 0 /\ Goes(h, f)
      /\ link \in [Link -> LinkRow] /\ user \in UserRow
  BY <1>1, FreeState DEF Undo, RegistrationInv, RegistrationTypeOK, UserRow
<1>3. /\ lastId' \in {0} \cup UserId /\ deaths' \in 0 .. MaxDeaths /\ deaths <= deaths'
      /\ Serves(f)'
  BY <1>2, RegistrationAssumption DEF RegistrationInv, RegistrationTypeOK, Serves
<1>4. CASE p.op = "signup" /\ user.id = id
  <2>1. /\ user' = NoUser
        /\ link' = [k \in Link |-> IF link[k].owner = id
                                   THEN [link[k] EXCEPT !.state = "used"] ELSE link[k]]
    BY <1>1, <1>4 DEF Undo
  <2>2. user'.id = 0 /\ user' \in UserRow
    BY <2>1 DEF NoUser, UserRow
  <2>3. ASSUME NEW k \in Link
        PROVE  /\ link'[k] \in LinkRow /\ link'[k].owner = link[k].owner
               /\ link'[k].state = "used" \/ link'[k] = link[k]
               /\ link[k].owner = id => link'[k].state = "used"
               /\ link'[k].purpose = link[k].purpose /\ link'[k].mailed = link[k].mailed
    <3>1. PICK row : row = link[k]
      OBVIOUS
    <3>2. PICK new : new = [row EXCEPT !.state = "used"]
      OBVIOUS
    <3>3. row \in LinkRow
      BY <1>2, <3>1
    <3>4. /\ new \in LinkRow /\ new.state = "used" /\ new.owner = row.owner
          /\ new.purpose = row.purpose /\ new.mailed = row.mailed
      BY <3>2, <3>3 DEF LinkRow
    <3>5. IF row.owner = id THEN link'[k] = new ELSE link'[k] = row
      BY <2>1, <3>1, <3>2
    <3> QED
      BY <3>1, <3>3, <3>4, <3>5
  <2>4. \A k \in Link : link[k].state = "unused" => link[k].owner = id
    BY <1>4 DEF RegistrationInv, RegistrationTypeOK
  <2>5. link' \in [Link -> LinkRow]
    BY <2>1, <2>3
  <2>6. LinksGrow
    BY <2>3, <2>4, <2>5 DEF RegistrationInv, LinksGrow
  <2> QED
    BY <1>2, <1>3, <2>2, <2>6, HandlerGoes
<1>5. CASE ~(p.op = "signup" /\ user.id = id)
  <2>1. user' = user /\ (link' = link \/ link' = UsedUp(Unused(id, "reset_password")))
    BY <1>1, <1>5 DEF Undo
  <2>2. LinksGrow
    BY <2>1, LinksStay, UsedUpGrows
  <2>3. ~SigningUp(handler[h], user.id)
    BY <1>1, <1>5 DEF SigningUp
  <2> QED
    BY <1>2, <1>3, <2>1, <2>2, <2>3, HandlerGoes
<1> QED
  BY <1>4, <1>5

\* The account is verified, by its link or by Google.
LEMMA VerifyKeeps ==
  ASSUME RegistrationInv, NEW h \in Handler, VerifyAccount(h) \/ GoogleLink(h) \/ GoogleRetire(h)
  PROVE  RegistrationInv'
<1>1. PICK p, f : p = handler[h] /\ f = Free
  OBVIOUS
<1>2. /\ p \in HandlerState /\ UNCHANGED <<lastId, deaths>> /\ ~SigningUp(p, user.id)
      /\ f \in HandlerState /\ f.pc = "idle" /\ user \in UserRow
  BY <1>1, FreeState
  DEF VerifyAccount, GoogleLink, GoogleRetire, RegistrationInv, RegistrationTypeOK, UserRow, SigningUp
<1>3. lastId' \in {0} \cup UserId /\ deaths' \in 0 .. MaxDeaths /\ deaths <= deaths'
  BY <1>2, RegistrationAssumption DEF RegistrationInv, RegistrationTypeOK
<1>4. PICK q, r : q = [p EXCEPT !.pc = "welcome"] /\ r = [p EXCEPT !.pc = "retire"]
  OBVIOUS
<1>5. q \in HandlerState /\ q.pc = "welcome" /\ r \in HandlerState /\ r.pc = "retire"
  BY <1>2, <1>4 DEF HandlerState
<1>6. PICK verified, linked : /\ verified = [user EXCEPT !.verified = TRUE]
                              /\ linked = [user EXCEPT !.verified = TRUE, !.google = TRUE]
  OBVIOUS
<1>7. /\ verified \in UserRow /\ verified.id = user.id /\ verified.verified = TRUE
      /\ linked \in UserRow /\ linked.id = user.id /\ linked.verified = TRUE
  BY <1>2, <1>6 DEF UserRow
<1>8. PICK next \in {f, q, r} : Goes(h, next)
  BY <1>1, <1>4 DEF VerifyAccount, GoogleLink, GoogleRetire
<1>9. user' \in {user, verified, linked}
  BY <1>6 DEF VerifyAccount, GoogleLink, GoogleRetire
<1>10. user' \in UserRow /\ user'.id = user.id /\ (user' = user \/ user'.verified = TRUE)
  BY <1>2, <1>7, <1>9
<1>11. LinksGrow
  <2>1. PICK links : link' = link \/ link' = UsedUp(links)
    BY DEF VerifyAccount, GoogleLink, GoogleRetire
  <2>2. ASSUME link' = UsedUp(links) PROVE LinksGrow
    <3>1. ASSUME NEW k \in Link
          PROVE  /\ link'[k] \in LinkRow
                 /\ link'[k].state \in {link[k].state, "used"}
                 /\ link[k].state # "unused" => link'[k] = link[k]
                 /\ link'[k].owner = link[k].owner /\ link'[k].purpose = link[k].purpose
                 /\ link'[k].mailed = link[k].mailed
      <4>1. PICK row : row = link[k]
        OBVIOUS
      <4>2. PICK new : new = [row EXCEPT !.state = "used"]
        OBVIOUS
      <4>3. row \in LinkRow
        BY <4>1 DEF RegistrationInv, RegistrationTypeOK
      <4>4. /\ new \in LinkRow /\ new.state = "used" /\ new.owner = row.owner
            /\ new.purpose = row.purpose /\ new.mailed = row.mailed
        BY <4>2, <4>3 DEF LinkRow
      <4>5. link'[k] = row \/ (link'[k] = new /\ row.state = "unused")
        BY <2>2, <4>1, <4>2 DEF UsedUp
      <4> QED
        BY <4>1, <4>3, <4>4, <4>5
    <3>2. link' \in [Link -> LinkRow]
      BY <2>2, <3>1 DEF UsedUp
    <3> QED
      BY <1>10, <3>1, <3>2 DEF RegistrationInv, RegistrationTypeOK, LinksGrow
  <2> QED
    BY <1>10, <2>1, <2>2, LinksStay
<1>12. next \in HandlerState /\ Serves(next)'
  BY <1>2, <1>5, <1>8 DEF Serves
<1> QED
  BY <1>1, <1>2, <1>3, <1>8, <1>10, <1>11, <1>12, HandlerGoes

LEMMA DiesKeeps == ASSUME RegistrationInv, NEW h \in Handler, HandlerDies(h) PROVE RegistrationInv'
<1>1. PICK f : f = Free
  OBVIOUS
<1>2. /\ f \in HandlerState /\ f.pc = "idle" /\ Goes(h, f) /\ UNCHANGED <<user, lastId, link>>
      /\ deaths' \in 0 .. MaxDeaths /\ deaths <= deaths' /\ deaths' # 0
      /\ user' \in UserRow /\ lastId' \in {0} \cup UserId
  BY <1>1, FreeState, RegistrationAssumption
  DEF HandlerDies, RegistrationInv, RegistrationTypeOK, UserRow
<1>3. LinksGrow /\ Serves(f)'
  BY <1>2, LinksStay DEF Serves
<1> QED
  BY <1>2, <1>3, HandlerGoes

\* A reset link is used, a link lapses.
LEMMA LinkKeeps ==
  ASSUME RegistrationInv, NEW k \in Link, Consume(k) \/ LinkExpires(k) PROVE RegistrationInv'
<1>1. UNCHANGED <<user, lastId, handler, deaths>> /\ link \in [Link -> LinkRow]
      /\ link[k].state = "unused"
  BY DEF Consume, LinkExpires, RegistrationInv, RegistrationTypeOK
<1>2. LinksGrow
  <2>1. link' = [j \in Link |-> link'[j]]
    BY <1>1 DEF Consume, LinkExpires
  <2>2. PICK used, dead : /\ used = [link[k] EXCEPT !.state = "used"]
                          /\ dead = [link[k] EXCEPT !.live = FALSE]
    OBVIOUS
  <2>3. link' = [link EXCEPT ![k] = used] \/ link' = [link EXCEPT ![k] = dead]
    BY <2>2 DEF Consume, LinkExpires
  <2>4. link'[k] \in {used, dead} /\ \A j \in Link : j # k => link'[j] = link[j]
    BY <1>1, <2>3
  <2>5. \A j \in Link : \/ link'[j] = link[j]
                        \/ link'[j] = [link[j] EXCEPT !.state = "used"] /\ link[j].state # "unborn"
                        \/ link'[j] = [link[j] EXCEPT !.live = FALSE]
    BY <1>1, <2>2, <2>4
  <2> QED
    BY <1>1, <2>1, <2>5, LinksUsed
<1>3. \A h \in Handler : Serves(handler[h])'
  <2>1. ASSUME NEW h \in Handler, NEW p, p = handler[h] PROVE Serves(p)'
    BY <1>2, <2>1, ServesOn DEF RegistrationInv
  <2> QED
    BY <1>1, <2>1 DEF Serves
<1>4. WayOut'
  <2>1. PICK id : id = user.id
    OBVIOUS
  <2>2. Mailed(id) => Mailed(id)'
    BY <1>2, MailedStays
  <2> QED
    BY <1>1, <2>1, <2>2 DEF RegistrationInv, WayOut, Mailed, SigningUp
<1>5. RegistrationTypeOK'
  BY <1>1, <1>2 DEF RegistrationInv, RegistrationTypeOK, LinksGrow
<1> QED
  BY <1>2, <1>3, <1>4, <1>5 DEF RegistrationInv, LinksGrow

LEMMA RegistrationStart == RegistrationInit => RegistrationInv
<1> SUFFICES ASSUME RegistrationInit PROVE RegistrationInv
  OBVIOUS
<1>1. Unborn \in LinkRow /\ Unborn.state = "unborn" /\ ~Unborn.mailed
  BY DEF Unborn, LinkRow, Purpose
<1>2. link \in [Link -> LinkRow] /\ \A k \in Link : link[k].state = "unborn" /\ ~link[k].mailed
  BY <1>1 DEF RegistrationInit
<1>3. handler \in [Handler -> HandlerState] /\ \A h \in Handler : handler[h].pc = "idle"
  BY FreeState DEF RegistrationInit
<1>4. user.id = 0 /\ user \in UserRow
  BY DEF RegistrationInit, NoUser, UserRow
<1>5. RegistrationTypeOK
  BY <1>2, <1>3, <1>4, RegistrationAssumption DEF RegistrationInit, RegistrationTypeOK, UserRow
<1>6. \A h \in Handler : Serves(handler[h])
  BY <1>3 DEF Serves
<1> QED
  BY <1>2, <1>4, <1>5, <1>6 DEF RegistrationInv, WayOut

LEMMA RegistrationStep ==
  ASSUME RegistrationInv, [RegistrationNext]_registrationVars PROVE RegistrationInv'
<1>1. ASSUME NEW h \in Handler, HandlerStep(h) PROVE RegistrationInv'
  BY <1>1, ReadingHandlersKeep, CreateKeeps, IssueKeeps, SendLinkKeeps, UndoKeeps, VerifyKeeps,
     DiesKeeps DEF HandlerStep
<1>2. ASSUME NEW k \in Link, Consume(k) \/ LinkExpires(k) PROVE RegistrationInv'
  BY <1>2, LinkKeeps
<1>3. CASE UNCHANGED registrationVars
  <2>1. UNCHANGED <<user, lastId, link, handler, deaths>>
    BY <1>3 DEF registrationVars
  <2>2. \A h \in Handler : Serves(handler[h])'
    BY <2>1 DEF RegistrationInv, Serves
  <2>3. WayOut'
    BY <2>1 DEF RegistrationInv, WayOut, Mailed, SigningUp
  <2> QED
    BY <2>1, <2>2, <2>3 DEF RegistrationInv, RegistrationTypeOK
<1> QED
  BY <1>1, <1>2, <1>3 DEF RegistrationNext

\* However signups, sign-ins and requests for links overlap, and whatever emails
\* are refused: an account that is not verified was mailed a link, or its signup
\* still has it in hand, or a handler died (signup of auth.controller.ts, "a dead
\* end with no way out").
THEOREM AlwaysAWayIn == RegistrationSpec => []NoDeadEnd
<1>1. RegistrationInv => NoDeadEnd
  BY DEF RegistrationInv, WayOut, Mailed, SigningUp, NoDeadEnd
<1>2. RegistrationInv /\ [RegistrationNext]_registrationVars => RegistrationInv'
  BY RegistrationStep
<1> QED
  BY <1>1, <1>2, RegistrationStart, PTL DEF RegistrationSpec

===============================================================================
