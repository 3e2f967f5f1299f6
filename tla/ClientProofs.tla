----------------------------- MODULE ClientProofs -----------------------------
(***************************************************************************)
(* Proofs about the modules of the client: Composer, Entrance, History,    *)
(* TaskFilters, WorkspaceContext, Onboarding and WorkspaceView, for any    *)
(* people, workspaces, tasks and bounds.                                   *)
(***************************************************************************)
EXTENDS WorkspaceView, Onboarding, Composer, Entrance, TaskFilters, History, SequenceTheorems,
        TLAPS

-------------------------------------------------------------------------------
(* Composer: a key per form, and one task per key *)

\* What is sent and what was created carries the key of its form.
KeysAreForms == /\ \A s \in sends : s.key = s.form
                /\ \A t \in tasks : t.key = t.form

\* An open form has a number.
FormsCounted == composer.open => composer.form \in 1..MaxForm

ComposerInv == ComposerTypeOK /\ FormsCounted /\ KeysAreForms /\ OneTaskPerForm

LEMMA ComposerStart == ComposerInit => ComposerInv
BY DEF ComposerInit, ComposerInv, ComposerTypeOK, ComposerState, KeysAreForms, OneTaskPerForm,
       FormsCounted, Wording

\* Calls that change only what is sent.
LEMMA SendsOnly ==
  ASSUME ComposerInv, sends' \subseteq Send, \A s \in sends' : s.key = s.form,
         composer' \in ComposerState, kept' \in [Space -> Wording], UNCHANGED tasks,
         composer'.asking => composer'.open /\ composer'.done /\ composer'.text # 0,
         FormsCounted'
  PROVE  ComposerInv'
BY DEF ComposerInv, ComposerTypeOK, KeysAreForms, OneTaskPerForm

LEMMA CallStays ==
  ASSUME ComposerInv, NEW s \in sends, NEW at \in {"missing", "created", "refused"},
         NEW mounted \in BOOLEAN
  PROVE  /\ [s EXCEPT !.at = at] \in Send /\ [s EXCEPT !.at = at].key = [s EXCEPT !.at = at].form
         /\ [s EXCEPT !.mounted = mounted] \in Send
         /\ [s EXCEPT !.mounted = mounted].key = [s EXCEPT !.mounted = mounted].form
<1>1. s \in Send /\ s.key = s.form
  BY DEF ComposerInv, ComposerTypeOK, KeysAreForms
<1> QED
  BY <1>1 DEF Send

LEMMA SendKeeps ==
  ASSUME ComposerInv, NEW n \in 1..2, SendForm(n), composer.open, composer.text # 0,
         UNCHANGED <<kept, tasks>>
  PROVE  ComposerInv'
<1>1. composer \in ComposerState /\ sends \subseteq Send /\ kept \in [Space -> Wording]
  BY DEF ComposerInv, ComposerTypeOK
<1>2. composer.form \in 1..MaxForm
  BY DEF ComposerInv, FormsCounted
<1>3. Calls(n) \subseteq Send /\ \A s \in Calls(n) : s.key = s.form
  <2>1. /\ composer.in \in Space /\ composer.text \in Wording \ {0}
        /\ composer.form \in Nat
    BY <1>1, <1>2, ComposerBounds DEF ComposerState
  <2>2. ASSUME NEW i \in 1..n
        PROVE  [form |-> composer.form, key |-> composer.form, in |-> composer.in,
                text |-> composer.text, no |-> i, mounted |-> TRUE, at |-> "asked"] \in Send
    <3>1. i \in 1..2
      OBVIOUS
    <3> QED
      BY <1>2, <2>1, <3>1 DEF Send
  <2> QED
    BY <2>2 DEF Calls, KeyOf
<1>4. composer' \in ComposerState /\ ~composer'.asking /\ FormsCounted'
  BY <1>1, <1>2 DEF SendForm, ComposerState, FormsCounted
<1>5. sends' \subseteq Send /\ \A s \in sends' : s.key = s.form
  BY <1>1, <1>3 DEF SendForm, ComposerInv, KeysAreForms
<1> QED
  BY <1>1, <1>4, <1>5, SendsOnly

LEMMA FormKeeps ==
  ASSUME ComposerInv, FormStep
  PROVE  ComposerInv'
<1>1. /\ composer \in ComposerState /\ sends \subseteq Send /\ kept \in [Space -> Wording]
      /\ \A s \in sends : s.key = s.form
  BY DEF ComposerInv, ComposerTypeOK, KeysAreForms
<1>2. ASSUME NEW c \in ComposerState, Writes(c) PROVE kept' \in [Space -> Wording]
  BY <1>1, <1>2 DEF Writes, ComposerState
<1>3. CASE OpenComposer
  <2> DEFINE c == [composer EXCEPT !.open = TRUE, !.form = @ + 1, !.text = kept[composer.in],
                                   !.done = FALSE]
  <2>1. composer.form + 1 \in 0..MaxForm /\ composer.form + 1 \in 1..MaxForm
    BY <1>1, <1>3, ComposerBounds DEF OpenComposer, ComposerState
  <2>2. kept[composer.in] \in Wording /\ ~composer.asking
    BY <1>1, <1>3 DEF OpenComposer, ComposerState, ComposerInv, ComposerTypeOK
  <2>3. c \in ComposerState /\ ~c.asking /\ c.form \in 1..MaxForm
    BY <1>1, <2>1, <2>2 DEF ComposerState
  <2>4. composer' = c /\ Writes(c) /\ UNCHANGED <<sends, tasks>>
    BY <1>3 DEF OpenComposer
  <2> HIDE DEF c
  <2>5. kept' \in [Space -> Wording]
    BY <1>2, <2>3, <2>4
  <2> QED
    BY <1>1, <2>3, <2>4, <2>5, SendsOnly DEF FormsCounted
<1>4. ASSUME NEW text \in Wording, NEW done \in BOOLEAN, TypeInto(text, done)
      PROVE  ComposerInv'
  <2> DEFINE c == [composer EXCEPT !.text = text, !.done = done]
  <2>1. c \in ComposerState /\ ~c.asking /\ c.form = composer.form /\ c.open = composer.open
    BY <1>1, <1>4 DEF ComposerState, TypeInto, Editable
  <2>2. composer' = c /\ Writes(c) /\ UNCHANGED <<sends, tasks>>
    BY <1>4 DEF TypeInto
  <2> HIDE DEF c
  <2>3. kept' \in [Space -> Wording]
    BY <1>2, <2>1, <2>2
  <2> QED
    BY <1>1, <2>1, <2>2, <2>3, SendsOnly DEF FormsCounted, ComposerInv
<1>5. CASE CloseComposer
  <2>1. composer' \in ComposerState /\ ~composer'.asking /\ ~composer'.open
    BY <1>1, <1>5 DEF CloseComposer, Editable, ComposerState
  <2> QED
    BY <1>1, <1>5, <2>1, SendsOnly DEF CloseComposer, FormsCounted
<1>6. ASSUME NEW n \in 1..2, Submit(n) PROVE ComposerInv'
  <2>1. CASE composer.done
    <3>1. /\ composer' \in ComposerState /\ composer'.open /\ composer'.done
          /\ composer'.text # 0 /\ composer'.form = composer.form
      BY <1>1, <1>6, <2>1 DEF Submit, Editable, ComposerState
    <3> QED
      BY <1>1, <1>6, <2>1, <3>1, SendsOnly DEF Submit, FormsCounted, ComposerInv, Editable
  <2>2. CASE ~composer.done
    BY <1>6, <2>2, SendKeeps DEF Submit, Editable
  <2> QED
    BY <2>1, <2>2
<1>7. ASSUME NEW given \in BOOLEAN, AnswerNote(given) PROVE ComposerInv'
  <2>1. composer.open /\ composer.text # 0
    BY <1>7 DEF AnswerNote, ComposerInv, ComposerTypeOK
  <2>2. CASE given
    BY <1>7, <2>1, <2>2, SendKeeps DEF AnswerNote
  <2>3. CASE ~given
    <3>1. /\ composer' \in ComposerState /\ ~composer'.asking /\ composer'.open = composer.open
          /\ composer'.form = composer.form
      BY <1>1, <1>7, <2>3 DEF AnswerNote, ComposerState
    <3> QED
      BY <1>1, <1>7, <2>3, <3>1, SendsOnly DEF AnswerNote, FormsCounted, ComposerInv
  <2> QED
    BY <2>2, <2>3
<1> QED
  BY <1>3, <1>4, <1>5, <1>6, <1>7 DEF FormStep

LEMMA InsertKeeps ==
  ASSUME ComposerInv, NEW s \in sends, InsertTask(s)
  PROVE  ComposerInv'
<1>1. /\ composer \in ComposerState /\ sends \subseteq Send /\ kept \in [Space -> Wording]
      /\ tasks \subseteq NewTask /\ s.key = s.form
      /\ composer.asking => composer.open /\ composer.done /\ composer.text # 0
  BY DEF ComposerInv, ComposerTypeOK, KeysAreForms
<1>2. /\ [s EXCEPT !.at = "created"] \in Send
      /\ [s EXCEPT !.at = "created"].key = [s EXCEPT !.at = "created"].form
  BY CallStays
<1>3. sends' \subseteq Send /\ \A c \in sends' : c.key = c.form
  BY <1>1, <1>2 DEF InsertTask, Becomes, ComposerInv, KeysAreForms
<1>4. CASE Known(s)
  BY <1>1, <1>3, <1>4, SendsOnly DEF InsertTask, FormsCounted, ComposerInv
<1>5. CASE ~Known(s)
  <2> DEFINE t == [form |-> s.form, key |-> s.key, in |-> s.in, text |-> s.text]
  <2>1. t \in NewTask /\ t.key = t.form /\ t.in = s.in /\ t.key = s.key
    BY <1>1 DEF Send, NewTask
  <2>2. tasks' = tasks \cup {t}
    BY <1>5 DEF InsertTask
  <2> HIDE DEF t
  <2>3. \A u \in tasks : u.form = t.form => u.in # t.in
    BY <1>5, <2>1 DEF Known, ComposerInv, KeysAreForms
  <2>4. OneTaskPerForm'
    BY <2>2, <2>3 DEF OneTaskPerForm, ComposerInv
  <2>5. tasks' \subseteq NewTask /\ \A u \in tasks' : u.key = u.form
    BY <1>1, <2>1, <2>2 DEF ComposerInv, KeysAreForms
  <2>6. UNCHANGED <<composer, kept>>
    BY DEF InsertTask
  <2> QED
    BY <1>1, <1>3, <2>4, <2>5, <2>6
       DEF ComposerInv, ComposerTypeOK, KeysAreForms, FormsCounted
<1> QED
  BY <1>4, <1>5

LEMMA SendStepKeeps ==
  ASSUME ComposerInv, NEW s \in sends, LookUp(s) \/ FailSend(s) \/ AnswerSend(s)
  PROVE  ComposerInv'
<1>1. /\ composer \in ComposerState /\ sends \subseteq Send /\ kept \in [Space -> Wording]
      /\ \A c \in sends : c.key = c.form
      /\ composer.asking => composer.open /\ composer.done /\ composer.text # 0
  BY DEF ComposerInv, ComposerTypeOK, KeysAreForms
<1>2. ASSUME NEW at \in {"missing", "created", "refused"}, Becomes(s, at),
             UNCHANGED <<composer, kept, tasks>>
      PROVE  ComposerInv'
  <2>1. [s EXCEPT !.at = at] \in Send /\ [s EXCEPT !.at = at].key = [s EXCEPT !.at = at].form
    BY CallStays
  <2>2. sends' \subseteq Send /\ \A c \in sends' : c.key = c.form
    BY <1>1, <1>2, <2>1 DEF Becomes
  <2> QED
    BY <1>1, <1>2, <2>2, SendsOnly DEF ComposerInv, FormsCounted
<1>3. CASE LookUp(s)
  BY <1>2, <1>3 DEF LookUp
<1>4. CASE FailSend(s)
  BY <1>2, <1>4 DEF FailSend
<1>5. CASE AnswerSend(s)
  <2> DEFINE added == s.at = "created" /\ s.mounted
  <2>1. s.in \in Space /\ s.mounted \in BOOLEAN
    BY <1>1 DEF Send
  <2>2. kept' \in [Space -> Wording]
    BY <1>1, <1>5, <2>1, ComposerBounds DEF AnswerSend, Wording
  <2>3. /\ composer' \in ComposerState
        /\ composer'.asking => composer'.open /\ composer'.done /\ composer'.text # 0
        /\ composer'.open => composer.open
        /\ composer'.form = composer.form
    <3>1. PICK saving \in BOOLEAN, gone \in BOOLEAN :
                 composer' = [composer EXCEPT !.saving = saving, !.open = @ /\ ~gone,
                                              !.asking = @ /\ ~gone]
      <4>1. (IF s.mounted THEN FALSE ELSE composer.saving) \in BOOLEAN
        BY <1>1 DEF ComposerState
      <4> QED
        BY <1>1, <1>5 DEF AnswerSend, ComposerState
    <3> QED
      BY <1>1, <3>1 DEF ComposerState
  <2>4. sends' = sends \ {s} /\ UNCHANGED tasks
    BY <1>5 DEF AnswerSend
  <2> QED
    BY <1>1, <2>2, <2>3, <2>4, SendsOnly DEF FormsCounted, ComposerInv
<1> QED
  BY <1>3, <1>4, <1>5

LEMMA AroundKeeps ==
  ASSUME ComposerInv, AroundStep
  PROVE  ComposerInv'
<1>1. /\ composer \in ComposerState /\ sends \subseteq Send /\ kept \in [Space -> Wording]
      /\ \A c \in sends : c.key = c.form
  BY DEF ComposerInv, ComposerTypeOK, KeysAreForms
<1>2. ASSUME NEW w \in Space, MoveTo(w) PROVE ComposerInv'
  <2> DEFINE c == [composer EXCEPT !.in = w]
  <2>1. /\ c \in ComposerState /\ ~c.asking /\ c.form = composer.form /\ c.open = composer.open
    BY <1>1, <1>2 DEF ComposerState, MoveTo
  <2>2. composer' = c /\ Writes(c) /\ UNCHANGED <<sends, tasks>>
    BY <1>2 DEF MoveTo
  <2> HIDE DEF c
  <2>3. kept' \in [Space -> Wording]
    BY <1>1, <2>1, <2>2 DEF Writes, ComposerState
  <2> QED
    BY <1>1, <2>1, <2>2, <2>3, SendsOnly DEF FormsCounted, ComposerInv
<1>3. ASSUME NEW out \in BOOLEAN, LeavePage(out) PROVE ComposerInv'
  <2>0. 0 \in Wording
    BY ComposerBounds DEF Wording
  <2>1. composer' \in ComposerState /\ ~composer'.asking /\ ~composer'.open
    BY <1>1, <1>3, <2>0 DEF LeavePage, ComposerState
  <2>2. kept' \in [Space -> Wording]
    BY <1>1, <1>3, ComposerBounds DEF LeavePage, Wording
  <2>3. sends' \subseteq Send /\ \A c \in sends' : c.key = c.form
    BY <1>3, CallStays DEF LeavePage
  <2>4. UNCHANGED tasks
    BY <1>3 DEF LeavePage
  <2> QED
    BY <2>1, <2>2, <2>3, <2>4, SendsOnly DEF FormsCounted
<1> QED
  BY <1>2, <1>3 DEF AroundStep

\* A form that is opened leads to one task of each workspace at most, for any
\* number of saves, double clicks, lost answers, workspaces and forms.
THEOREM OneTaskOfAForm == ComposerSpec => []OneTaskPerForm
<1>1. ComposerInv /\ [ComposerNext]_composerVars => ComposerInv'
  <2> SUFFICES ASSUME ComposerInv, [ComposerNext]_composerVars PROVE ComposerInv'
    OBVIOUS
  <2>1. CASE UNCHANGED composerVars
    BY <2>1 DEF composerVars, ComposerInv, ComposerTypeOK, FormsCounted, KeysAreForms,
                OneTaskPerForm
  <2>2. CASE ComposerNext
    BY <2>2, FormKeeps, InsertKeeps, SendStepKeeps, AroundKeeps DEF ComposerNext, SendStep
  <2> QED
    BY <2>1, <2>2
<1>2. ComposerInv => OneTaskPerForm
  BY DEF ComposerInv
<1> QED
  BY <1>1, <1>2, ComposerStart, PTL DEF ComposerSpec

-------------------------------------------------------------------------------
(* Entrance: what is left behind leads nowhere *)

\* Nothing that would be used to land somewhere was left behind.
LeadsAnew ==
    /\ Led \cap leftBehind = {}
    /\ <<"dashboard", Home>> \notin leftBehind

\* Every action that ends in the effects of a page: what it remembers is new.
LEMMA ShowsKeeps ==
  ASSUME LeadsAnew, NEW d, NEW p \in {path, Nowhere}, NEW i \in {invite, Nowhere},
         Shows(d, p, i)
  PROVE  LeadsAnew'
BY DEF LeadsAnew, Led, Shows, Remembers, Carries, Anew

LEMMA SignOutKeeps ==
  ASSUME LeadsAnew, NEW lag \in BOOLEAN, FinishSignOut(lag)
  PROVE  LeadsAnew'
<1>1. /\ path' = Remembers(SignedOff, Nowhere) /\ invite' = Kept(Nowhere)
      /\ leftBehind' = (leftBehind \cup Led) \ (Anew(SignedOff) \cup {<<"invite", door.switching>>})
  BY DEF FinishSignOut, DropRemembered
<1>2. \A x \in Led : x[1] # "dashboard"
  BY DEF Led
<1>3. path' # Nowhere => <<"path", path'>> \in Anew(SignedOff)
  BY <1>1 DEF Remembers, Anew
<1>4. invite' # Nowhere => <<"invite", invite'>> \in Anew(SignedOff) \cup {<<"invite", door.switching>>}
  BY <1>1 DEF Kept, Carries, Anew
<1>5. Led' \cap leftBehind' = {}
  BY <1>1, <1>3, <1>4 DEF Led
<1>6. <<"dashboard", Home>> \notin leftBehind'
  BY <1>1, <1>2 DEF LeadsAnew
<1> QED
  BY <1>5, <1>6 DEF LeadsAnew

LEMMA EntranceKeeps ==
  ASSUME LeadsAnew, NEW for, [EntranceNext(for)]_doorVars
  PROVE  LeadsAnew'
<1>1. CASE UNCHANGED <<path, invite, leftBehind>>
  BY <1>1 DEF LeadsAnew, Led
<1>2. CASE \/ SessionChecked \/ PreviewInvitation \/ TermsRequired \/ AcceptTerms \/ Respond(for)
           \/ \E at \in Door : FollowLink(at)
           \/ \E ticked \in BOOLEAN : SignedInHere(ticked)
  BY <1>2, ShowsKeeps
     DEF SessionChecked, PreviewInvitation, TermsRequired, AcceptTerms, Respond, FollowLink,
         SignedInHere, PathTaken
<1>3. CASE \E signOut \in BOOLEAN : EndElsewhere(signOut)
  BY <1>3 DEF EndElsewhere, LeadsAnew, Led
<1>4. CASE Expire
  BY <1>4 DEF Expire, LeadsAnew, Led, Carries, Anew
<1>5. CASE \E lag \in BOOLEAN : FinishSignOut(lag)
  BY <1>5, SignOutKeeps
<1> QED
  BY <1>1, <1>2, <1>3, <1>4, <1>5
     DEF EntranceNext, PageStep, SignInStep, OutStep, doorVars, LoadDoor, CheckSession,
         AskToSignIn, ServeSignIn, RefuseSignIn, TermsChange, InvitationFinishes, StartSignOut,
         ServeSignOut

\* Whoever signs in lands on nothing that was remembered before somebody signed
\* out and not since, for any people, pages and invitations.
THEOREM LandsAnew ==
  ASSUME NEW at \in Door, NEW for
  PROVE  EntranceInit(at) /\ [][EntranceNext(for)]_doorVars => LandsOnNothingLeftBehind
<1>1. EntranceInit(at) => LeadsAnew
  BY DEF EntranceInit, LeadsAnew
<1>2. LeadsAnew /\ [EntranceNext(for)]_doorVars => LeadsAnew'
  BY EntranceKeeps
<1>3. LeadsAnew => [\A ticked \in BOOLEAN : SignedInHere(ticked) => Lands \notin leftBehind]_doorVars
  BY DEF LeadsAnew, Led, Lands
<1> QED
  BY <1>1, <1>2, <1>3, PTL DEF LandsOnNothingLeftBehind

-------------------------------------------------------------------------------
(* TaskFilters: the URL, the box and what was asked for *)

\* The box has what was asked for, and the URL what the box last wrote; or the
\* search changed outside, and the box takes it over when the page renders it.
BoxLeads == chosen.q = box.draft /\ url.q = box.written
UrlLeads == /\ chosen.q = url.q /\ box.draft = box.written
            /\ url.q \notin {rendered.q, box.written}

FiltersInv == /\ FiltersTypeOK
              /\ chosen.filter = url.filter
              /\ ~raced => BoxLeads \/ UrlLeads

LEMMA FiltersKeep == FiltersInv /\ [FiltersNext]_filterVars => FiltersInv'
<1> SUFFICES ASSUME FiltersInv, [FiltersNext]_filterVars PROVE FiltersInv'
  OBVIOUS
<1>1. /\ url \in Query /\ rendered \in Query /\ chosen \in Query /\ box \in Box
      /\ raced \in BOOLEAN /\ box.timer = (box.draft # box.written)
      /\ chosen.filter = url.filter
      /\ ~raced => BoxLeads \/ UrlLeads
  BY DEF FiltersInv, FiltersTypeOK
<1>2. ASSUME NEW term \in Terms, TypeTerm(term) PROVE FiltersInv'
  <2>1. box' \in Box /\ box'.draft = term /\ box'.written = box.written
        /\ box'.timer = (box'.draft # box'.written)
    BY <1>1, <1>2 DEF TypeTerm, Box
  <2>2. chosen' \in Query /\ chosen'.q = term /\ chosen'.filter = chosen.filter
    BY <1>1, <1>2 DEF TypeTerm, Query
  <2>3. ~raced' => ~raced /\ ~UrlLeads
    BY <1>1, <1>2 DEF TypeTerm, UrlLeads
  <2> QED
    BY <1>1, <1>2, <2>1, <2>2, <2>3 DEF TypeTerm, FiltersInv, FiltersTypeOK, BoxLeads
<1>3. CASE WriteTerm
  <2>1. /\ url' \in Query /\ url'.q = box.draft /\ url'.filter = url.filter
        /\ box' \in Box /\ box'.draft = box.draft /\ box'.written = box.draft /\ ~box'.timer
    BY <1>1, <1>3 DEF WriteTerm, Changed, Query, Box
  <2>2. box.draft # box.written
    BY <1>1, <1>3 DEF WriteTerm
  <2>3. UNCHANGED <<rendered, chosen, raced>>
    BY <1>3 DEF WriteTerm
  <2>4. ~raced => BoxLeads'
    <3> SUFFICES ASSUME ~raced PROVE BoxLeads'
      OBVIOUS
    <3>1. chosen.q = box.draft
      BY <1>1, <2>2 DEF BoxLeads, UrlLeads
    <3> QED
      BY <3>1, <2>1, <2>3 DEF BoxLeads
  <2>5. box'.timer = (box'.draft # box'.written)
    <3>1. box'.timer \in BOOLEAN
      BY <2>1 DEF Box
    <3> QED
      BY <3>1, <2>1
  <2>6. FiltersTypeOK'
    BY <1>1, <2>1, <2>3, <2>5 DEF FiltersTypeOK
  <2> QED
    BY <1>1, <2>1, <2>3, <2>4, <2>6 DEF FiltersInv
<1>4. ASSUME NEW c \in Choice \cup {NoChoice}, ChooseFilter(c) PROVE FiltersInv'
  <2>1. /\ url' \in Query /\ url'.q = url.q /\ url'.filter = c
        /\ chosen' \in Query /\ chosen'.q = chosen.q /\ chosen'.filter = c
    BY <1>1, <1>4 DEF ChooseFilter, Changed, Query
  <2> QED
    BY <1>1, <1>4, <2>1 DEF ChooseFilter, FiltersInv, FiltersTypeOK, BoxLeads, UrlLeads
<1>5. ASSUME NEW query \in Query, ChangeOutside(query) PROVE FiltersInv'
  BY <1>1, <1>5
     DEF ChangeOutside, Unsettled, FiltersInv, FiltersTypeOK, BoxLeads, UrlLeads
<1>6. Unfiltered \in Query
  BY DEF Unfiltered, Query, Terms
<1>7. CASE RenderQuery
  <2>1. CASE Adopts(url.q)
    <3>1. box' \in Box /\ box'.draft = url.q /\ box'.written = url.q /\ ~box'.timer
      BY <1>1, <1>7, <2>1 DEF RenderQuery, Box, Query
    <3> QED
      BY <1>1, <1>7, <2>1, <3>1
         DEF RenderQuery, Adopts, FiltersInv, FiltersTypeOK, BoxLeads, UrlLeads
  <2>2. CASE ~Adopts(url.q)
    BY <1>1, <1>7, <2>2
       DEF RenderQuery, Adopts, FiltersInv, FiltersTypeOK, BoxLeads, UrlLeads
  <2> QED
    BY <2>1, <2>2
<1>8. CASE UNCHANGED filterVars
  BY <1>8 DEF filterVars, FiltersInv, FiltersTypeOK, BoxLeads, UrlLeads
<1> QED
  BY <1>2, <1>3, <1>4, <1>5, <1>6, <1>7, <1>8 DEF FiltersNext, ClearFilters

\* However typing, its pause, the filters, links and rendering interleave, once
\* they are over the URL and the box hold what the person typed and chose.
THEOREM ChosenIsShown == FiltersSpec => []FiltersAsChosen
<1>1. FiltersInit => FiltersInv
  <2> SUFFICES ASSUME FiltersInit PROVE FiltersInv
    OBVIOUS
  <2>1. url \in Query /\ url.q \in Terms
    BY DEF FiltersInit, Query
  <2>2. box \in Box /\ box.draft = url.q /\ box.written = url.q /\ ~box.timer
    BY <2>1 DEF FiltersInit, Box
  <2> QED
    BY <2>1, <2>2 DEF FiltersInit, FiltersInv, FiltersTypeOK, BoxLeads
<1>2. FiltersInv => FiltersAsChosen
  <2> SUFFICES ASSUME FiltersInv, ~Unsettled, ~raced PROVE url = chosen /\ box.draft = chosen.q
    BY DEF FiltersAsChosen
  <2>1. BoxLeads /\ box.draft = box.written /\ url \in Query /\ chosen \in Query
    BY DEF FiltersInv, FiltersTypeOK, Unsettled, UrlLeads
  <2> QED
    BY <2>1 DEF BoxLeads, FiltersInv, Query
<1> QED
  BY <1>1, <1>2, FiltersKeep, PTL DEF FiltersSpec

-------------------------------------------------------------------------------
(* WorkspaceContext: the list of workspaces, and the word it is founded on *)

IdList == Seq(Workspace)

\* The tab and the refreshes, as far as their types go without counting
\* (ContextTypeOK bounds the lists too).
IsTab(t) ==
    t \in [user : Account \cup {NoAccount}, page : Pages, listed : IdList, loaded : BOOLEAN,
           current : Workspace \cup {NoWorkspace}, stored : Workspace \cup {NoWorkspace}]
Asking == [by : Account, sequel : Sequel, said : Words \ {"empty"}, list : IdList]

ContextTypes == /\ member \in [Account -> IdList]
                /\ IsTab(tab)
                /\ refresh \subseteq Asking
                /\ lastWord \in Words

\* An empty list that counts as loaded was heard, or could not be.
EmptyIsHeard == tab.loaded /\ tab.listed = << >> => lastWord \in {"empty", "failed"}

ContextInv == ContextTypes /\ EmptyIsHeard

LEMMA BoundedLists == Lists \subseteq IdList
<1> SUFFICES ASSUME NEW s \in Lists PROVE s \in IdList
  OBVIOUS
<1>1. PICK m \in 0..Cardinality(Workspace) : s \in [1..m -> Workspace]
  BY DEF Lists, SeqOf
<1> QED
  BY <1>1, SeqDef DEF IdList

LEMMA OnAList ==
  ASSUME NEW list \in IdList
  PROVE  ToSet(list) \subseteq Workspace /\ (list # << >> => Head(list) \in Workspace)
BY HeadTailProperties, ElementOfSeq, LenProperties DEF ToSet, IdList

LEMMA AppendedList ==
  ASSUME NEW list \in IdList, NEW w \in Workspace
  PROVE  Append(list, w) \in IdList /\ ToSet(Append(list, w)) = ToSet(list) \cup {w}
<1>1. /\ Append(list, w) \in Seq(Workspace)
      /\ Len(Append(list, w)) = Len(list) + 1
      /\ \A i \in 1..Len(list) : Append(list, w)[i] = list[i]
      /\ Append(list, w)[Len(list) + 1] = w
  BY AppendProperties DEF IdList
<1>2. /\ Len(list) \in Nat /\ DOMAIN list = 1..Len(list)
      /\ DOMAIN Append(list, w) = 1..Len(list) + 1
  BY <1>1, LenProperties DEF IdList
<1>3. ToSet(Append(list, w)) = ToSet(list) \cup {w}
  BY <1>1, <1>2 DEF ToSet
<1> QED
  BY <1>1, <1>3 DEF IdList

LEMMA ShortenedList ==
  ASSUME NEW list \in IdList, NEW w \in Workspace
  PROVE  Without(list, w) \in IdList
<1>1. CASE w \notin ToSet(list)
  BY <1>1 DEF Without
<1>2. CASE w \in ToSet(list)
  <2> DEFINE i == CHOOSE i \in DOMAIN list : list[i] = w
  <2>1. i \in DOMAIN list
    BY <1>2 DEF ToSet
  <2>2. /\ i \in 1..Len(list) /\ Len(list) \in Nat
        /\ \A k \in 1..Len(list) : list[k] \in Workspace
    BY <2>1, LenProperties, ElementOfSeq DEF IdList
  <2> HIDE DEF i
  <2>3. SubSeq(list, 1, i - 1) \in Seq(Workspace)
    BY <2>2, SubSeqProperties
  <2>4. SubSeq(list, i + 1, Len(list)) \in Seq(Workspace)
    BY <2>2, SubSeqProperties
  <2>5. RemoveAt(list, i) \in IdList
    BY <2>3, <2>4, ConcatProperties DEF RemoveAt, IdList
  <2> QED
    BY <1>2, <2>5 DEF Without, i
<1> QED
  BY <1>1, <1>2

LEMMA TabEmptied ==
  ASSUME NEW t, IsTab(t)
  PROVE  IsTab(Emptied(t)) /\ ~Emptied(t).loaded /\ Emptied(t).user = t.user
         /\ Emptied(t).page = t.page
<1>1. << >> \in IdList
  BY EmptySeq DEF IdList
<1> QED
  BY <1>1 DEF Emptied, IsTab

LEMMA TabSwitched ==
  ASSUME NEW t, IsTab(t), NEW w \in Workspace
  PROVE  /\ IsTab(Switched(t, w)) /\ Switched(t, w).user = t.user
         /\ Switched(t, w).page = t.page /\ Switched(t, w).listed = t.listed
         /\ Switched(t, w).loaded = t.loaded /\ Switched(t, w).current = w
BY DEF Switched, IsTab

LEMMA TabTaken ==
  ASSUME NEW t, IsTab(t), NEW list \in IdList
  PROVE  /\ IsTab(Taken(t, list)) /\ Taken(t, list).user = t.user
         /\ Taken(t, list).page = t.page /\ Taken(t, list).listed = list
         /\ Taken(t, list).loaded = t.loaded
<1> DEFINE preferred == IF t.current # NoWorkspace THEN t.current ELSE t.stored
           next == IF preferred \in ToSet(list) THEN preferred
                   ELSE IF list = << >> THEN NoWorkspace ELSE Head(list)
<1>1. next \in Workspace \cup {NoWorkspace}
  BY OnAList
<1>2. Taken(t, list) = [t EXCEPT !.listed = list, !.current = next, !.stored = next]
  BY DEF Taken
<1> HIDE DEF next
<1> QED
  BY <1>1, <1>2 DEF IsTab

LEMMA TabFollowed ==
  ASSUME NEW t, IsTab(t), NEW r \in Asking
  PROVE  /\ IsTab(Followed(t, r)) /\ Followed(t, r).user = t.user
         /\ Followed(t, r).listed = t.listed /\ Followed(t, r).loaded = t.loaded
         /\ Followed(t, r).page = "first" =>
                t.page = "first" \/ (r.sequel.go = "answer" /\ r.list = << >>)
<1> DEFINE u == IF r.sequel.to = NoWorkspace THEN t ELSE Switched(t, r.sequel.to)
           p == CASE r.sequel.go = "stay" -> u.page
                  [] r.sequel.go = "answer" /\ r.list = << >> -> "first"
                  [] OTHER -> "shell"
           q == IF u.user = NoAccount THEN "signin" ELSE p
<1>1. /\ IsTab(u) /\ u.user = t.user /\ u.page = t.page
      /\ u.listed = t.listed /\ u.loaded = t.loaded
  <2>1. r.sequel.to = NoWorkspace \/ r.sequel.to \in Workspace
    BY DEF Asking, Sequel
  <2> QED
    BY <2>1, TabSwitched
<1>2. Followed(t, r) = [u EXCEPT !.page = q]
  BY DEF Followed
<1> HIDE DEF u
<1>3. q \in Pages
  BY <1>1 DEF Pages, IsTab
<1>4. q = "first" => u.page = "first" \/ (r.sequel.go = "answer" /\ r.list = << >>)
  BY <1>1
<1> HIDE DEF q
<1> QED
  BY <1>1, <1>2, <1>3, <1>4 DEF IsTab

LEMMA Awaited ==
  ASSUME ContextTypes, NEW a \in Account, NEW s \in Sequel, Await(Asked(a, s))
  PROVE  refresh' \subseteq Asking
<1>1. << >> \in IdList
  BY EmptySeq DEF IdList
<1>2. Asked(a, s) \in Asking
  BY <1>1 DEF Asked, Asking, Words
<1> QED
  BY <1>2 DEF Await, ContextTypes

LEMMA ContextStart == ContextInit => ContextInv
<1> SUFFICES ASSUME ContextInit PROVE ContextInv
  OBVIOUS
<1>1. << >> \in IdList
  BY EmptySeq DEF IdList
<1>2. IsTab(tab) /\ ~tab.loaded
  BY <1>1 DEF ContextInit, TabSignedOut, IsTab, Pages
<1>3. member \in [Account -> IdList]
  BY BoundedLists DEF ContextInit
<1> QED
  BY <1>2, <1>3 DEF ContextInit, ContextInv, ContextTypes, EmptyIsHeard, Words

LEMMA SessionKeeps == ASSUME ContextInv, SessionStep PROVE ContextInv'
<1>1. ContextTypes /\ EmptyIsHeard /\ IsTab(tab) /\ << >> \in IdList
  BY EmptySeq DEF ContextInv, ContextTypes, IdList
<1>2. Stay \in Sequel
  BY DEF Stay, Sequel
<1>3. ASSUME NEW a \in Account, NEW p \in Pages, SignInTab(a, p) PROVE ContextInv'
  <2>1. /\ IsTab(tab') /\ tab'.loaded = tab.loaded /\ tab'.listed = tab.listed
    BY <1>1, <1>3 DEF SignInTab, IsTab
  <2>2. refresh' \subseteq Asking
    BY <1>1, <1>2, <1>3, Awaited DEF SignInTab
  <2> QED
    BY <1>1, <1>3, <2>1, <2>2 DEF SignInTab, ContextInv, ContextTypes, EmptyIsHeard
<1>4. CASE SignOutTab
  <2> DEFINE t == [tab EXCEPT !.user = NoAccount, !.page = "signin"]
  <2>1. IsTab(t)
    BY <1>1 DEF IsTab, Pages
  <2>2. tab' = Emptied(t)
    BY <1>4 DEF SignOutTab
  <2> HIDE DEF t
  <2>3. IsTab(tab') /\ ~tab'.loaded
    BY <2>1, <2>2, TabEmptied
  <2> QED
    BY <1>1, <1>4, <2>3 DEF SignOutTab, ContextInv, ContextTypes, EmptyIsHeard, Words
<1>5. CASE ReloadTab
  <2>1. IsTab(tab') /\ ~tab'.loaded
    BY <1>1, <1>5, TabEmptied DEF ReloadTab
  <2>2. Asked(tab.user, Stay) \in Asking
    BY <1>1, <1>2, <1>5 DEF ReloadTab, SignedIn, IsTab, Asked, Asking, Words
  <2> QED
    BY <1>1, <1>5, <2>1, <2>2 DEF ReloadTab, ContextInv, ContextTypes, EmptyIsHeard, Words
<1> QED
  BY <1>3, <1>4, <1>5 DEF SessionStep, SignInTabs

LEMMA ReadKeeps == ASSUME ContextInv, NEW r \in refresh, ReadList(r) PROVE ContextInv'
<1>1. r \in Asking /\ member \in [Account -> IdList] /\ << >> \in IdList
  BY EmptySeq DEF ContextInv, ContextTypes, IdList
<1>2. PICK said \in {"listed", "failed"} :
        refresh' = (refresh \ {r}) \cup
          {[r EXCEPT !.said = said, !.list = IF said = "listed" THEN member[r.by] ELSE << >>]}
  BY DEF ReadList
<1> DEFINE answer == IF said = "listed" THEN member[r.by] ELSE << >>
<1>3. answer \in IdList
  BY <1>1 DEF Asking
<1>4. refresh' = (refresh \ {r}) \cup {[r EXCEPT !.said = said, !.list = answer]}
  BY <1>2
<1> HIDE DEF answer
<1>5. [r EXCEPT !.said = said, !.list = answer] \in Asking
  BY <1>1, <1>3 DEF Asking, Words
<1> QED
  BY <1>4, <1>5 DEF ReadList, ContextInv, ContextTypes, EmptyIsHeard

\* An answer: what it leaves of the tab.
LEMMA AnswerTakes ==
  ASSUME ContextInv, NEW r \in refresh, ListArrives(r)
  PROVE  /\ IsTab(tab') /\ tab'.loaded /\ tab'.user = tab.user
         /\ r.said = "listed" => tab'.listed = r.list
         /\ tab'.page = "first" =>
                tab.page = "first" \/ (r.sequel.go = "answer" /\ r.list = << >>)
         /\ lastWord' \in Words
<1>1. r \in Asking /\ IsTab(tab)
  BY DEF ContextInv, ContextTypes
<1> DEFINE t == IF r.said = "listed" THEN Taken(tab, r.list) ELSE tab
           u == [t EXCEPT !.loaded = TRUE]
<1>2. /\ IsTab(t) /\ t.user = tab.user /\ t.page = tab.page
      /\ r.said = "listed" => t.listed = r.list
  BY <1>1, TabTaken DEF Asking
<1>3. tab' = Followed(u, r)
  BY DEF ListArrives
<1> HIDE DEF t
<1>4. IsTab(u) /\ u.user = t.user /\ u.page = t.page /\ u.listed = t.listed /\ u.loaded
  BY <1>2 DEF IsTab
<1> HIDE DEF u
<1>5. lastWord' \in Words
  BY <1>1 DEF ListArrives, Asking, Words
<1> QED
  BY <1>1, <1>2, <1>3, <1>4, <1>5, TabFollowed

LEMMA ArrivalKeeps == ASSUME ContextInv, NEW r \in refresh, ListArrives(r) PROVE ContextInv'
<1>1. r.said \in {"listed", "failed"}
  BY DEF ListArrives, ContextInv, ContextTypes, Asking, Words
<1>2. /\ lastWord' = IF r.said = "listed" /\ r.list = << >> THEN "empty" ELSE r.said
      /\ refresh' = refresh \ {r} /\ UNCHANGED member
  BY DEF ListArrives
<1>3. /\ IsTab(tab')
      /\ r.said = "listed" => tab'.listed = r.list
      /\ lastWord' \in Words
  BY AnswerTakes
<1> QED
  BY <1>1, <1>2, <1>3 DEF ContextInv, ContextTypes, EmptyIsHeard

LEMMA PlaceKeeps == ASSUME ContextInv, PlaceStep PROVE ContextInv'
<1>1. /\ ContextTypes /\ EmptyIsHeard /\ IsTab(tab)
      /\ member \in [Account -> IdList] /\ refresh \subseteq Asking /\ lastWord \in Words
  BY DEF ContextInv, ContextTypes
<1>2. ASSUME NEW w \in Workspace, SwitchWorkspace(w) PROVE ContextInv'
  <2>1. IsTab(tab') /\ tab'.loaded = tab.loaded /\ tab'.listed = tab.listed
    BY <1>1, <1>2, TabSwitched DEF SwitchWorkspace
  <2> QED
    BY <1>1, <1>2, <2>1 DEF SwitchWorkspace, ContextInv, ContextTypes, EmptyIsHeard
<1>3. ASSUME NEW w \in Workspace, AcceptHere(w) PROVE ContextInv'
  <2>1. tab.user \in Account
    BY <1>1, <1>3 DEF AcceptHere, SignedIn, IsTab
  <2>2. Joined(tab.user, w) \in IdList
    BY <1>1, <2>1, AppendedList DEF Joined
  <2>3. member' \in [Account -> IdList]
    BY <1>1, <1>3, <2>1, <2>2 DEF AcceptHere
  <2> DEFINE s == [go |-> IF tab.page = "shell" THEN "stay" ELSE "shell", to |-> w]
  <2>4. s \in Sequel
    BY DEF Sequel
  <2>5. Await(Asked(tab.user, s))
    BY <1>3 DEF AcceptHere
  <2> HIDE DEF s
  <2>6. refresh' \subseteq Asking
    BY <1>1, <2>1, <2>4, <2>5, Awaited
  <2> QED
    BY <1>1, <1>3, <2>3, <2>6 DEF AcceptHere, ContextInv, ContextTypes, EmptyIsHeard
<1>4. ASSUME NEW go \in {"shell", "answer"}, LeaveOrDelete(go) PROVE ContextInv'
  <2>1. tab.user \in Account /\ ActiveWorkspace \in ToSet(member[tab.user])
    BY <1>1, <1>4 DEF LeaveOrDelete, Opened, SignedIn, IsTab
  <2>2. ActiveWorkspace \in Workspace
    BY <1>1, <2>1, OnAList
  <2>3. Left(tab.user, ActiveWorkspace) \in IdList
    BY <1>1, <2>1, <2>2, ShortenedList DEF Left
  <2>4. member' \in [Account -> IdList]
    BY <1>1, <1>4, <2>1, <2>3 DEF LeaveOrDelete
  <2>5. [go |-> go, to |-> NoWorkspace] \in Sequel
    BY DEF Sequel
  <2>6. refresh' \subseteq Asking
    BY <1>1, <1>4, <2>1, <2>5, Awaited DEF LeaveOrDelete
  <2> QED
    BY <1>1, <1>4, <2>4, <2>6 DEF LeaveOrDelete, ContextInv, ContextTypes, EmptyIsHeard
<1>5. ASSUME NEW p \in Pages, Visit(p) PROVE ContextInv'
  <2>1. IsTab(tab') /\ tab'.loaded = tab.loaded /\ tab'.listed = tab.listed
    BY <1>1, <1>5 DEF Visit, IsTab
  <2> QED
    BY <1>1, <1>5, <2>1 DEF Visit, ContextInv, ContextTypes, EmptyIsHeard
<1>6. CASE ManageMembers
  <2>1. tab.user \in Account /\ Stay \in Sequel
    BY <1>1, <1>6 DEF ManageMembers, Opened, SignedIn, IsTab, Stay, Sequel
  <2>2. refresh' \subseteq Asking
    BY <1>1, <1>6, <2>1, Awaited DEF ManageMembers
  <2> QED
    BY <1>1, <1>6, <2>2 DEF ManageMembers, ContextInv, ContextTypes, EmptyIsHeard
<1>7. CASE GoToOnboarding
  <2>1. IsTab(tab') /\ tab'.loaded = tab.loaded /\ tab'.listed = tab.listed
    BY <1>1, <1>7 DEF GoToOnboarding, IsTab, Pages
  <2> QED
    BY <1>1, <1>7, <2>1 DEF GoToOnboarding, ContextInv, ContextTypes, EmptyIsHeard
<1> QED
  BY <1>2, <1>3, <1>4, <1>5, <1>6, <1>7 DEF PlaceStep

LEMMA ElsewhereKeeps == ASSUME ContextInv, ElsewhereStep PROVE ContextInv'
<1>1. PICK a \in Account, w \in Workspace : ChangedElsewhere(a, w)
  BY DEF ElsewhereStep
<1>2. member[a] \in IdList /\ member \in [Account -> IdList]
  BY DEF ContextInv, ContextTypes
<1> DEFINE list == IF w \in ToSet(member[a]) THEN Left(a, w) ELSE Joined(a, w)
<1>3. list \in IdList
  BY <1>2, ShortenedList, AppendedList DEF Left, Joined
<1>4. member' = [member EXCEPT ![a] = list]
  BY <1>1 DEF ChangedElsewhere
<1> HIDE DEF list
<1>5. member' \in [Account -> IdList]
  BY <1>2, <1>3, <1>4
<1> QED
  BY <1>1, <1>5 DEF ChangedElsewhere, ContextInv, ContextTypes, EmptyIsHeard

LEMMA ContextKeeps == ContextInv /\ [ContextNext]_contextVars => ContextInv'
<1>1. ASSUME ContextInv, UNCHANGED contextVars PROVE ContextInv'
  BY <1>1 DEF contextVars, ContextInv, ContextTypes, EmptyIsHeard
<1> QED
  BY <1>1, SessionKeeps, ReadKeeps, ArrivalKeeps, PlaceKeeps, ElsewhereKeeps
     DEF ContextNext, RefreshStep

\* A person lands in onboarding by an empty list or by a failed answer, in
\* whatever order refreshes answer and people join and leave meanwhile.
THEOREM OnboardingIsFounded == ContextSpec => BouncedOnlyOnWord
<1>1. ASSUME ContextInv, [ContextNext]_contextVars
      PROVE  tab.page = "shell" /\ tab'.page = "first" => lastWord' \in {"empty", "failed"}
  <2> SUFFICES ASSUME tab.page = "shell", tab'.page = "first"
               PROVE  lastWord' \in {"empty", "failed"}
    OBVIOUS
  <2>1. IsTab(tab) /\ EmptyIsHeard
    BY <1>1 DEF ContextInv, ContextTypes
  <2>2. ~UNCHANGED contextVars
    BY DEF contextVars
  <2>3. ~SessionStep
    <3>1. ASSUME NEW a \in Account, NEW p \in Pages, SignInTab(a, p) PROVE FALSE
      BY <2>1, <3>1 DEF SignInTab, IsTab
    <3>2. ~SignOutTab
      <4> DEFINE t == [tab EXCEPT !.user = NoAccount, !.page = "signin"]
      <4>1. IsTab(t) /\ t.page = "signin"
        BY <2>1 DEF IsTab, Pages
      <4> HIDE DEF t
      <4>2. SignOutTab => tab' = Emptied(t)
        BY DEF SignOutTab, t
      <4> QED
        BY <4>1, <4>2, TabEmptied
    <3>3. ~ReloadTab
      BY <2>1, TabEmptied DEF ReloadTab
    <3> QED
      BY <3>1, <3>2, <3>3 DEF SessionStep, SignInTabs
  <2>4. ASSUME PlaceStep PROVE GoToOnboarding
    <3>1. ASSUME NEW p \in Pages, Visit(p) PROVE FALSE
      BY <2>1, <3>1 DEF Visit, IsTab
    <3>2. ASSUME NEW w \in Workspace, SwitchWorkspace(w) \/ AcceptHere(w) PROVE FALSE
      BY <2>1, <3>2, TabSwitched DEF SwitchWorkspace, AcceptHere
    <3> QED
      BY <2>4, <3>1, <3>2 DEF PlaceStep, LeaveOrDelete, ManageMembers
  <2>5. ASSUME GoToOnboarding PROVE lastWord' \in {"empty", "failed"}
    BY <2>1, <2>5 DEF GoToOnboarding, EmptyIsHeard
  <2>6. ASSUME NEW r \in refresh, ReadList(r) \/ ListArrives(r)
        PROVE  lastWord' \in {"empty", "failed"}
    <3>1. ListArrives(r)
      BY <2>6 DEF ReadList
    <3>2. r.list = << >> /\ r.said \in {"listed", "failed"}
      BY <1>1, <3>1, AnswerTakes DEF ListArrives, ContextInv, ContextTypes, Asking, Words
    <3> QED
      BY <3>1, <3>2 DEF ListArrives
  <2>7. ~ElsewhereStep
    BY DEF ElsewhereStep, ChangedElsewhere
  <2> QED
    BY <1>1, <2>2, <2>3, <2>4, <2>5, <2>6, <2>7 DEF ContextNext, RefreshStep
<1> QED
  BY <1>1, ContextStart, ContextKeeps, PTL DEF ContextSpec, BouncedOnlyOnWord

-------------------------------------------------------------------------------
(* Onboarding: a setup creates one workspace *)

SetupTypes == /\ draft \in [Modes -> SetupProgress]
              /\ flow \in Flow
              /\ creating \subseteq Creation
              /\ made \in [Modes -> Workspace \cup {NoWorkspace}]

\* The page has looked at the saved progress, or waits for a creation it asked
\* for, only while it is open.
PageIsOpen == /\ flow.ready => InSetup /\ tab.loaded
              /\ \A c \in creating : c.from = "here" => InSetup /\ tab.loaded /\ c.mode = tab.page
              /\ ~flow.ready => flow.progress.workspace = NoWorkspace

\* The workspace a setup was told of is the one its saved progress names.
MadeIsKept == \A m \in Modes : made[m] # NoWorkspace => draft[m].workspace = made[m]

\* An open page knows the saved workspace, if the list has it, and no other.
PageKnowsDraft ==
    flow.ready =>
        /\ flow.progress.workspace \in {NoWorkspace, draft[tab.page].workspace}
        /\ draft[tab.page].workspace \in ToSet(tab.listed) =>
               flow.progress.workspace = draft[tab.page].workspace

\* What a creation made is known by its id.
AnswersName == \A c \in creating : c.said = "made" => c.made \in Workspace

SetupInv == ContextInv /\ SetupTypes /\ AnswersName /\ PageIsOpen /\ MadeIsKept /\ PageKnowsDraft

LEMMA NewSetup == AtStart \in SetupProgress /\ AtStart.workspace = NoWorkspace
                  /\ NewFlow \in Flow /\ ~NewFlow.ready /\ NewFlow.progress = AtStart
BY DEF AtStart, SetupProgress, NewFlow, Flow

LEMMA ResumedFlow ==
  ASSUME NEW f \in Flow, NEW list, NEW saved \in SetupProgress
  PROVE  /\ Resumed(f, list, saved) \in Flow /\ Resumed(f, list, saved).ready
         /\ saved.workspace \in ToSet(list) => Resumed(f, list, saved).progress = saved
         /\ saved.workspace \notin ToSet(list) => Resumed(f, list, saved).progress = f.progress
BY DEF Resumed, Flow

LEMMA CallsMoved ==
  ASSUME creating \subseteq Creation
  PROVE  /\ Moved(creating) \subseteq Creation /\ Gone(creating) \subseteq Creation
         /\ \A c \in Moved(creating) \cup Gone(creating) : c.from # "here"
         /\ AnswersName => \A c \in Moved(creating) \cup Gone(creating) :
                               c.said = "made" => c.made \in Workspace
BY DEF Moved, Gone, Creation, AnswersName

LEMMA SetupStart == SetupInit => SetupInv
BY ContextStart, NewSetup
   DEF SetupInit, SetupInv, SetupTypes, AnswersName, PageIsOpen, MadeIsKept, PageKnowsDraft

\* Whoever is on the setup page stays there only signed in as the same person.
LEMMA PersonStays ==
  ASSUME ContextInv, SignInTabs \/ SignOutTab \/ RefreshStep \/ PlaceStep \/ ElsewhereStep,
         SignedIn, tab.page \in Modes, tab'.page = tab.page
  PROVE  tab'.user = tab.user
<1>1. IsTab(tab)
  BY DEF ContextInv, ContextTypes
<1>2. ~SignInTabs
  BY DEF SignInTabs, SignInTab
<1>3. ~SignOutTab
  <2> DEFINE t == [tab EXCEPT !.user = NoAccount, !.page = "signin"]
  <2>1. IsTab(t) /\ t.page = "signin"
    BY <1>1 DEF IsTab, Pages
  <2> HIDE DEF t
  <2>2. SignOutTab => tab' = Emptied(t)
    BY DEF SignOutTab, t
  <2> QED
    BY <2>1, <2>2, TabEmptied DEF Modes
<1>4. RefreshStep => tab'.user = tab.user
  BY AnswerTakes DEF RefreshStep, ReadList
<1>5. PlaceStep => tab'.user = tab.user
  <2>1. ASSUME NEW w \in Workspace, SwitchWorkspace(w) PROVE tab'.user = tab.user
    BY <1>1, <2>1, TabSwitched DEF SwitchWorkspace
  <2>2. ASSUME NEW p \in Pages, Visit(p) PROVE tab'.user = tab.user
    BY <1>1, <2>2 DEF Visit, IsTab
  <2>3. GoToOnboarding => tab'.user = tab.user
    BY <1>1 DEF GoToOnboarding, IsTab
  <2> QED
    BY <2>1, <2>2, <2>3 DEF PlaceStep, AcceptHere, LeaveOrDelete, ManageMembers
<1>6. ElsewhereStep => tab'.user = tab.user
  BY DEF ElsewhereStep, ChangedElsewhere
<1> QED
  BY <1>2, <1>3, <1>4, <1>5, <1>6

\* The setup page follows a step of the context.
LEMMA FollowingKeeps ==
  ASSUME SetupInv, ContextInv', SetupFollows,
         \/ UNCHANGED <<draft, made>>
         \/ /\ draft' = [m \in Modes |-> AtStart] /\ made' = [m \in Modes |-> NoWorkspace]
            /\ tab'.page = "signin",
         SignedIn /\ tab.page \in Modes /\ tab'.page = tab.page => tab'.user = tab.user
  PROVE  SetupInv'
<1> DEFINE opened == tab'.page # tab.page \/ (tab.loaded /\ ~tab'.loaded)
           live == tab'.page \in Modes /\ tab'.user # NoAccount /\ tab'.loaded
           f == IF opened THEN NewFlow ELSE flow
<1>1. SetupTypes /\ PageIsOpen /\ MadeIsKept /\ PageKnowsDraft
  BY DEF SetupInv
<1>2. draft' \in [Modes -> SetupProgress] /\ made' \in [Modes -> Workspace \cup {NoWorkspace}]
      /\ MadeIsKept'
  <2>1. CASE UNCHANGED <<draft, made>>
    BY <1>1, <2>1 DEF SetupTypes, MadeIsKept
  <2>2. CASE draft' = [m \in Modes |-> AtStart] /\ made' = [m \in Modes |-> NoWorkspace]
    BY <2>2, NewSetup DEF MadeIsKept
  <2> QED
    BY <2>1, <2>2
<1>3. f \in Flow /\ (~f.ready => f.progress.workspace = NoWorkspace)
  BY <1>1, NewSetup DEF SetupTypes, PageIsOpen
<1>4. f.ready => ~opened /\ f = flow /\ live /\ InSetup /\ tab'.page = tab.page
  <2> SUFFICES ASSUME f.ready PROVE ~opened /\ live /\ InSetup
    OBVIOUS
  <2>1. ~opened /\ flow.ready
    BY NewSetup
  <2>2. InSetup /\ tab.loaded
    BY <1>1, <2>1 DEF PageIsOpen
  <2> QED
    BY <2>1, <2>2 DEF InSetup, SignedIn
<1>5. flow' = IF live THEN Resumed(f, tab'.listed, draft'[tab'.page]) ELSE f
  BY DEF SetupFollows
<1>6. creating' = IF opened THEN Moved(creating) ELSE creating
  BY DEF SetupFollows
<1>7. creating' \subseteq Creation /\ AnswersName'
  BY <1>1, <1>6, CallsMoved DEF SetupTypes, SetupInv, AnswersName
<1>8. \A c \in creating' : c.from = "here" => (InSetup /\ tab.loaded)' /\ c.mode = tab'.page
  <2>1. CASE opened
    BY <1>1, <1>6, <2>1, CallsMoved DEF SetupTypes
  <2>2. CASE ~opened
    <3> SUFFICES ASSUME NEW c \in creating, c.from = "here"
                 PROVE  (InSetup /\ tab.loaded)' /\ c.mode = tab'.page
      BY <1>6, <2>2
    <3>1. InSetup /\ tab.loaded /\ c.mode = tab.page
      BY <1>1 DEF PageIsOpen
    <3> QED
      BY <2>2, <3>1 DEF InSetup, SignedIn
  <2> QED
    BY <2>1, <2>2
<1>9. CASE live
  <2>1. draft'[tab'.page] \in SetupProgress
    BY <1>2, <1>9
  <2>2. /\ flow' \in Flow /\ flow'.ready
        /\ draft'[tab'.page].workspace \in ToSet(tab'.listed) => flow'.progress = draft'[tab'.page]
        /\ draft'[tab'.page].workspace \notin ToSet(tab'.listed) => flow'.progress = f.progress
    BY <1>3, <1>5, <1>9, <2>1, ResumedFlow
  <2>3. (InSetup /\ tab.loaded)'
    BY <1>9 DEF InSetup, SignedIn
  <2>4. f.progress.workspace \in {NoWorkspace, draft'[tab'.page].workspace}
    <3>1. CASE ~f.ready
      BY <1>3, <3>1
    <3>2. CASE f.ready
      <4>1. f = flow /\ tab'.page = tab.page /\ tab.page \in Modes
        BY <1>4, <3>2 DEF InSetup
      <4>2. UNCHANGED draft
        BY <4>1 DEF Modes
      <4>3. flow.progress.workspace \in {NoWorkspace, draft[tab.page].workspace}
        BY <1>1, <3>2, <4>1 DEF PageKnowsDraft
      <4> QED
        BY <4>1, <4>2, <4>3
    <3> QED
      BY <3>1, <3>2
  <2> HIDE DEF f, live, opened
  <2>5. PageIsOpen'
    BY <1>8, <2>2, <2>3 DEF PageIsOpen
  <2>6. PageKnowsDraft'
    BY <2>2, <2>4 DEF PageKnowsDraft
  <2> QED
    BY <1>2, <1>7, <2>2, <2>5, <2>6 DEF SetupInv, SetupTypes
<1>10. CASE ~live
  <2>1. flow' = f /\ ~f.ready
    BY <1>4, <1>5, <1>10
  <2> HIDE DEF f, live, opened
  <2> QED
    BY <1>2, <1>3, <1>7, <1>8, <2>1
       DEF SetupInv, SetupTypes, PageIsOpen, PageKnowsDraft
<1> QED
  BY <1>9, <1>10

LEMMA MovingOnKeeps == ASSUME SetupInv, ContextMovesOn PROVE SetupInv'
<1>1. ContextInv
  BY DEF SetupInv
<1>2. CASE ContextChanges
  <2>1. ContextInv'
    BY <1>1, <1>2, ContextKeeps DEF ContextChanges, ContextNext, SessionStep
  <2>2. SignedIn /\ tab.page \in Modes /\ tab'.page = tab.page => tab'.user = tab.user
    BY <1>1, <1>2, PersonStays DEF ContextChanges
  <2> QED
    BY <1>2, <2>1, <2>2, FollowingKeeps DEF ContextChanges
<1>3. CASE Leaves
  <2>1. ContextInv'
    BY <1>1, <1>3, ContextKeeps DEF Leaves, ContextNext, SessionStep
  <2>2. tab'.page = "signin"
    <3> DEFINE t == [tab EXCEPT !.user = NoAccount, !.page = "signin"]
    <3>1. IsTab(t) /\ t.page = "signin"
      BY <1>1 DEF IsTab, Pages, ContextInv, ContextTypes
    <3> HIDE DEF t
    <3>2. tab' = Emptied(t)
      BY <1>3 DEF Leaves, SignOutTab, t
    <3> QED
      BY <3>1, <3>2, TabEmptied
  <2>3. SignedIn /\ tab.page \in Modes /\ tab'.page = tab.page => tab'.user = tab.user
    BY <2>2 DEF Modes
  <2> QED
    BY <1>3, <2>1, <2>2, <2>3, FollowingKeeps DEF Leaves
<1>4. CASE Reloads
  <2>1. ContextInv'
    BY <1>1, <1>4, ContextKeeps DEF Reloads, ContextNext, SessionStep
  <2>2. SetupTypes /\ MadeIsKept
    BY DEF SetupInv
  <2>3. /\ flow' = NewFlow /\ creating' = Gone(creating) /\ UNCHANGED <<draft, made>>
        /\ creating \subseteq Creation
    BY <1>4, <2>2 DEF Reloads, SetupTypes
  <2> QED
    BY <2>1, <2>2, <2>3, NewSetup, CallsMoved
       DEF SetupInv, SetupTypes, AnswersName, MadeIsKept, PageIsOpen, PageKnowsDraft
<1> QED
  BY <1>2, <1>3, <1>4 DEF ContextMovesOn

\* A page that shows new progress of its workspace keeps it.
LEMMA ProgressKept ==
  ASSUME SetupInv, InSetup, flow.ready, NEW p \in SetupProgress, GoTo(tab.page, p),
         p.workspace # NoWorkspace, p.workspace = flow.progress.workspace,
         UNCHANGED <<contextVars, creating, made>>
  PROVE  SetupInv'
<1>1. SetupTypes /\ PageIsOpen /\ MadeIsKept /\ PageKnowsDraft /\ tab.page \in Modes
  BY DEF SetupInv, InSetup
<1>2. UNCHANGED <<member, tab, refresh, lastWord>>
  BY DEF contextVars
<1>3. ContextInv'
  BY <1>2 DEF SetupInv, ContextInv, ContextTypes, EmptyIsHeard
<1>4. flow' \in Flow /\ flow'.ready /\ flow'.progress = p
  BY <1>1 DEF GoTo, Flow, SetupTypes
<1>5. /\ draft' \in [Modes -> SetupProgress] /\ draft'[tab.page] = p
      /\ \A m \in Modes \ {tab.page} : draft'[m] = draft[m]
  BY <1>1 DEF GoTo, SetupTypes
<1>6. p.workspace = draft[tab.page].workspace
  BY <1>1 DEF PageKnowsDraft
<1>7. \A m \in Modes : draft'[m].workspace = draft[m].workspace
  BY <1>5, <1>6
<1>8. MadeIsKept'
  BY <1>1, <1>7 DEF MadeIsKept
<1>9. PageIsOpen'
  BY <1>1, <1>2, <1>4 DEF PageIsOpen, InSetup, SignedIn
<1>10. PageKnowsDraft'
  BY <1>2, <1>4, <1>5 DEF PageKnowsDraft
<1>11. SetupTypes'
  BY <1>1, <1>4, <1>5 DEF SetupTypes
<1> QED
  BY <1>3, <1>8, <1>9, <1>10, <1>11 DEF SetupInv, AnswersName

LEMMA RenameKeeps == ASSUME SetupInv, RenameAndGoOn PROVE SetupInv'
<1>1. OwnWorkspace # NoWorkspace /\ OwnWorkspace = flow.progress.workspace
  BY DEF RenameAndGoOn, OwnWorkspace
<1>2. flow.progress.workspace \in Workspace \cup {NoWorkspace}
  BY DEF SetupInv, SetupTypes, Flow, SetupProgress
<1> DEFINE p == [workspace |-> OwnWorkspace, step |-> 2]
<1>3. p \in SetupProgress /\ p.workspace = OwnWorkspace
  BY <1>1, <1>2 DEF SetupProgress
<1>4. GoTo(tab.page, p)
  BY DEF RenameAndGoOn
<1> HIDE DEF p
<1> QED
  BY <1>1, <1>3, <1>4, ProgressKept DEF RenameAndGoOn

LEMMA TurnKeeps == ASSUME SetupInv, NEW step \in 1..3, TurnTo(step) PROVE SetupInv'
<1>1. flow.progress \in SetupProgress
  BY DEF SetupInv, SetupTypes, Flow
<1> DEFINE p == [flow.progress EXCEPT !.step = step]
<1>2. p \in SetupProgress /\ p.workspace = flow.progress.workspace
  BY <1>1 DEF SetupProgress
<1>3. GoTo(tab.page, p)
  BY DEF TurnTo
<1> HIDE DEF p
<1> QED
  BY <1>2, <1>3, ProgressKept DEF TurnTo

LEMMA AskKeeps == ASSUME SetupInv, AskForWorkspace PROVE SetupInv'
<1>1. UNCHANGED <<member, tab, refresh, lastWord, draft, flow, made>>
  BY DEF AskForWorkspace, contextVars
<1>0. PICK said \in {"profile", "nothing"} :
        creating' = creating \cup {[mode |-> tab.page, by |-> tab.user, from |-> "here",
                                    said |-> said, made |-> NoWorkspace]}
  BY DEF AskForWorkspace
<1>2. tab.user \in Account /\ tab.page \in Modes
  BY DEF AskForWorkspace, InSetup, SignedIn, SetupInv, ContextInv, ContextTypes, IsTab
<1> DEFINE c == [mode |-> tab.page, by |-> tab.user, from |-> "here",
                 said |-> said, made |-> NoWorkspace]
<1>3. c \in Creation /\ c.mode = tab.page /\ c.said # "made"
  BY <1>2 DEF Creation
<1>4. creating' = creating \cup {c}
  BY <1>0
<1> HIDE DEF c
<1>5. InSetup /\ flow.ready /\ tab.loaded
  BY DEF AskForWorkspace, SetupInv, PageIsOpen
<1>6. PageIsOpen'
  BY <1>1, <1>3, <1>4, <1>5 DEF SetupInv, PageIsOpen, InSetup, SignedIn
<1>7. AnswersName'
  BY <1>3, <1>4 DEF SetupInv, AnswersName
<1> QED
  BY <1>1, <1>3, <1>4, <1>6, <1>7
     DEF SetupInv, ContextInv, ContextTypes, EmptyIsHeard, SetupTypes, MadeIsKept, PageKnowsDraft

\* A creation that is sent is the one that waited, from the same place.
LEMMA SentIsAsked ==
  ASSUME creating \subseteq Creation, tab.user \in Account \cup {NoAccount},
         NEW c \in creating, SendCreation(c)
  PROVE  \E d \in Creation : /\ d.from = c.from /\ d.mode = c.mode
                             /\ c.said = "profile" /\ d.said \in {"nothing", "failed"}
                             /\ creating' = (creating \ {c}) \cup {d}
<1>1. c \in Creation
  OBVIOUS
<1>2. CASE SignedIn
  <2>1. PICK d : d = [c EXCEPT !.said = "nothing", !.by = tab.user]
    OBVIOUS
  <2>2. creating' = (creating \ {c}) \cup {d} /\ c.said = "profile"
    BY <1>2, <2>1 DEF SendCreation
  <2>3. d \in Creation /\ d.from = c.from /\ d.mode = c.mode /\ d.said = "nothing"
    BY <1>1, <1>2, <2>1 DEF Creation, SignedIn
  <2> QED
    BY <2>2, <2>3
<1>3. CASE ~SignedIn
  <2>1. PICK d : d = [c EXCEPT !.said = "failed"]
    OBVIOUS
  <2>2. creating' = (creating \ {c}) \cup {d} /\ c.said = "profile"
    BY <1>3, <2>1 DEF SendCreation
  <2>3. d \in Creation /\ d.from = c.from /\ d.mode = c.mode /\ d.said = "failed"
    BY <1>1, <2>1 DEF Creation
  <2> QED
    BY <2>2, <2>3
<1> QED
  BY <1>2, <1>3

LEMMA SendingKeeps == ASSUME SetupInv, NEW c \in creating, SendCreation(c) PROVE SetupInv'
<1>1. UNCHANGED <<member, tab, refresh, lastWord, draft, flow, made>>
  BY DEF SendCreation, contextVars
<1>2. PICK d \in Creation : /\ d.from = c.from /\ d.mode = c.mode /\ d.said # "made"
                           /\ creating' = (creating \ {c}) \cup {d}
  BY SentIsAsked DEF SetupInv, SetupTypes, ContextInv, ContextTypes, IsTab
<1>3. SetupTypes' /\ PageIsOpen' /\ AnswersName'
  BY <1>1, <1>2 DEF SetupInv, SetupTypes, AnswersName, PageIsOpen, InSetup, SignedIn
<1> QED
  BY <1>1, <1>3 DEF SetupInv, ContextInv, ContextTypes, EmptyIsHeard, MadeIsKept, PageKnowsDraft

LEMMA ServeKeeps == ASSUME SetupInv, NEW c \in creating, ServeCreation(c) PROVE SetupInv'
<1>1. UNCHANGED <<tab, refresh, lastWord, draft, flow, made>>
  BY DEF ServeCreation
<1>2. c \in Creation
  BY DEF SetupInv, SetupTypes
<1>3. \E d \in Creation : /\ d.from = c.from /\ d.mode = c.mode
                          /\ d.said = "made" => d.made \in Workspace
                          /\ creating' = (creating \ {c}) \cup {d}
  <2>1. CASE creating' = (creating \ {c}) \cup {[c EXCEPT !.said = "failed"]}
    <3>1. [c EXCEPT !.said = "failed"] \in Creation
          /\ [c EXCEPT !.said = "failed"].from = c.from /\ [c EXCEPT !.said = "failed"].mode = c.mode
          /\ [c EXCEPT !.said = "failed"].said = "failed"
      BY <1>2 DEF Creation
    <3> QED
      BY <2>1, <3>1
  <2>2. ASSUME NEW w \in Workspace, NEW said \in {"made", "failed"},
               creating' = (creating \ {c}) \cup
                   {[c EXCEPT !.said = said, !.made = IF said = "made" THEN w ELSE NoWorkspace]}
        PROVE  \E d \in Creation : /\ d.from = c.from /\ d.mode = c.mode
                                   /\ d.said = "made" => d.made \in Workspace
                                   /\ creating' = (creating \ {c}) \cup {d}
    <3> DEFINE v == IF said = "made" THEN w ELSE NoWorkspace
               d == [c EXCEPT !.said = said, !.made = v]
    <3>1. v \in Workspace \cup {NoWorkspace} /\ (said = "made" => v \in Workspace)
      OBVIOUS
    <3>2. creating' = (creating \ {c}) \cup {d}
      BY <2>2
    <3> HIDE DEF v
    <3>3. /\ d \in Creation /\ d.from = c.from /\ d.mode = c.mode
          /\ d.said = "made" => d.made \in Workspace
      BY <1>2, <3>1 DEF Creation
    <3> QED
      BY <3>2, <3>3
  <2> QED
    BY <2>1, <2>2 DEF ServeCreation
<1>4. member' \in [Account -> IdList]
  <2>1. member \in [Account -> IdList]
    BY DEF SetupInv, ContextInv, ContextTypes
  <2>2. ASSUME NEW w \in Workspace, member' = [member EXCEPT ![c.by] = Append(@, w)]
        PROVE  member' \in [Account -> IdList]
    <3>1. c.by \in Account
      BY <1>2 DEF Creation
    <3>2. Append(member[c.by], w) \in IdList
      BY <2>1, <3>1, AppendedList
    <3> QED
      BY <2>1, <2>2, <3>1, <3>2
  <2> QED
    BY <2>1, <2>2 DEF ServeCreation
<1>5. ContextInv'
  BY <1>1, <1>4 DEF SetupInv, ContextInv, ContextTypes, EmptyIsHeard
<1>6. SetupTypes' /\ PageIsOpen' /\ AnswersName'
  BY <1>1, <1>3 DEF SetupInv, SetupTypes, AnswersName, PageIsOpen, InSetup, SignedIn
<1> QED
  BY <1>1, <1>5, <1>6 DEF SetupInv, MadeIsKept, PageKnowsDraft

\* The page is left, by finishing or because the setup is not for this person.
LEMMA LeavingKeeps ==
  ASSUME SetupInv, ContextInv', flow' = NewFlow, creating' = Moved(creating),
         draft' \in [Modes -> SetupProgress], made' \in [Modes -> Workspace \cup {NoWorkspace}],
         \A m \in Modes : \/ draft'[m] = draft[m] /\ made'[m] = made[m]
                          \/ made'[m] = NoWorkspace
  PROVE  SetupInv'
<1>1. SetupTypes /\ MadeIsKept
  BY DEF SetupInv
<1>2. /\ creating' \subseteq Creation /\ AnswersName'
      /\ \A c \in creating' : c.from # "here"
  BY <1>1, CallsMoved DEF SetupTypes, SetupInv, AnswersName
<1> QED
  BY <1>1, <1>2, NewSetup DEF SetupInv, SetupTypes, MadeIsKept, PageIsOpen, PageKnowsDraft

LEMMA FinishKeeps == ASSUME SetupInv, Finish PROVE SetupInv'
<1>1. IsTab(tab) /\ SetupTypes
  BY DEF SetupInv, ContextInv, ContextTypes
<1>2. flow.progress.workspace \in Workspace \cup {NoWorkspace}
  BY <1>1 DEF SetupTypes, Flow, SetupProgress
<1> DEFINE t == Switched(tab, flow.progress.workspace)
<1>3. IsTab(t) /\ t.listed = tab.listed /\ t.loaded = tab.loaded
  BY <1>1, <1>2 DEF Switched, IsTab
<1>4. tab' = [t EXCEPT !.page = "shell"]
  BY DEF Finish
<1> HIDE DEF t
<1>5. IsTab(tab') /\ tab'.listed = tab.listed /\ tab'.loaded = tab.loaded
  BY <1>3, <1>4 DEF IsTab, Pages
<1>6. ContextInv'
  BY <1>5 DEF Finish, SetupInv, ContextInv, ContextTypes, EmptyIsHeard
<1> QED
  BY <1>1, <1>6, NewSetup, LeavingKeeps DEF Finish, SetupTypes

LEMMA SendHomeKeeps == ASSUME SetupInv, SendHome PROVE SetupInv'
<1>1. IsTab(tab) /\ SetupTypes
  BY DEF SetupInv, ContextInv, ContextTypes
<1>2. IsTab(tab') /\ tab'.listed = tab.listed /\ tab'.loaded = tab.loaded
  BY <1>1 DEF SendHome, IsTab, Pages
<1>3. ContextInv'
  BY <1>2 DEF SendHome, SetupInv, ContextInv, ContextTypes, EmptyIsHeard
<1> QED
  BY <1>1, <1>3, LeavingKeeps DEF SendHome, SetupTypes

\* The answer to a creation that is heard: the list gains the workspace, and
\* the saved progress names it.
LEMMA CreationHeard ==
  ASSUME SetupInv, NEW c \in creating, CreationArrives(c), c.said = "made", c.from # "gone"
  PROVE  SetupInv'
<1> DEFINE p == [workspace |-> c.made, step |-> 2]
<1>1. /\ ContextTypes /\ IsTab(tab) /\ SetupTypes /\ PageIsOpen /\ MadeIsKept /\ PageKnowsDraft
      /\ c.mode \in Modes /\ c.made \in Workspace
  BY DEF SetupInv, AnswersName, ContextInv, ContextTypes, SetupTypes, Creation
<1>2. /\ creating' = creating \ {c} /\ UNCHANGED <<member, refresh, lastWord>>
      /\ tab' = Switched([tab EXCEPT !.listed = Append(Without(@, c.made), c.made)], c.made)
      /\ draft' = [draft EXCEPT ![c.mode] = p]
      /\ made' = [made EXCEPT ![c.mode] = c.made]
  BY DEF CreationArrives, KeepCreated
<1>3. /\ c.from = "here" => flow' = [ready |-> TRUE, progress |-> p]
      /\ c.from = "away" /\ InSetup /\ tab.loaded =>
             flow' = Resumed(flow, tab'.listed, draft'[tab.page])
      /\ c.from = "away" /\ ~(InSetup /\ tab.loaded) => flow' = flow
  BY DEF CreationArrives
<1>4. c.from \in {"here", "away"}
  BY <1>1 DEF SetupTypes, Creation
<1> DEFINE list == Append(Without(tab.listed, c.made), c.made)
<1>5. list \in IdList /\ c.made \in ToSet(list) /\ list # << >>
  <2>1. Without(tab.listed, c.made) \in IdList
    BY <1>1, ShortenedList DEF IsTab
  <2>2. c.made \in Workspace
    BY <1>1
  <2> QED
    BY <2>1, <2>2, AppendedList, AppendProperties DEF IdList
<1>6. tab' = Switched([tab EXCEPT !.listed = list], c.made)
  BY <1>2
<1> HIDE DEF list
<1>7. /\ IsTab(tab') /\ tab'.user = tab.user /\ tab'.page = tab.page
      /\ tab'.loaded = tab.loaded /\ tab'.listed = list
  BY <1>1, <1>5, <1>6 DEF Switched, IsTab
<1>8. ContextInv'
  <2>1. EmptyIsHeard'
    BY <1>5, <1>7 DEF EmptyIsHeard
  <2>2. ContextTypes'
    BY <1>1, <1>2, <1>7 DEF ContextTypes
  <2> QED
    BY <2>1, <2>2 DEF ContextInv
<1>9. p \in SetupProgress /\ p.workspace = c.made
  BY <1>1 DEF SetupProgress
<1> HIDE DEF p
<1>10. /\ draft' \in [Modes -> SetupProgress] /\ draft'[c.mode] = p
       /\ \A m \in Modes \ {c.mode} : draft'[m] = draft[m] /\ made'[m] = made[m]
       /\ made' \in [Modes -> Workspace \cup {NoWorkspace}] /\ made'[c.mode] = c.made
  BY <1>1, <1>2, <1>9 DEF SetupTypes
<1>11. MadeIsKept'
  BY <1>1, <1>9, <1>10 DEF MadeIsKept
<1>12. \A d \in creating' : d.from = "here" => (InSetup /\ tab.loaded)' /\ d.mode = tab'.page
  BY <1>1, <1>2, <1>7 DEF PageIsOpen, InSetup, SignedIn
<1>13. CASE c.from = "here"
  <2>1. InSetup /\ tab.loaded /\ c.mode = tab.page
    BY <1>1, <1>13 DEF PageIsOpen
  <2>2. flow' \in Flow /\ flow'.ready /\ flow'.progress = p
    <3>1. flow' = [ready |-> TRUE, progress |-> p]
      BY <1>3, <1>13
    <3>2. flow'.ready = TRUE /\ flow'.progress = p
      BY <3>1
    <3>3. flow' \in Flow
      BY <1>9, <3>1 DEF Flow
    <3> QED
      BY <3>2, <3>3
  <2>3. PageIsOpen'
    BY <1>7, <1>12, <2>1, <2>2 DEF PageIsOpen, InSetup, SignedIn
  <2>4. PageKnowsDraft'
    BY <1>7, <1>10, <2>1, <2>2 DEF PageKnowsDraft
  <2> QED
    BY <1>1, <1>2, <1>8, <1>10, <1>11, <2>2, <2>3, <2>4 DEF SetupInv, SetupTypes, AnswersName
<1>14. CASE c.from = "away" /\ InSetup /\ tab.loaded
  <2>1. tab.page \in Modes /\ draft'[tab.page] \in SetupProgress /\ flow \in Flow
    BY <1>1, <1>10, <1>14 DEF InSetup, SetupTypes
  <2>2. flow' = Resumed(flow, list, draft'[tab.page])
    BY <1>3, <1>7, <1>14
  <2>3. /\ flow' \in Flow /\ flow'.ready
        /\ draft'[tab.page].workspace \in ToSet(list) => flow'.progress = draft'[tab.page]
        /\ draft'[tab.page].workspace \notin ToSet(list) => flow'.progress = flow.progress
    BY <2>1, <2>2, ResumedFlow
  <2>4. PageIsOpen'
    BY <1>7, <1>12, <1>14, <2>3 DEF PageIsOpen, InSetup, SignedIn
  <2>5. flow.progress.workspace \in {NoWorkspace, draft[tab.page].workspace}
    BY <1>1 DEF PageIsOpen, PageKnowsDraft
  <2>6. c.mode # tab.page => flow.progress.workspace \in {NoWorkspace, draft'[tab.page].workspace}
    BY <1>10, <2>1, <2>5
  <2>7. c.mode = tab.page => draft'[tab.page].workspace \in ToSet(list)
    BY <1>5, <1>9, <1>10
  <2>8. PageKnowsDraft'
    BY <1>7, <2>3, <2>6, <2>7 DEF PageKnowsDraft
  <2> QED
    BY <1>1, <1>2, <1>8, <1>10, <1>11, <2>3, <2>4, <2>8 DEF SetupInv, SetupTypes, AnswersName
<1>15. CASE c.from = "away" /\ ~(InSetup /\ tab.loaded)
  <2>1. flow' = flow /\ ~flow.ready
    BY <1>1, <1>3, <1>15 DEF PageIsOpen
  <2> QED
    BY <1>1, <1>2, <1>8, <1>10, <1>11, <1>12, <2>1
       DEF SetupInv, SetupTypes, AnswersName, PageIsOpen, PageKnowsDraft
<1> QED
  BY <1>4, <1>13, <1>14, <1>15

LEMMA ArrivingKeeps == ASSUME SetupInv, NEW c \in creating, CreationArrives(c) PROVE SetupInv'
<1>1. c.said \in {"made", "failed"}
  BY DEF CreationArrives
<1>2. CASE c.said = "failed" \/ c.from = "gone"
  <2>1. UNCHANGED <<member, refresh, lastWord, tab, draft, flow, made>> /\ creating' = creating \ {c}
    BY <1>2 DEF CreationArrives
  <2> QED
    BY <2>1 DEF SetupInv, ContextInv, ContextTypes, EmptyIsHeard, SetupTypes, AnswersName,
                PageIsOpen, InSetup, SignedIn, MadeIsKept, PageKnowsDraft
<1>3. CASE c.said = "made" /\ c.from # "gone"
  BY <1>3, CreationHeard
<1> QED
  BY <1>1, <1>2, <1>3 DEF CreationArrives

LEMMA SetupKeeps == SetupInv /\ [SetupNext]_<<contextVars, setupVars>> => SetupInv'
<1>1. ASSUME SetupInv, UNCHANGED <<contextVars, setupVars>> PROVE SetupInv'
  BY <1>1 DEF contextVars, setupVars, SetupInv, ContextInv, ContextTypes, EmptyIsHeard, SetupTypes,
              AnswersName, PageIsOpen, InSetup, SignedIn, MadeIsKept, PageKnowsDraft
<1> QED
  BY <1>1, MovingOnKeeps, RenameKeeps, AskKeeps, FinishKeeps, SendHomeKeeps, TurnKeeps,
     SendingKeeps, ServeKeeps, ArrivingKeeps DEF SetupNext, SetupStep

\* A creation is asked for only by a page that knows of none.
LEMMA AskedOnce ==
  ASSUME SetupInv, [SetupNext]_<<contextVars, setupVars>>,
         NEW c \in creating' \ creating, c.said \in {"profile", "nothing"}, c.from = "here",
         \A d \in creating : d.from = "here" => d.said # "profile"
  PROVE  made[c.mode] \notin ToSet(tab.listed)
<1>1. SetupTypes /\ MadeIsKept /\ PageKnowsDraft /\ creating \subseteq Creation
      /\ tab.listed \in IdList
  BY DEF SetupInv, SetupTypes, ContextInv, ContextTypes, IsTab
<1>2. CASE AskForWorkspace
  <2>1. c.mode = tab.page /\ tab.page \in Modes /\ flow.ready /\ OwnWorkspace = NoWorkspace
    BY <1>2 DEF AskForWorkspace, InSetup
  <2>2. SUFFICES ASSUME made[tab.page] \in ToSet(tab.listed) PROVE FALSE
    BY <2>1
  <2>3. made[tab.page] \in Workspace
    BY <1>1, <2>2, OnAList
  <2>4. draft[tab.page].workspace = made[tab.page]
    BY <2>1, <2>3, <1>1, NullsAreNoIds DEF MadeIsKept
  <2>5. flow.progress.workspace = made[tab.page]
    BY <1>1, <2>1, <2>2, <2>4 DEF PageKnowsDraft
  <2> QED
    BY <2>1, <2>2, <2>3, <2>5, NullsAreNoIds DEF OwnWorkspace
<1>3. ASSUME ContextMovesOn PROVE FALSE
  <2>1. CASE ContextChanges \/ Leaves
    BY <1>1, <2>1, CallsMoved DEF ContextChanges, Leaves, SetupFollows
  <2>2. CASE Reloads
    BY <1>1, <2>2, CallsMoved DEF Reloads
  <2> QED
    BY <1>3, <2>1, <2>2 DEF ContextMovesOn
<1>4. ASSUME Finish \/ SendHome PROVE FALSE
  BY <1>1, <1>4, CallsMoved DEF Finish, SendHome
<1>5. ASSUME NEW d \in creating, ServeCreation(d) PROVE FALSE
  <2>1. d \in Creation
    BY <1>1
  <2>2. CASE creating' = (creating \ {d}) \cup {[d EXCEPT !.said = "failed"]}
    BY <2>1, <2>2 DEF Creation
  <2>3. ASSUME NEW w \in Workspace, NEW said \in {"made", "failed"},
               creating' = (creating \ {d}) \cup
                   {[d EXCEPT !.said = said, !.made = IF said = "made" THEN w ELSE NoWorkspace]}
        PROVE  FALSE
    <3> DEFINE v == IF said = "made" THEN w ELSE NoWorkspace
               e == [d EXCEPT !.said = said, !.made = v]
    <3>1. creating' = (creating \ {d}) \cup {e}
      BY <2>3
    <3> HIDE DEF v
    <3>2. e.said = said
      BY <2>1 DEF Creation
    <3> QED
      BY <3>1, <3>2
  <2> QED
    BY <1>5, <2>2, <2>3 DEF ServeCreation
<1>6. ASSUME RenameAndGoOn \/ (\E step \in 1..3 : TurnTo(step))
             \/ (\E d \in creating : CreationArrives(d)) \/ UNCHANGED <<contextVars, setupVars>>
      PROVE  FALSE
  BY <1>6 DEF RenameAndGoOn, TurnTo, CreationArrives, setupVars
<1>7. ASSUME NEW d \in creating, SendCreation(d) PROVE FALSE
  BY <1>1, <1>7, SentIsAsked DEF SetupInv, ContextInv, ContextTypes, IsTab
<1> QED
  BY <1>2, <1>3, <1>4, <1>5, <1>6, <1>7 DEF SetupNext, SetupStep

\* However a setup is left, reloaded, returned to or overtaken by refreshes, one
\* that was told of its workspace asks for no other while the list has it.
THEOREM SetUpOnce == SetupSpec => OneWorkspacePerSetup
<1>1. SetupInv /\ [SetupNext]_<<contextVars, setupVars>> =>
        \A c \in creating' \ creating :
          c.from = "here" /\ c.said \in {"profile", "nothing"} =>
            \/ made[c.mode] \notin ToSet(tab.listed)
            \/ \E d \in creating : d.from = "here" /\ d.said = "profile"
  BY AskedOnce
<1> QED
  BY <1>1, SetupStart, SetupKeeps, PTL DEF SetupSpec, OneWorkspacePerSetup

-------------------------------------------------------------------------------
(* WorkspaceView: the list of the open workspace *)

ViewTypes == /\ place \in [TaskName -> Workspace \cup {NoWorkspace}]
             /\ deleted \subseteq TaskName /\ mine \subseteq TaskName /\ rows \subseteq TaskName
             /\ pending \subseteq [task : TaskName, in : Workspace]
             /\ load \in [tasks : SUBSET ListLoad, resources : SUBSET Workspace]

\* Nothing is shown, loaded or called one's own while no workspace is.
NothingUnmounted == Shown = NoWorkspace => /\ rows = {} /\ mine = {}
                                           /\ load.tasks = {} /\ load.resources = {}

\* A task being created is nowhere yet, and is created once.
PendingNowhere == /\ \A p \in pending : place[p.task] = NoWorkspace
                  /\ \A p, q \in pending : p.task = q.task => p = q

\* What a load brings belongs to its workspace; the one load that may write is
\* of the workspace shown, and once answered has the tasks created here.
LoadSound(l) == /\ \A t \in l.tasks : place[t] = l.of
                /\ l.newest => l.of = Shown
                /\ l.newest /\ l.said = "tasks" => mine \ deleted \subseteq l.tasks
LoadsSound == \A l \in load.tasks : LoadSound(l)

RowsSound == /\ \A t \in rows \cup mine : place[t] = Shown
             /\ mine \ deleted \subseteq rows
             /\ resources \in {NoWorkspace, Shown}

ViewInv == /\ ContextInv /\ ViewTypes /\ NothingUnmounted
           /\ PendingNowhere /\ LoadsSound /\ RowsSound

LEMMA ShownIsAWorkspace == ContextInv => Shown \in Workspace \cup {NoWorkspace}
BY OnAList DEF ContextInv, ContextTypes, IsTab, Shown, ActiveWorkspace

LEMMA ShownStays == UNCHANGED contextVars => Shown' = Shown
BY DEF contextVars, Shown, Opened, SignedIn, ActiveWorkspace

LEMMA ContextStays == ContextInv /\ UNCHANGED contextVars => ContextInv'
BY DEF contextVars, ContextInv, ContextTypes, EmptyIsHeard

LEMMA ViewStart == ViewInit => ViewInv
<1> SUFFICES ASSUME ViewInit PROVE ViewInv
  OBVIOUS
<1>1. ContextInv
  BY ContextStart DEF ViewInit
<1>2. load \in [tasks : SUBSET ListLoad, resources : SUBSET Workspace]
      /\ load.tasks = {} /\ load.resources = {}
  BY DEF ViewInit
<1> QED
  BY <1>1, <1>2 DEF ViewInit, ViewInv, ViewTypes, NothingUnmounted, PendingNowhere,
                    LoadsSound, RowsSound

LEMMA OvertakenLoads ==
  ASSUME NEW loads \in SUBSET ListLoad
  PROVE  /\ Overtaken(loads) \subseteq ListLoad
         /\ \A l \in Overtaken(loads) : ~l.newest
         /\ \A l \in Overtaken(loads) : \E k \in loads : l.of = k.of /\ l.tasks = k.tasks
BY DEF Overtaken, ListLoad

LEMMA NewLoadFits ==
  ASSUME NEW w \in Workspace
  PROVE  /\ NewLoad(w) \in ListLoad /\ NewLoad(w).of = w /\ NewLoad(w).tasks = {}
         /\ NewLoad(w).said = "nothing"
BY DEF NewLoad, ListLoad

\* The load of a workspace now shown, which overtakes the others.
LEMMA LoadsAnew ==
  ASSUME ViewInv, NEW loads \in SUBSET load.tasks, NEW to \in Workspace, Shown' = to,
         NEW next, next = Overtaken(loads) \cup {NewLoad(to)},
         \A t \in TaskName : place[t] \in Workspace => place'[t] = place[t]
  PROVE  next \subseteq ListLoad /\ \A l \in next : LoadSound(l)'
<1>1. loads \in SUBSET ListLoad /\ loads \subseteq load.tasks
  BY DEF ViewInv, ViewTypes
<1>2. ASSUME NEW l \in Overtaken(loads) PROVE LoadSound(l)'
  <2>1. PICK k \in loads : l.of = k.of /\ l.tasks = k.tasks
    BY <1>1, OvertakenLoads
  <2>2. ~l.newest /\ k \in ListLoad /\ \A t \in k.tasks : place[t] = k.of
    BY <1>1, OvertakenLoads DEF ViewInv, LoadsSound, LoadSound
  <2>3. \A t \in k.tasks : t \in TaskName /\ k.of \in Workspace
    BY <2>2 DEF ListLoad
  <2> QED
    BY <2>1, <2>2, <2>3 DEF LoadSound
<1>3. LoadSound(NewLoad(to))'
  <2>1. NewLoad(to)' = NewLoad(to)
    BY DEF NewLoad
  <2> QED
    BY <2>1, NewLoadFits DEF LoadSound
<1> QED
  BY <1>1, <1>2, <1>3, OvertakenLoads, NewLoadFits

LEMMA MovesKeep == ASSUME ViewInv, ContextMoves PROVE ViewInv'
<1>1. ContextInv'
  BY ContextKeeps DEF ViewInv, ContextMoves
<1>2. UNCHANGED <<place, deleted, pending>> /\ ViewTypes /\ PendingNowhere
  BY DEF ContextMoves, ViewInv
<1>3. CASE Shown' = Shown
  <2>1. UNCHANGED <<rows, resources, load, mine>>
    BY <1>3 DEF ContextMoves
  <2> QED
    BY <1>1, <1>2, <1>3, <2>1
       DEF ViewInv, ViewTypes, NothingUnmounted, PendingNowhere, LoadsSound, LoadSound, RowsSound
<1>4. CASE Shown' # Shown
  <2>1. Remount
    BY <1>4 DEF ContextMoves
  <2>2. rows' = {} /\ mine' = {} /\ resources' = NoWorkspace
    BY <2>1 DEF Remount
  <2>3. Shown' \in Workspace \cup {NoWorkspace}
    BY <1>1, OnAList DEF ContextInv, ContextTypes, IsTab, Shown, ActiveWorkspace
  <2>4. CASE Shown' = NoWorkspace
    <3>1. load' = [tasks |-> {}, resources |-> {}]
      BY <2>1, <2>4 DEF Remount
    <3>2. load' \in [tasks : SUBSET ListLoad, resources : SUBSET Workspace]
          /\ load'.tasks = {} /\ load'.resources = {}
      BY <3>1
    <3> QED
      BY <1>1, <1>2, <2>2, <3>2
         DEF ViewInv, ViewTypes, NothingUnmounted, PendingNowhere, LoadsSound, RowsSound
  <2>5. CASE Shown' \in Workspace /\ Shown' # NoWorkspace
    <3> DEFINE still == IF Shown = NoWorkspace THEN [tasks |-> {}, resources |-> {}] ELSE load
    <3>1. load' = [tasks |-> Overtaken(still.tasks) \cup {NewLoad(Shown')},
                   resources |-> still.resources \cup {Shown'}]
      BY <2>1, <2>5 DEF Remount
    <3>2. still.tasks \in SUBSET load.tasks /\ still.resources \subseteq Workspace
      BY <1>2 DEF ViewTypes
    <3> HIDE DEF still
    <3>3. /\ load'.tasks = Overtaken(still.tasks) \cup {NewLoad(Shown')}
          /\ load'.resources = still.resources \cup {Shown'}
          /\ load' = [tasks |-> load'.tasks, resources |-> load'.resources]
      BY <3>1
    <3>4. load'.tasks \subseteq ListLoad /\ \A l \in load'.tasks : LoadSound(l)'
      <4> DEFINE next == load'.tasks
                 to == Shown'
      <4>1. to \in Workspace /\ next = Overtaken(still.tasks) \cup {NewLoad(to)}
        BY <2>5, <3>3
      <4>2. \A t \in TaskName : place[t] \in Workspace => place'[t] = place[t]
        BY <1>2
      <4>3. Shown' = to
        OBVIOUS
      <4> HIDE DEF next, to
      <4>4. next \subseteq ListLoad /\ \A l \in next : LoadSound(l)'
        BY <3>2, <4>1, <4>2, <4>3, LoadsAnew
      <4> QED
        BY <4>4 DEF next
    <3>5. load' \in [tasks : SUBSET ListLoad, resources : SUBSET Workspace]
      BY <2>5, <3>2, <3>3, <3>4
    <3>6. ViewTypes' /\ LoadsSound'
      BY <1>2, <2>2, <3>4, <3>5 DEF ViewTypes, LoadsSound
    <3> QED
      BY <1>1, <1>2, <2>2, <2>5, <3>6
         DEF ViewInv, NothingUnmounted, PendingNowhere, RowsSound
  <2> QED
    BY <2>3, <2>4, <2>5
<1> QED
  BY <1>3, <1>4

LEMMA ViewServes == ASSUME ViewInv, NEW l \in load.tasks, ServeTasks(l) PROVE ViewInv'
<1>1. /\ UNCHANGED <<place, deleted, pending, rows, resources, mine>>
      /\ UNCHANGED contextVars /\ Shown' = Shown /\ ContextInv'
      /\ ViewTypes /\ LoadSound(l) /\ l \in ListLoad
  BY ShownStays, ContextStays DEF ServeTasks, ViewInv, ViewTypes, LoadsSound
<1>2. PICK said \in {"tasks", "failed"} :
        load' = [load EXCEPT !.tasks = (@ \ {l}) \cup
             {[l EXCEPT !.said = said, !.tasks = IF said = "tasks" THEN TasksOf(l.of) ELSE {}]}]
  BY DEF ServeTasks
<1> DEFINE brought == IF said = "tasks" THEN TasksOf(l.of) ELSE {}
           k == [l EXCEPT !.said = said, !.tasks = brought]
<1>3. /\ brought \subseteq TaskName /\ \A t \in brought : place[t] = l.of
      /\ said = "tasks" /\ l.of = Shown => mine \ deleted \subseteq brought
  BY <1>1 DEF TasksOf, ViewInv, RowsSound, ViewTypes
<1>4. load' = [load EXCEPT !.tasks = (@ \ {l}) \cup {k}]
  BY <1>2
<1> HIDE DEF brought
<1>5. /\ k \in ListLoad /\ k.of = l.of /\ k.newest = l.newest /\ k.said = said
      /\ k.tasks = brought
  BY <1>1, <1>3 DEF ListLoad
<1> HIDE DEF k
<1>6. /\ load' \in [tasks : SUBSET ListLoad, resources : SUBSET Workspace]
      /\ load'.tasks = (load.tasks \ {l}) \cup {k} /\ load'.resources = load.resources
  BY <1>1, <1>4, <1>5 DEF ViewTypes
<1>7. LoadSound(k)
  BY <1>1, <1>3, <1>5 DEF LoadSound
<1>8. LoadsSound'
  BY <1>1, <1>6, <1>7 DEF ViewInv, LoadsSound, LoadSound
<1> QED
  BY <1>1, <1>6, <1>8 DEF ViewInv, ViewTypes, NothingUnmounted, PendingNowhere, RowsSound

LEMMA RowsArrive == ASSUME ViewInv, NEW l \in load.tasks, TasksArrive(l) PROVE ViewInv'
<1>1. /\ UNCHANGED <<place, deleted, pending, resources, mine>>
      /\ UNCHANGED contextVars /\ Shown' = Shown /\ ContextInv'
      /\ ViewTypes /\ LoadSound(l) /\ l \in ListLoad
  BY ShownStays, ContextStays DEF TasksArrive, ViewInv, ViewTypes, LoadsSound
<1>2. /\ load' \in [tasks : SUBSET ListLoad, resources : SUBSET Workspace]
      /\ load'.tasks = load.tasks \ {l} /\ load'.resources = load.resources
  BY <1>1 DEF TasksArrive, ViewTypes
<1>3. /\ rows' \subseteq TaskName /\ \A t \in rows' : place[t] = Shown
      /\ mine \ deleted \subseteq rows'
  <2>1. CASE l.said = "tasks" /\ l.newest
    BY <1>1, <2>1 DEF TasksArrive, MayWrite, LoadSound, ListLoad
  <2>2. CASE ~(l.said = "tasks" /\ l.newest)
    <3>1. rows' = rows
      BY <2>2 DEF TasksArrive, MayWrite
    <3> QED
      BY <3>1 DEF ViewInv, ViewTypes, RowsSound
  <2> QED
    BY <2>1, <2>2
<1>4. Shown # NoWorkspace
  BY DEF ViewInv, NothingUnmounted
<1> QED
  BY <1>1, <1>2, <1>3, <1>4
     DEF ViewInv, ViewTypes, NothingUnmounted, PendingNowhere, LoadsSound, LoadSound, RowsSound

LEMMA PeopleArrive == ASSUME ViewInv, NEW w \in load.resources, ResourcesArrive(w) PROVE ViewInv'
<1>1. /\ UNCHANGED <<place, deleted, pending, rows, mine>>
      /\ UNCHANGED contextVars /\ Shown' = Shown /\ ContextInv' /\ ViewTypes
  BY ShownStays, ContextStays DEF ResourcesArrive, ViewInv
<1>2. /\ load' \in [tasks : SUBSET ListLoad, resources : SUBSET Workspace]
      /\ load'.tasks = load.tasks /\ load'.resources = load.resources \ {w}
  BY <1>1 DEF ResourcesArrive, ViewTypes
<1>3. Shown # NoWorkspace
  BY DEF ViewInv, NothingUnmounted
<1>4. Shown = ActiveWorkspace
  BY <1>3 DEF Shown
<1>5. resources' \in {NoWorkspace, Shown}
  BY <1>4 DEF ResourcesArrive, ViewInv, RowsSound
<1> QED
  BY <1>1, <1>2, <1>3, <1>5
     DEF ViewInv, ViewTypes, NothingUnmounted, PendingNowhere, LoadsSound, LoadSound, RowsSound

\* A load of the same workspace, beside a change of the tasks shown.
LEMMA SameListLoads ==
  ASSUME ViewInv, UNCHANGED contextVars, Shown # NoWorkspace, Loading(Shown),
         \A t \in TaskName : place[t] \in Workspace => place'[t] = place[t]
  PROVE  /\ load' \in [tasks : SUBSET ListLoad, resources : SUBSET Workspace]
         /\ load'.resources = load.resources /\ LoadsSound' /\ Shown \in Workspace
<1>1. Shown' = Shown /\ Shown \in Workspace
  BY ShownStays, ShownIsAWorkspace DEF ViewInv
<1>2. load \in [tasks : SUBSET ListLoad, resources : SUBSET Workspace]
  BY DEF ViewInv, ViewTypes
<1> DEFINE next == Overtaken(load.tasks) \cup {NewLoad(Shown)}
<1>3. load' = [load EXCEPT !.tasks = next]
  BY DEF Loading
<1>4. next \subseteq ListLoad /\ \A l \in next : LoadSound(l)'
  <2> HIDE DEF next
  <2>1. next = Overtaken(load.tasks) \cup {NewLoad(Shown)}
    BY DEF next
  <2> QED
    BY <1>1, <2>1, LoadsAnew
<1> HIDE DEF next
<1>5. load'.tasks = next /\ load'.resources = load.resources
  BY <1>2, <1>3
<1>6. load' \in [tasks : SUBSET ListLoad, resources : SUBSET Workspace]
  BY <1>2, <1>3, <1>4
<1> QED
  BY <1>1, <1>4, <1>5, <1>6 DEF LoadsSound

LEMMA AgainKeeps == ASSUME ViewInv, LoadAgain PROVE ViewInv'
<1>1. /\ UNCHANGED <<place, deleted, pending, rows, resources, mine>>
      /\ UNCHANGED contextVars /\ Shown' = Shown /\ ContextInv' /\ ViewTypes
      /\ Shown # NoWorkspace
  BY ShownStays, ContextStays DEF LoadAgain, ViewInv
<1>2. load' \in [tasks : SUBSET ListLoad, resources : SUBSET Workspace] /\ LoadsSound'
  BY <1>1, SameListLoads DEF LoadAgain
<1> QED
  BY <1>1, <1>2 DEF ViewInv, ViewTypes, NothingUnmounted, PendingNowhere, RowsSound

LEMMA AskingKeeps == ASSUME ViewInv, NEW t \in TaskName, AskToCreate(t) PROVE ViewInv'
<1>1. /\ UNCHANGED <<place, deleted, rows, resources, load, mine>>
      /\ UNCHANGED contextVars /\ Shown' = Shown /\ ContextInv' /\ ViewTypes
      /\ Shown \in Workspace
  BY ShownStays, ContextStays, ShownIsAWorkspace DEF AskToCreate, ViewInv
<1>2. pending' \subseteq [task : TaskName, in : Workspace] /\ PendingNowhere'
  BY <1>1 DEF AskToCreate, ViewInv, ViewTypes, PendingNowhere
<1> QED
  BY <1>1, <1>2 DEF ViewInv, ViewTypes, NothingUnmounted, LoadsSound, LoadSound, RowsSound

LEMMA CreatedKeeps == ASSUME ViewInv, NEW p \in pending, Created(p) PROVE ViewInv'
<1>1. /\ UNCHANGED contextVars /\ Shown' = Shown /\ ContextInv' /\ ViewTypes
      /\ UNCHANGED <<deleted, resources>> /\ PendingNowhere /\ RowsSound
      /\ pending' = pending \ {p} /\ place' = [place EXCEPT ![p.task] = p.in]
      /\ mine' = IF p.in = Shown THEN mine \cup {p.task} ELSE mine
  BY ShownStays, ContextStays DEF Created, ViewInv
<1>2. p.task \in TaskName /\ p.in \in Workspace /\ p.in # NoWorkspace
      /\ place[p.task] = NoWorkspace
  BY <1>1, NullsAreNoIds DEF ViewTypes, PendingNowhere
<1>3. /\ place' \in [TaskName -> Workspace \cup {NoWorkspace}] /\ place'[p.task] = p.in
      /\ \A t \in TaskName \ {p.task} : place'[t] = place[t]
      /\ \A t \in TaskName : place[t] \in Workspace => place'[t] = place[t]
  BY <1>1, <1>2, NullsAreNoIds DEF ViewTypes
<1>4. PendingNowhere' /\ pending' \subseteq [task : TaskName, in : Workspace]
  BY <1>1, <1>3 DEF PendingNowhere, ViewTypes
<1>5. mine' \subseteq TaskName
  BY <1>1, <1>2 DEF ViewTypes
<1>6. CASE Shown = NoWorkspace
  <2>1. UNCHANGED <<rows, load, mine>> /\ rows = {} /\ mine = {} /\ load.tasks = {}
    BY <1>1, <1>2, <1>6 DEF Created, ViewInv, NothingUnmounted
  <2> QED
    BY <1>1, <1>3, <1>4, <1>6, <2>1
       DEF ViewInv, ViewTypes, NothingUnmounted, LoadsSound, RowsSound
<1>7. CASE Shown # NoWorkspace
  <2>1. ShowCreated(p.in, p.task)
    BY <1>7 DEF Created
  <2>2. rows' = (IF p.in = Shown THEN rows \cup {p.task} ELSE rows) /\ Loading(Shown)
    BY <2>1 DEF ShowCreated
  <2>3. /\ load' \in [tasks : SUBSET ListLoad, resources : SUBSET Workspace]
        /\ LoadsSound'
    BY <1>1, <1>3, <1>7, <2>2, SameListLoads
  <2>4. \A t \in rows \cup mine : t \in TaskName /\ t # p.task
    BY <1>1, <1>2, <1>7 DEF ViewTypes, RowsSound
  <2>5. RowsSound' /\ rows' \subseteq TaskName
    BY <1>1, <1>2, <1>3, <2>2, <2>4 DEF RowsSound, ViewTypes
  <2> QED
    BY <1>1, <1>3, <1>4, <1>5, <1>7, <2>3, <2>5 DEF ViewInv, ViewTypes, NothingUnmounted
<1> QED
  BY <1>6, <1>7

LEMMA DeletingKeeps == ASSUME ViewInv, NEW t \in TaskName, DeleteListed(t) PROVE ViewInv'
<1>1. /\ UNCHANGED contextVars /\ Shown' = Shown /\ ContextInv' /\ ViewTypes
      /\ UNCHANGED <<place, pending, resources, mine>> /\ PendingNowhere /\ RowsSound
      /\ Shown # NoWorkspace /\ deleted' = deleted \cup {t} /\ rows' = rows \ {t}
  BY ShownStays, ContextStays DEF DeleteListed, ViewInv
<1>2. load' \in [tasks : SUBSET ListLoad, resources : SUBSET Workspace] /\ LoadsSound'
  BY <1>1, SameListLoads DEF DeleteListed
<1>3. RowsSound'
  BY <1>1 DEF RowsSound
<1> QED
  BY <1>1, <1>2, <1>3 DEF ViewInv, ViewTypes, NothingUnmounted, PendingNowhere

LEMMA ElsewhereTaskKeeps == ASSUME ViewInv, NEW t \in TaskName, ElsewhereTask(t) PROVE ViewInv'
<1>1. /\ UNCHANGED contextVars /\ Shown' = Shown /\ ContextInv' /\ ViewTypes
      /\ UNCHANGED <<pending, rows, resources, load, mine>>
      /\ PendingNowhere /\ LoadsSound /\ RowsSound /\ NothingUnmounted
      /\ \A p \in pending : p.task # t
  BY ShownStays, ContextStays DEF ElsewhereTask, ViewInv
<1>2. ASSUME place[t] = NoWorkspace, UNCHANGED deleted,
             NEW w \in Workspace, place' = [place EXCEPT ![t] = w]
      PROVE  ViewInv'
  <2>1. /\ place' \in [TaskName -> Workspace \cup {NoWorkspace}]
        /\ \A s \in TaskName \ {t} : place'[s] = place[s]
    BY <1>1, <1>2 DEF ViewTypes
  <2>2. PendingNowhere'
    BY <1>1, <2>1 DEF PendingNowhere, ViewTypes
  <2>3. RowsSound'
    <3>1. Shown = NoWorkspace => rows = {} /\ mine = {}
      BY <1>1 DEF NothingUnmounted
    <3>2. \A s \in rows \cup mine : s \in TaskName /\ s # t
      BY <1>1, <1>2, <3>1 DEF RowsSound, ViewTypes
    <3> QED
      BY <1>1, <1>2, <2>1, <3>2 DEF RowsSound
  <2>4. LoadsSound'
    <3> SUFFICES ASSUME NEW l \in load.tasks PROVE LoadSound(l)'
      BY <1>1 DEF LoadsSound
    <3>1. LoadSound(l) /\ l.of \in Workspace /\ l.tasks \subseteq TaskName
      BY <1>1 DEF LoadsSound, ViewTypes, ListLoad
    <3>2. t \notin l.tasks
      BY <1>2, <3>1, NullsAreNoIds DEF LoadSound
    <3> QED
      BY <1>1, <1>2, <2>1, <3>1, <3>2 DEF LoadSound
  <2> QED
    BY <1>1, <1>2, <2>1, <2>2, <2>3, <2>4 DEF ViewInv, ViewTypes, NothingUnmounted
<1>3. ASSUME UNCHANGED place, deleted' = deleted \cup {t} PROVE ViewInv'
  <2>1. RowsSound' /\ PendingNowhere'
    BY <1>1, <1>3 DEF RowsSound, PendingNowhere
  <2>2. LoadsSound'
    BY <1>1, <1>3 DEF LoadsSound, LoadSound
  <2> QED
    BY <1>1, <1>3, <2>1, <2>2 DEF ViewInv, ViewTypes, NothingUnmounted
<1> QED
  BY <1>2, <1>3 DEF ElsewhereTask

LEMMA ViewKeeps == ViewInv /\ [ViewNext]_<<contextVars, viewVars>> => ViewInv'
<1>1. ASSUME ViewInv, UNCHANGED <<contextVars, viewVars>> PROVE ViewInv'
  <2>1. /\ UNCHANGED <<place, deleted, pending, rows, resources, load, mine>>
        /\ Shown' = Shown /\ ContextInv'
    BY <1>1, ShownStays, ContextStays DEF viewVars, ViewInv
  <2> QED
    BY <1>1, <2>1 DEF ViewInv, ViewTypes, NothingUnmounted, PendingNowhere, LoadsSound,
                      LoadSound, RowsSound
<1> QED
  BY <1>1, MovesKeep, ViewServes, RowsArrive, PeopleArrive, AgainKeeps, AskingKeeps,
     CreatedKeeps, DeletingKeeps, ElsewhereTaskKeeps DEF ViewNext, ViewLoadStep, TaskStep

\* Whatever loads are under way, and however the workspace is switched meanwhile,
\* the list and the people shown are those of the open workspace, and a task
\* created in it stays listed.
THEOREM ListIsOfWorkspace == ViewSpec => []ListOfWorkspace
<1>1. ViewInv => ListOfWorkspace
  BY DEF ViewInv, RowsSound, ListOfWorkspace, OnlyActiveWorkspace, OwnTaskListed
<1> QED
  BY <1>1, ViewStart, ViewKeeps, PTL DEF ViewSpec

-------------------------------------------------------------------------------
(* History: no entry missing or twice, between a page and the next *)

Descending(s) == \A i, j \in DOMAIN s : i < j => s[j] < s[i]

\* A page that was read lies below its cursor, runs down from it without a gap,
\* and says where it stops.
PageRead(c) ==
    /\ Descending(c.page)
    /\ c.before # 0 => \A e \in ToSet(c.page) : e < c.before
    /\ c.next # 0 => c.page # << >> /\ c.next = Last(c.page)
    /\ \A e \in c.known : (c.before = 0 \/ e < c.before) =>
          e \in ToSet(c.page) \/ (c.next # 0 /\ e < c.next)

\* The feed runs down from the newest entry it knows, without a gap.
FeedWhole ==
    /\ Descending(feed.shown)
    /\ feed.next # 0 => feed.request # 0 /\ feed.shown # << >> /\ feed.next = Last(feed.shown)
    /\ \A e \in feed.known : feed.next = 0 \/ e >= feed.next => e \in ToSet(feed.shown)
    /\ feed.known \subseteq committed

\* An older page on its way goes on where the feed stops, and is alone.
OlderFits ==
    \A c \in pages : c.request = 0 =>
        /\ feed.loading /\ feed.next # 0 /\ c.before = feed.next
        /\ \A d \in pages : d.request = 0 => d = c
        /\ \A d \in pages : d.request # feed.request
        /\ c.at = "read" => feed.known \subseteq c.known

Requests == \A c \in pages : /\ c.request <= feed.request
                             /\ c.request # 0 => c.before = 0
                             /\ c.known \subseteq committed
                             /\ c.at = "read" => PageRead(c)

HistoryInv == HistoryTypeOK /\ Requests /\ (~mixed => FeedWhole /\ OlderFits)

\* A page and what it holds.
LEMMA PageType ==
  ASSUME NEW page \in PageOf
  PROVE  page \in Seq(Entries) /\ ToSet(page) = {page[i] : i \in 1..Len(page)}
         /\ DOMAIN page = 1..Len(page) /\ Len(page) \in Nat
<1>1. PICK n \in 0..PageSize : page \in [1..n -> Entries]
  BY DEF PageOf
<1>2. n \in Nat
  BY HistoryAssumption
<1>3. page \in Seq(Entries)
  BY <1>1, <1>2, IsASeq
<1> QED
  BY <1>3, LenProperties DEF ToSet

\* Entries are numbers.
LEMMA EntriesAreNumbers == Entries \subseteq Nat
BY HistoryAssumption DEF Entries

\* The last of a descending sequence is its least.
LEMMA LastIsLeast ==
  ASSUME NEW s \in Seq(Entries), Descending(s), s # << >>
  PROVE  Last(s) \in ToSet(s) /\ \A e \in ToSet(s) : e >= Last(s)
<1>1. Len(s) \in Nat /\ Len(s) # 0 /\ DOMAIN s = 1..Len(s) /\ \A i \in 1..Len(s) : s[i] \in Nat
  <2>1. Len(s) \in Nat /\ Len(s) # 0 /\ DOMAIN s = 1..Len(s)
    BY EmptySeq, LenProperties
  <2>2. \A i \in 1..Len(s) : s[i] \in Entries
    BY ElementOfSeq
  <2> QED
    BY <2>1, <2>2, EntriesAreNumbers
<1>2. Len(s) \in DOMAIN s
  BY <1>1
<1>3. ASSUME NEW i \in DOMAIN s PROVE s[i] >= Last(s)
  <2>1. CASE i = Len(s)
    BY <1>1, <2>1 DEF Last
  <2>2. CASE i < Len(s)
    BY <1>1, <1>2, <2>2 DEF Last, Descending
  <2> QED
    BY <1>1, <2>1, <2>2
<1> QED
  BY <1>2, <1>3 DEF ToSet, Last

\* What the feed shows after it appended a page that lies below its last entry.
LEMMA Appended ==
  ASSUME NEW s \in Seq(Entries), NEW page \in Seq(Entries), Descending(s), Descending(page),
         s # << >>, \A e \in ToSet(page) : e < Last(s)
  PROVE  /\ s \o page \in Seq(Entries) /\ Descending(s \o page) /\ s \o page # << >>
         /\ ToSet(s \o page) = ToSet(s) \cup ToSet(page)
         /\ page # << >> => Last(s \o page) = Last(page)
<1>1. PICK t : t = s \o page
  OBVIOUS
<1>2. /\ t \in Seq(Entries) /\ Len(t) = Len(s) + Len(page) /\ Len(s) \in Nat /\ Len(page) \in Nat
      /\ Len(s) # 0 /\ DOMAIN s = 1..Len(s) /\ DOMAIN page = 1..Len(page) /\ DOMAIN t = 1..Len(t)
  BY <1>1, ConcatProperties, LenProperties, EmptySeq
<1>3. /\ \A i \in 1..Len(s) : t[i] = s[i]
      /\ \A i \in 1..Len(page) : t[Len(s) + i] = page[i]
  BY <1>1, ConcatProperties, <1>2
<1>4. \A i \in 1..Len(t) : i \in 1..Len(s) \/ (i > Len(s) /\ i - Len(s) \in 1..Len(page)
                                               /\ t[i] = page[i - Len(s)])
  <2> SUFFICES ASSUME NEW i \in 1..Len(t), i \notin 1..Len(s)
               PROVE  i > Len(s) /\ i - Len(s) \in 1..Len(page) /\ t[i] = page[i - Len(s)]
    OBVIOUS
  <2>1. i > Len(s) /\ i - Len(s) \in 1..Len(page) /\ Len(s) + (i - Len(s)) = i
    BY <1>2
  <2> QED
    BY <1>3, <2>1
<1>5. /\ \A i \in 1..Len(s) : s[i] \in ToSet(s) /\ s[i] >= Last(s) /\ s[i] \in Nat /\ Last(s) \in Nat
      /\ \A i \in 1..Len(page) : page[i] \in ToSet(page) /\ page[i] < Last(s) /\ page[i] \in Nat
  <2>1. \A i \in 1..Len(s) : s[i] \in ToSet(s) /\ s[i] \in Nat
    BY <1>2, ElementOfSeq, EntriesAreNumbers DEF ToSet
  <2>2. \A i \in 1..Len(page) : page[i] \in ToSet(page) /\ page[i] \in Nat
    BY <1>2, ElementOfSeq, EntriesAreNumbers DEF ToSet
  <2>3. Last(s) \in Nat
    BY <1>2, <2>1 DEF Last
  <2> QED
    BY <2>1, <2>2, <2>3, LastIsLeast
<1>6. Descending(t)
  <2> SUFFICES ASSUME NEW i \in 1..Len(t), NEW j \in 1..Len(t), i < j PROVE t[j] < t[i]
    BY <1>2 DEF Descending
  <2>1. CASE i \in 1..Len(s) /\ j \in 1..Len(s)
    BY <1>2, <1>3, <2>1 DEF Descending
  <2>2. CASE i \in 1..Len(s) /\ j \notin 1..Len(s)
    <3>1. t[j] < Last(s)
      BY <1>4, <1>5, <2>2
    <3>2. t[i] >= Last(s)
      BY <1>3, <1>5, <2>2
    <3>3. t[i] \in Nat /\ t[j] \in Nat /\ Last(s) \in Nat
      BY <1>3, <1>4, <1>5, <2>2
    <3> QED
      BY <3>1, <3>2, <3>3
  <2>3. CASE i \notin 1..Len(s)
    <3>1. i > Len(s) /\ i - Len(s) \in 1..Len(page) /\ t[i] = page[i - Len(s)]
      BY <1>4, <2>3
    <3>2. j > Len(s)
      BY <1>2, <3>1
    <3>3. j - Len(s) \in 1..Len(page) /\ t[j] = page[j - Len(s)]
      BY <1>2, <1>4, <3>2
    <3>4. i - Len(s) < j - Len(s)
      BY <1>2
    <3> QED
      BY <1>2, <3>1, <3>3, <3>4 DEF Descending
  <2> QED
    BY <2>1, <2>2, <2>3
<1>7. ToSet(t) = ToSet(s) \cup ToSet(page)
  <2>1. ToSet(t) \subseteq ToSet(s) \cup ToSet(page)
    BY <1>2, <1>3, <1>4, <1>5 DEF ToSet
  <2>2. \A i \in 1..Len(s) : i \in 1..Len(t)
    BY <1>2
  <2>3. \A i \in 1..Len(page) : Len(s) + i \in 1..Len(t)
    BY <1>2
  <2>4. ToSet(s) \cup ToSet(page) \subseteq ToSet(t)
    BY <1>2, <1>3, <2>2, <2>3 DEF ToSet
  <2> QED
    BY <2>1, <2>4
<1>8. t # << >>
  BY <1>2, EmptySeq
<1>9. page # << >> => Last(t) = Last(page)
  <2>1. page # << >> => Len(page) \in 1..Len(page)
    BY <1>2, EmptySeq
  <2> QED
    BY <1>2, <1>3, <2>1 DEF Last
<1> QED
  BY <1>1, <1>2, <1>6, <1>7, <1>8, <1>9

LEMMA InitHistory == HistoryInit => HistoryInv
<1> SUFFICES ASSUME HistoryInit PROVE HistoryInv
  OBVIOUS
<1>1. /\ written \in 0..MaxEntries /\ committed = 1..written /\ pages = {} /\ mixed = FALSE
      /\ feed = [shown |-> << >>, next |-> 0, request |-> 0, loading |-> FALSE, known |-> {}]
  BY HistoryAssumption DEF HistoryInit, Entries
<1>2. << >> \in Seq(Entries) /\ 0 \in 0..MaxEntries /\ 0 \in 0..MaxFeedLoads /\ DOMAIN << >> = {}
  BY EmptySeq, HistoryAssumption
<1>3. feed \in Feed
  BY <1>1, <1>2 DEF Feed
<1>4. HistoryTypeOK
  BY <1>1, <1>3 DEF HistoryTypeOK
<1>5. FeedWhole
  <2>1. Descending(feed.shown)
    BY <1>1, <1>2 DEF Descending
  <2> QED
    BY <1>1, <2>1 DEF FeedWhole
<1> QED
  BY <1>1, <1>4, <1>5 DEF HistoryInv, Requests, OlderFits

\* Entries are added, the client does nothing.
LEMMA WritingKeeps ==
  ASSUME HistoryInv, UNCHANGED <<feed, pages, mixed>>, written' \in 0..MaxEntries,
         committed' \subseteq 1..written', committed \subseteq committed'
  PROVE  HistoryInv'
<1>1. HistoryTypeOK'
  BY DEF HistoryInv, HistoryTypeOK
<1>2. Requests'
  BY DEF HistoryInv, Requests, PageRead
<1>3. ~mixed => FeedWhole' /\ OlderFits'
  BY DEF HistoryInv, FeedWhole, OlderFits
<1> QED
  BY <1>1, <1>2, <1>3 DEF HistoryInv

\* A call as it is asked.
LEMMA AskedCall ==
  ASSUME NEW request \in 0..MaxFeedLoads, NEW before \in 0..MaxEntries
  PROVE  [request |-> request, before |-> before, at |-> "asked",
          page |-> << >>, next |-> 0, known |-> {}] \in Call
<1>1. << >> \in PageOf
  <2>1. << >> \in [1..0 -> Entries] /\ 0 \in 0..PageSize
    BY HistoryAssumption
  <2> QED
    BY <2>1 DEF PageOf
<1>2. 0 \in 0..MaxEntries
  BY HistoryAssumption
<1> QED
  BY <1>1, <1>2 DEF Call

LEMMA FirstPageKeeps ==
  ASSUME HistoryInv, LoadFirstPage
  PROVE  HistoryInv'
<1>1. /\ feed \in Feed /\ pages \subseteq Call /\ feed.request < MaxFeedLoads
      /\ UNCHANGED <<written, committed>> /\ Requests
  BY DEF HistoryInv, HistoryTypeOK, LoadFirstPage
<1>2. PICK n : n = feed.request + 1
  OBVIOUS
<1>3. n \in 0..MaxFeedLoads /\ n # 0 /\ feed.request < n /\ feed.request \in Nat /\ n \in Nat
  BY <1>1, <1>2, HistoryAssumption DEF Feed
<1>4. PICK c : c = [request |-> n, before |-> 0, at |-> "asked",
                    page |-> << >>, next |-> 0, known |-> {}]
  OBVIOUS
<1>5. c \in Call /\ c.request = n /\ c.before = 0 /\ c.at = "asked" /\ c.known = {}
  BY <1>3, <1>4, AskedCall, HistoryAssumption
<1>6. /\ pages' = pages \cup {c} /\ mixed' = (mixed \/ \E d \in pages : d.request = 0)
      /\ feed' = [feed EXCEPT !.request = n, !.loading = TRUE]
  BY <1>2, <1>4 DEF LoadFirstPage, Ask
<1>7. /\ feed' \in Feed /\ feed'.request = n /\ feed'.loading
      /\ feed'.shown = feed.shown /\ feed'.next = feed.next /\ feed'.known = feed.known
  BY <1>1, <1>3, <1>6 DEF Feed
<1>8. HistoryTypeOK'
  BY <1>1, <1>5, <1>6, <1>7 DEF HistoryInv, HistoryTypeOK
<1>9. Requests'
  <2>1. \A d \in pages : d.request <= n
    BY <1>1, <1>3 DEF Requests, Call
  <2>2. \A d \in pages : d.at = "read" => PageRead(d)'
    BY <1>1 DEF Requests, PageRead
  <2> QED
    BY <1>1, <1>3, <1>5, <1>6, <1>7, <2>1, <2>2 DEF Requests
<1>10. ~mixed' => FeedWhole' /\ OlderFits'
  BY <1>1, <1>3, <1>5, <1>6, <1>7 DEF HistoryInv, FeedWhole, OlderFits
<1> QED
  BY <1>8, <1>9, <1>10 DEF HistoryInv

LEMMA OlderPageKeeps ==
  ASSUME HistoryInv, LoadOlder
  PROVE  HistoryInv'
<1>1. /\ feed \in Feed /\ pages \subseteq Call /\ feed.next # 0 /\ ~feed.loading
      /\ UNCHANGED <<written, committed>> /\ Requests
  BY DEF HistoryInv, HistoryTypeOK, LoadOlder
<1>2. PICK c : c = [request |-> 0, before |-> feed.next, at |-> "asked",
                    page |-> << >>, next |-> 0, known |-> {}]
  OBVIOUS
<1>3. feed.next \in 0..MaxEntries /\ 0 \in 0..MaxFeedLoads /\ 0 <= feed.request
  BY <1>1, HistoryAssumption DEF Feed
<1>4. c \in Call /\ c.request = 0 /\ c.before = feed.next /\ c.at = "asked" /\ c.known = {}
  BY <1>2, <1>3, AskedCall
<1>5. /\ pages' = pages \cup {c} /\ mixed' = (mixed \/ \E d \in pages : d.request = feed.request)
      /\ feed' = [feed EXCEPT !.loading = TRUE]
  BY <1>2 DEF LoadOlder, Ask
<1>6. /\ feed' \in Feed /\ feed'.request = feed.request /\ feed'.loading
      /\ feed'.shown = feed.shown /\ feed'.next = feed.next /\ feed'.known = feed.known
  BY <1>1, <1>5 DEF Feed
<1>7. HistoryTypeOK'
  BY <1>1, <1>4, <1>5, <1>6 DEF HistoryInv, HistoryTypeOK
<1>8. Requests'
  <2>1. \A d \in pages : d.at = "read" => PageRead(d)'
    BY <1>1 DEF Requests, PageRead
  <2> QED
    BY <1>1, <1>3, <1>4, <1>5, <1>6, <2>1 DEF Requests
<1>9. ASSUME ~mixed' PROVE FeedWhole' /\ OlderFits'
  <2>1. FeedWhole /\ OlderFits /\ \A d \in pages : d.request # feed.request
    BY <1>5, <1>9 DEF HistoryInv
  <2>2. FeedWhole'
    BY <1>1, <1>6, <2>1 DEF FeedWhole
  <2>3. feed.request # 0
    BY <1>1, <2>1 DEF FeedWhole
  <2>4. \A d \in pages : d.request # 0
    BY <1>1, <2>1 DEF OlderFits
  <2>5. OlderFits'
    BY <1>1, <1>4, <1>5, <1>6, <2>1, <2>3, <2>4 DEF OlderFits
  <2> QED
    BY <2>2, <2>5
<1> QED
  BY <1>7, <1>8, <1>9 DEF HistoryInv

\* What a query reads is a page without a gap.
LEMMA QueryReads ==
  ASSUME HistoryTypeOK, NEW before \in 0..MaxEntries, NEW page \in PageOf, PageBefore(page, before)
  PROVE  /\ NextCursor(page, before) \in 0..MaxEntries
         /\ Descending(page)
         /\ before # 0 => \A e \in ToSet(page) : e < before
         /\ NextCursor(page, before) # 0 => page # << >> /\ NextCursor(page, before) = Last(page)
         /\ \A e \in committed : (before = 0 \/ e < before) =>
              e \in ToSet(page) \/ (NextCursor(page, before) # 0 /\ e < NextCursor(page, before))
<1>1. /\ ToSet(page) \subseteq Older(before) /\ Descending(page)
      /\ \A e \in Older(before) \ ToSet(page) : Len(page) = PageSize /\ e < Last(page)
  BY DEF PageBefore, Newest, Descending
<1>2. page \in Seq(Entries) /\ DOMAIN page = 1..Len(page) /\ Len(page) \in Nat
  BY PageType
<1>3. \A e \in Older(before) : e \in committed /\ (before # 0 => e < before)
  BY DEF Older
<1>4. \A e \in committed : (before = 0 \/ e < before) => e \in Older(before)
  BY DEF Older
<1>5. CASE Older(before) \subseteq ToSet(page)
  <2>1. NextCursor(page, before) = 0
    BY <1>5 DEF NextCursor
  <2> QED
    BY <1>1, <1>3, <1>4, <1>5, <2>1, HistoryAssumption
<1>6. CASE ~(Older(before) \subseteq ToSet(page))
  <2>1. NextCursor(page, before) = Last(page) /\ Len(page) = PageSize
    BY <1>1, <1>6 DEF NextCursor
  <2>2. page # << >>
    BY <2>1, HistoryAssumption, EmptySeq
  <2>3. Last(page) \in Entries
    <3>1. Len(page) \in DOMAIN page
      BY <1>2, <2>1, HistoryAssumption
    <3> QED
      BY <1>2, <3>1, ElementOfSeq DEF Last
  <2>4. Last(page) \in 0..MaxEntries /\ Last(page) # 0
    BY <2>3, HistoryAssumption DEF Entries
  <2> QED
    BY <1>1, <1>3, <1>4, <2>1, <2>2, <2>4
<1> QED
  BY <1>5, <1>6

\* A call in place of another with the same number and cursor.
LEMMA ReplacedKeeps ==
  ASSUME HistoryInv, NEW c \in pages, NEW d \in Call, d.request = c.request, d.before = c.before,
         d.known \subseteq committed,
         d.at = "read" => PageRead(d) /\ d.known = committed,
         pages' = (pages \ {c}) \cup {d}, UNCHANGED <<written, committed, feed, mixed>>
  PROVE  HistoryInv'
<1>1. HistoryTypeOK'
  BY DEF HistoryInv, HistoryTypeOK
<1>2. Requests'
  BY DEF HistoryInv, Requests, PageRead
<1>3. ASSUME ~mixed PROVE FeedWhole' /\ OlderFits'
  <2>1. FeedWhole /\ OlderFits
    BY <1>3 DEF HistoryInv
  <2>2. FeedWhole'
    BY <2>1 DEF FeedWhole
  <2>3. feed.known \subseteq committed
    BY <2>1 DEF FeedWhole
  <2> QED
    BY <2>1, <2>2, <2>3 DEF OlderFits
<1> QED
  BY <1>1, <1>2, <1>3 DEF HistoryInv

LEMMA PageServedKeeps ==
  ASSUME HistoryInv, NEW c \in pages, ServePage(c)
  PROVE  HistoryInv'
<1>1. c \in Call /\ HistoryTypeOK /\ c.known \subseteq committed /\ committed \subseteq Entries
  BY HistoryAssumption DEF HistoryInv, HistoryTypeOK, Requests, Entries
<1>2. UNCHANGED <<written, committed, feed, mixed>>
  BY DEF ServePage
<1>3. ASSUME NEW page \in PageOf, PageBefore(page, c.before),
             pages' = (pages \ {c}) \cup {[c EXCEPT !.at = "read", !.page = page, !.known = committed,
                                                    !.next = NextCursor(page, c.before)]}
      PROVE  HistoryInv'
  <2>1. PICK next : next = NextCursor(page, c.before)
    OBVIOUS
  <2>2. PICK d : d = [c EXCEPT !.at = "read", !.page = page, !.known = committed, !.next = next]
    OBVIOUS
  <2>3. c.before \in 0..MaxEntries
    BY <1>1 DEF Call
  <2>4. /\ next \in 0..MaxEntries /\ Descending(page)
        /\ c.before # 0 => \A e \in ToSet(page) : e < c.before
        /\ next # 0 => page # << >> /\ next = Last(page)
        /\ \A e \in committed : (c.before = 0 \/ e < c.before) =>
              e \in ToSet(page) \/ (next # 0 /\ e < next)
    BY <1>1, <1>3, <2>1, <2>3, QueryReads
  <2>5. /\ d \in Call /\ d.request = c.request /\ d.before = c.before /\ d.known = committed
        /\ d.page = page /\ d.next = next
    BY <1>1, <2>2, <2>4 DEF Call
  <2>6. PageRead(d)
    BY <2>4, <2>5 DEF PageRead
  <2>7. pages' = (pages \ {c}) \cup {d}
    BY <1>3, <2>1, <2>2
  <2> QED
    BY <1>2, <2>5, <2>6, <2>7, ReplacedKeeps
<1>4. ASSUME pages' = (pages \ {c}) \cup {[c EXCEPT !.at = "failed"]}
      PROVE  HistoryInv'
  <2>1. PICK d : d = [c EXCEPT !.at = "failed"]
    OBVIOUS
  <2>2. /\ d \in Call /\ d.request = c.request /\ d.before = c.before /\ d.known = c.known
        /\ d.at = "failed"
    BY <1>1, <2>1 DEF Call
  <2> QED
    BY <1>1, <1>2, <1>4, <2>1, <2>2, ReplacedKeeps
<1> QED
  BY <1>3, <1>4 DEF ServePage

LEMMA PageArrivalKeeps ==
  ASSUME HistoryInv, NEW c \in pages, PageArrives(c)
  PROVE  HistoryInv'
<1>1. /\ c \in Call /\ feed \in Feed /\ pages \subseteq Call /\ c.at # "asked"
      /\ c.request <= feed.request /\ c.known \subseteq committed
      /\ c.request # 0 => c.before = 0
      /\ c.at = "read" => PageRead(c)
      /\ pages' = pages \ {c} /\ UNCHANGED <<written, committed, mixed>>
  BY DEF HistoryInv, HistoryTypeOK, Requests, PageArrives
<1>2. feed' = IF c.request \notin {0, feed.request} THEN feed
              ELSE IF c.at = "failed" THEN [feed EXCEPT !.loading = FALSE]
              ELSE IF c.request = 0
              THEN [feed EXCEPT !.loading = FALSE, !.next = c.next, !.shown = feed.shown \o c.page]
              ELSE [feed EXCEPT !.loading = FALSE, !.next = c.next, !.shown = c.page, !.known = c.known]
  BY DEF PageArrives
<1>3. feed'.request = feed.request => Requests'
  BY <1>1 DEF HistoryInv, Requests, PageRead
<1>4. feed' \in Feed => HistoryTypeOK'
  BY <1>1 DEF HistoryInv, HistoryTypeOK
<1>5. c.page \in Seq(Entries) /\ c.next \in 0..MaxEntries /\ c.known \in SUBSET Entries
  BY <1>1, PageType DEF Call
<1>6. CASE c.request \notin {0, feed.request}
  <2>1. feed' = feed
    BY <1>2, <1>6
  <2> QED
    BY <1>1, <1>3, <1>4, <2>1 DEF HistoryInv, HistoryTypeOK, FeedWhole, OlderFits
<1>7. ASSUME c.request \in {0, feed.request}, ~mixed
      PROVE  OlderFits'
  <2>1. OlderFits
    BY <1>7 DEF HistoryInv
  <2>2. \A d \in pages \ {c} : d.request # 0
    BY <1>7, <2>1 DEF OlderFits
  <2> QED
    BY <1>1, <2>2 DEF OlderFits
<1>8. CASE c.request \in {0, feed.request} /\ c.at = "failed"
  <2>1. feed' = [feed EXCEPT !.loading = FALSE]
    BY <1>2, <1>8
  <2>2. /\ feed' \in Feed /\ feed'.request = feed.request /\ feed'.next = feed.next
        /\ feed'.shown = feed.shown /\ feed'.known = feed.known
    BY <1>1, <2>1 DEF Feed
  <2>3. ~mixed => FeedWhole'
    BY <1>1, <2>2 DEF HistoryInv, FeedWhole
  <2> QED
    BY <1>1, <1>3, <1>4, <1>7, <1>8, <2>2, <2>3 DEF HistoryInv
<1>9. CASE c.request = 0 /\ c.at # "failed"
  <2>0. c.at = "read" /\ PageRead(c)
    BY <1>1, <1>9 DEF Call
  <2>1. PICK s : s = feed.shown \o c.page
    OBVIOUS
  <2>2. feed' = [feed EXCEPT !.loading = FALSE, !.next = c.next, !.shown = s]
    BY <1>2, <1>9, <2>1
  <2>3. feed.shown \in Seq(Entries) /\ s \in Seq(Entries)
    BY <1>1, <1>5, <2>1, ConcatProperties DEF Feed
  <2>4. /\ feed' \in Feed /\ feed'.request = feed.request /\ feed'.next = c.next
        /\ feed'.shown = s /\ feed'.known = feed.known
    BY <1>1, <1>5, <2>2, <2>3 DEF Feed
  <2>5. ASSUME ~mixed PROVE FeedWhole'
    <3>1. FeedWhole /\ feed.next # 0 /\ c.before = feed.next /\ feed.known \subseteq c.known
      BY <1>9, <2>0, <2>5 DEF HistoryInv, OlderFits
    <3>2. /\ Descending(feed.shown) /\ feed.shown # << >> /\ feed.next = Last(feed.shown)
          /\ Descending(c.page) /\ \A e \in ToSet(c.page) : e < Last(feed.shown)
      BY <2>0, <3>1 DEF FeedWhole, PageRead
    <3>3. /\ Descending(s) /\ s # << >> /\ ToSet(s) = ToSet(feed.shown) \cup ToSet(c.page)
          /\ c.page # << >> => Last(s) = Last(c.page)
      BY <1>5, <2>1, <2>3, <3>2, Appended
    <3>4. c.next # 0 => c.page # << >> /\ c.next = Last(c.page)
      BY <2>0 DEF PageRead
    <3>5. ASSUME NEW e \in feed.known, c.next = 0 \/ e >= c.next
          PROVE  e \in ToSet(s)
      <4>1. e \in Nat /\ c.next \in Nat /\ feed.next \in Nat
        BY <1>1, <1>5, EntriesAreNumbers DEF Feed
      <4>2. CASE e >= feed.next
        BY <3>1, <3>3, <4>2 DEF FeedWhole
      <4>3. CASE e < feed.next
        <5>1. e \in ToSet(c.page) \/ (c.next # 0 /\ e < c.next)
          BY <2>0, <3>1, <4>3 DEF PageRead
        <5>2. ~(c.next # 0 /\ e < c.next)
          BY <3>5, <4>1
        <5> QED
          BY <3>3, <5>1, <5>2
      <4> QED
        BY <4>1, <4>2, <4>3
    <3>6. feed.request # 0 /\ feed.known \subseteq committed
      BY <3>1 DEF FeedWhole
    <3> QED
      BY <1>1, <2>4, <3>3, <3>4, <3>5, <3>6 DEF FeedWhole
  <2> QED
    BY <1>1, <1>3, <1>4, <1>7, <1>9, <2>4, <2>5 DEF HistoryInv
<1>10. CASE c.request # 0 /\ c.request = feed.request /\ c.at # "failed"
  <2>0. c.at = "read" /\ PageRead(c) /\ c.before = 0
    BY <1>1, <1>10 DEF Call
  <2>1. feed' = [feed EXCEPT !.loading = FALSE, !.next = c.next, !.shown = c.page, !.known = c.known]
    BY <1>2, <1>10
  <2>2. /\ feed' \in Feed /\ feed'.request = feed.request /\ feed'.next = c.next
        /\ feed'.shown = c.page /\ feed'.known = c.known
    BY <1>1, <1>5, <2>1 DEF Feed
  <2>3. FeedWhole'
    <3>1. ASSUME NEW e \in c.known, c.next = 0 \/ e >= c.next PROVE e \in ToSet(c.page)
      <4>0. e \in Entries /\ c.next \in 0..MaxEntries
        BY <1>5
      <4>1. e \in Nat /\ c.next \in Nat
        BY <4>0, EntriesAreNumbers
      <4>2. e \in ToSet(c.page) \/ (c.next # 0 /\ e < c.next)
        BY <2>0 DEF PageRead
      <4> QED
        BY <3>1, <4>1, <4>2
    <3>2. Descending(c.page) /\ (c.next # 0 => c.page # << >> /\ c.next = Last(c.page))
      BY <2>0 DEF PageRead
    <3> QED
      BY <1>1, <1>10, <2>2, <3>1, <3>2 DEF FeedWhole
  <2> QED
    BY <1>1, <1>3, <1>4, <1>7, <1>10, <2>2, <2>3 DEF HistoryInv
<1> QED
  BY <1>6, <1>8, <1>9, <1>10

LEMMA HistoryStep == HistoryInv /\ [HistoryNext]_historyVars => HistoryInv'
<1> SUFFICES ASSUME HistoryInv, [HistoryNext]_historyVars PROVE HistoryInv'
  OBVIOUS
<1>1. CASE WriteEntry
  <2>1. written' \in 0..MaxEntries /\ committed' \subseteq 1..written'
    BY <1>1, HistoryAssumption DEF WriteEntry, HistoryInv, HistoryTypeOK
  <2> QED
    BY <1>1, <2>1, WritingKeeps DEF WriteEntry
<1>2. ASSUME NEW e \in Entries, RecordActivity(e) PROVE HistoryInv'
  <2>1. written' \in 0..MaxEntries /\ committed' \subseteq 1..written'
    BY <1>2 DEF RecordActivity, HistoryInv, HistoryTypeOK
  <2> QED
    BY <1>2, <2>1, WritingKeeps DEF RecordActivity
<1>3. CASE UNCHANGED historyVars
  <2>1. UNCHANGED <<written, committed, feed, pages, mixed>>
    BY <1>3 DEF historyVars
  <2>2. written \in 0..MaxEntries /\ committed \subseteq 1..written
    BY DEF HistoryInv, HistoryTypeOK
  <2> QED
    BY <2>1, <2>2, WritingKeeps
<1> QED
  BY <1>1, <1>2, <1>3, FirstPageKeeps, OlderPageKeeps, PageServedKeeps, PageArrivalKeeps DEF HistoryNext

LEMMA WholeHistory == HistoryInv => HistoryWhole
<1> SUFFICES ASSUME HistoryInv, ~mixed
             PROVE  /\ \A i \in 1..(Len(feed.shown) - 1) : feed.shown[i + 1] < feed.shown[i]
                    /\ \A e \in feed.known : feed.next = 0 \/ e >= Last(feed.shown)
                                               => e \in ToSet(feed.shown)
  BY DEF HistoryWhole
<1>1. FeedWhole /\ feed.shown \in Seq(Entries)
  BY DEF HistoryInv, HistoryTypeOK, Feed
<1>2. Len(feed.shown) \in Nat /\ DOMAIN feed.shown = 1..Len(feed.shown)
  BY <1>1, LenProperties
<1>3. ASSUME NEW i \in 1..(Len(feed.shown) - 1)
      PROVE  feed.shown[i + 1] < feed.shown[i]
  <2>1. i \in DOMAIN feed.shown /\ i + 1 \in DOMAIN feed.shown /\ i < i + 1
    BY <1>2
  <2> QED
    BY <1>1, <2>1 DEF FeedWhole, Descending
<1> QED
  BY <1>1, <1>3 DEF FeedWhole

\* For any pages and any changes, however their transactions and the calls
\* overlap: the feed runs down without a gap or a repetition.
THEOREM NothingSkippedOrTwice == HistorySpec => []HistoryWhole
<1> QED
  BY InitHistory, HistoryStep, WholeHistory, PTL DEF HistorySpec
===============================================================================
