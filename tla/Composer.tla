------------------------------- MODULE Composer -------------------------------
(***************************************************************************)
(* The "New task" form of a tab (TaskComposer), its draft in               *)
(* sessionStorage and the calls that create the task.  The form that is    *)
(* opened gets a key, every save of it carries that key, and the server    *)
(* creates one task per key; answers are late or lost, people save again,  *)
(* close the form and open it anew, and the workspace under it may change. *)
(*                                                                         *)
(* The first task of a new workspace (FirstTaskStep) is such a form, with  *)
(* one key and without a draft.                                            *)
(***************************************************************************)
EXTENDS Naturals, FiniteSets

CONSTANTS
    Space,      \* workspaces
    MaxForm,    \* bound: how often the form is opened
    MaxWording, \* bound: what is typed, told apart by a number; 0 is nothing
    MaxSend     \* bound: creations under way at once

ASSUME ComposerBounds == MaxForm \in Nat /\ MaxWording \in Nat

VARIABLES
    composer,   \* the form
    kept,       \* [workspace -> the draft kept for it]
    sends,      \* creations under way
    tasks       \* the tasks created

composerVars == <<composer, kept, sends, tasks>>

Wording == 0..MaxWording

\* `form' is how many forms were opened before and with this one.
\* `done': it is to be created as completed, which asks for a note first.
ComposerState == [open : BOOLEAN, in : Space, form : 0..MaxForm, text : Wording,
                  done : BOOLEAN, asking : BOOLEAN, saving : BOOLEAN]

\* A creation: what the form sent, and how far the server and the answer are;
\* nobody waits for the answers of a page that was reloaded.
Send == [form : 1..MaxForm, key : Nat, in : Space, text : Wording \ {0}, no : 1..2, mounted : BOOLEAN,
         at : {"asked", "missing", "created", "refused"}]

NewTask == [form : 1..MaxForm, key : Nat, in : Space, text : Wording \ {0}]

ComposerTypeOK ==
    /\ composer \in ComposerState
    /\ kept \in [Space -> Wording]
    /\ sends \subseteq Send
    /\ tasks \subseteq NewTask
    /\ composer.asking => composer.open /\ composer.done /\ composer.text # 0

-----------------------------------------------------------------------------
\* While the form is open what it holds is the draft of the workspace shown.
Writes(c) == kept' = IF c.open THEN [kept EXCEPT ![c.in] = c.text] ELSE kept

\* A new form, with a key of its own, starts from the draft.
OpenComposer ==
    /\ ~composer.open /\ composer.form < MaxForm
    /\ LET c == [composer EXCEPT !.open = TRUE, !.form = @ + 1, !.text = kept[composer.in],
                                 !.done = FALSE]
       IN  composer' = c /\ Writes(c)
    /\ UNCHANGED <<sends, tasks>>

Editable == composer.open /\ ~composer.asking

\* Typing goes on while a save is under way; "Start fresh" empties the form.
TypeInto(text, done) ==
    /\ Editable /\ <<text, done>> # <<composer.text, composer.done>>
    /\ LET c == [composer EXCEPT !.text = text, !.done = done] IN composer' = c /\ Writes(c)
    /\ UNCHANGED <<sends, tasks>>

CloseComposer ==
    /\ Editable
    /\ composer' = [composer EXCEPT !.open = FALSE]
    /\ UNCHANGED <<kept, sends, tasks>>

\* Mutated form: every save gets a key of its own.
KeyOfSave(c) == Cardinality(sends) + Cardinality(tasks) + 1

\* The requestId, fresh when the form was opened.
KeyOf(c) == c.form

\* A save; a double click makes two calls before the button is disabled.
Calls(n) == {[form |-> composer.form, key |-> KeyOf(composer), in |-> composer.in,
              text |-> composer.text, no |-> i, mounted |-> TRUE, at |-> "asked"] : i \in 1..n}

SendForm(n) ==
    /\ Cardinality(sends \cup Calls(n)) <= MaxSend /\ Calls(n) \cap sends = {}
    /\ sends' = sends \cup Calls(n)
    /\ composer' = [composer EXCEPT !.asking = FALSE, !.saving = TRUE]

\* A task created as completed asks for its note, and goes on when it has it.
Submit(n) ==
    /\ Editable /\ composer.text # 0 /\ ~composer.saving
    /\ IF composer.done THEN composer' = [composer EXCEPT !.asking = TRUE] /\ UNCHANGED sends
                        ELSE SendForm(n)
    /\ UNCHANGED <<kept, tasks>>

AnswerNote(given) ==
    /\ composer.asking
    /\ IF given THEN SendForm(1)
                ELSE composer' = [composer EXCEPT !.asking = FALSE] /\ UNCHANGED sends
    /\ UNCHANGED <<kept, tasks>>

-----------------------------------------------------------------------------
\* createWorkspaceTask looks the key up in the workspace and, if it is not
\* there, inserts the task; the unique index stops the second of two inserts,
\* which answers with the first's task.
Known(s) == \E t \in tasks : t.key = s.key /\ t.in = s.in

Becomes(s, at) == sends' = (sends \ {s}) \cup {[s EXCEPT !.at = at]}

LookUp(s) ==
    /\ s.at = "asked"
    /\ Becomes(s, IF Known(s) THEN "created" ELSE "missing")
    /\ UNCHANGED <<composer, kept, tasks>>

InsertTask(s) ==
    /\ s.at = "missing"
    /\ tasks' = IF Known(s) THEN tasks ELSE tasks \cup {[form |-> s.form, key |-> s.key,
                                                             in |-> s.in, text |-> s.text]}
    /\ Becomes(s, "created")
    /\ UNCHANGED <<composer, kept>>

\* The call fails before the task exists, or its answer is lost after.
FailSend(s) ==
    /\ s.at \in {"asked", "missing", "created"}
    /\ Becomes(s, "refused")
    /\ UNCHANGED <<composer, kept, tasks>>

\* A task that was added clears the draft of its workspace and closes the form,
\* whichever is open by then; a failure leaves everything as it is.
AnswerSend(s) ==
    /\ s.at \in {"created", "refused"}
    /\ sends' = sends \ {s}
    /\ LET added == s.at = "created" /\ s.mounted IN
       /\ composer' = [composer EXCEPT !.saving = IF s.mounted THEN FALSE ELSE @,
                                       !.open = @ /\ ~added,
                                       !.asking = @ /\ ~added]
       /\ kept' = IF added THEN [kept EXCEPT ![s.in] = 0] ELSE kept
    /\ UNCHANGED tasks

-----------------------------------------------------------------------------
\* The shell opens another workspace, perhaps under an open form: what is
\* typed becomes the other workspace's draft too.
MoveTo(w) ==
    /\ w # composer.in /\ ~composer.asking
    /\ LET c == [composer EXCEPT !.in = w] IN composer' = c /\ Writes(c)
    /\ UNCHANGED <<sends, tasks>>

\* The page is reloaded, or its user signs out, which also drops the drafts.
LeavePage(out) ==
    /\ composer' = [composer EXCEPT !.open = FALSE, !.text = 0, !.done = FALSE,
                                    !.asking = FALSE, !.saving = FALSE]
    /\ sends' = {[s EXCEPT !.mounted = FALSE] : s \in sends}
    /\ kept' = IF out THEN [w \in Space |-> 0] ELSE kept
    /\ UNCHANGED tasks

-----------------------------------------------------------------------------
ComposerInit ==
    /\ composer \in {c \in ComposerState : /\ ~c.open /\ c.form = 0 /\ c.text = 0
                                           /\ ~c.done /\ ~c.asking /\ ~c.saving}
    /\ kept = [w \in Space |-> 0]
    /\ sends = {} /\ tasks = {}

FormStep == \/ OpenComposer \/ CloseComposer
            \/ \E text \in Wording, done \in BOOLEAN : TypeInto(text, done)
            \/ \E n \in 1..2 : Submit(n)
            \/ \E given \in BOOLEAN : AnswerNote(given)

SendStep == \E s \in sends : LookUp(s) \/ InsertTask(s) \/ FailSend(s) \/ AnswerSend(s)

AroundStep == \/ \E w \in Space : MoveTo(w)
              \/ \E out \in BOOLEAN : LeavePage(out)

ComposerNext == FormStep \/ SendStep \/ AroundStep

ComposerSpec == ComposerInit /\ [][ComposerNext]_composerVars

-----------------------------------------------------------------------------
\* However often one opened form is saved - twice by a double click, again after
\* an answer that failed or was lost, with other words - a workspace gets one
\* task of it (TaskComposer.tsx:62, OnboardingFlow.tsx:417, SRS SR06).
OneTaskPerForm ==
    \A t, u \in tasks : t.form = u.form /\ t.in = u.in => t = u
===============================================================================
