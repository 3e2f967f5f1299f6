------------------------------ MODULE Onboarding ------------------------------
(***************************************************************************)
(* Setting up a workspace in three steps (OnboardingFlow), for the first   *)
(* one and for additional ones.  Creating must happen once for a setup,    *)
(* though pages are left, reloaded and returned to, sessions end and       *)
(* answers come late: the workspace created is kept in sessionStorage, and *)
(* a step 1 that knows of it renames it.                                   *)
(***************************************************************************)
EXTENDS WorkspaceContext

CONSTANT MaxCreating    \* bound: creations under way at once

VARIABLES
    exists,         \* the workspaces that were ever created
    draft,          \* [mode -> the progress kept in sessionStorage]
    flow,           \* the setup page, when it is open
    creating,       \* requests to create a workspace, under way
    made            \* ghost: [mode -> the last workspace this setup was told of]

setupVars == <<exists, draft, flow, creating, made>>

Modes == {"first", "additional"}

SetupProgress == [workspace : Workspace \cup {NoWorkspace}, step : 1..3]
AtStart == [workspace |-> NoWorkspace, step |-> 1]

\* The page: whether the saved progress was looked at, and the progress shown.
Flow == [ready : BOOLEAN, progress : SetupProgress]
NewFlow == [ready |-> FALSE, progress |-> AtStart]

\* A creation: asked by the page still open ("here"), one left since ("away"),
\* or by a document that is gone, where nobody hears the answer.  In step 1 of
\* the first setup another time zone is saved first ("profile").
Creation == [mode : Modes, by : Account, from : {"here", "away", "gone"},
             said : {"profile", "nothing", "made", "failed"},
             made : Workspace \cup {NoWorkspace}]

SetupTypeOK ==
    /\ exists \subseteq Workspace
    /\ UNION {ToSet(member[a]) : a \in Account} \subseteq exists
    /\ draft \in [Modes -> SetupProgress] /\ flow \in Flow
    /\ creating \subseteq Creation
    /\ made \in [Modes -> Workspace \cup {NoWorkspace}]
    /\ tab.page \in Modes \/ flow = NewFlow

InSetup == SignedIn /\ tab.page \in Modes

\* Mutated form: the saved progress is looked at when the page opens, and not
\* when the list of workspaces changes.
ResumedOnce(f, list, kept) ==
    IF f.ready THEN f
    ELSE [ready |-> TRUE, progress |-> IF kept.workspace \in ToSet(list) THEN kept ELSE f.progress]

\* The page resumes where the tab left off, for a workspace the list has.
Resumed(f, list, kept) ==
    [ready |-> TRUE, progress |-> IF kept.workspace \in ToSet(list) THEN kept ELSE f.progress]

Moved(calls) == {IF c.from = "here" THEN [c EXCEPT !.from = "away"] ELSE c : c \in calls}
Gone(calls)  == {[c EXCEPT !.from = "gone"] : c \in {d \in calls : d.said # "profile"}}

-----------------------------------------------------------------------------
\* A step of the context, and the effects of the setup page: it starts anew
\* when it is opened, and resumes when the list is loaded or changes.  Signing
\* out clears the drafts; a session that ends does not.
SetupFollows ==
    LET opened == tab'.page # tab.page \/ (tab.loaded /\ ~tab'.loaded)
        f == IF opened THEN NewFlow ELSE flow
    IN  /\ flow' = IF tab'.page \in Modes /\ tab'.user # NoAccount /\ tab'.loaded
                   THEN Resumed(f, tab'.listed, draft'[tab'.page]) ELSE f
        /\ creating' = IF opened THEN Moved(creating) ELSE creating

ContextChanges ==
    /\ SignInTabs \/ RefreshStep \/ PlaceStep \/ ElsewhereStep
    /\ UNCHANGED <<draft, made>>
    /\ SetupFollows

Leaves ==
    /\ SignOutTab
    /\ \/ draft' = [m \in Modes |-> AtStart] /\ made' = [m \in Modes |-> NoWorkspace]
       \/ UNCHANGED <<draft, made>>
    /\ SetupFollows

Reloads ==
    /\ ReloadTab
    /\ flow' = NewFlow
    /\ creating' = Gone(creating)
    /\ UNCHANGED <<draft, made>>

ContextMovesOn == (ContextChanges \/ Leaves \/ Reloads) /\ UNCHANGED exists

-----------------------------------------------------------------------------
\* goTo: the progress is shown and kept.
GoTo(m, p) == /\ flow' = [flow EXCEPT !.progress = p]
              /\ draft' = [draft EXCEPT ![m] = p]

Saving == \E c \in creating : c.from = "here"

\* The workspace already created in this setup, if the list has it.
OwnWorkspace == IF flow.progress.workspace \in ToSet(tab.listed) THEN flow.progress.workspace ELSE NoWorkspace

\* Step 1 of a setup that has its workspace renames it.
RenameAndGoOn ==
    /\ InSetup /\ flow.ready /\ flow.progress.step = 1 /\ ~Saving
    /\ OwnWorkspace # NoWorkspace
    /\ GoTo(tab.page, [workspace |-> OwnWorkspace, step |-> 2])
    /\ UNCHANGED <<contextVars, exists, creating, made>>

AskForWorkspace ==
    \E said \in {"nothing"} \cup (IF tab.page = "first" THEN {"profile"} ELSE {}) :
    /\ InSetup /\ flow.ready /\ flow.progress.step = 1 /\ ~Saving
    /\ OwnWorkspace = NoWorkspace
    /\ Cardinality(creating) < MaxCreating
    /\ creating' = creating \cup {[mode |-> tab.page, by |-> tab.user, from |-> "here",
                                   said |-> said, made |-> NoWorkspace]}
    /\ UNCHANGED <<contextVars, exists, draft, flow, made>>

\* The time zone is saved or could not be: the creation is requested all the
\* same, wherever the tab is by then, in the name of who is signed in.
SendCreation(c) ==
    /\ c \in creating /\ c.said = "profile"
    /\ creating' = (creating \ {c}) \cup
           {IF SignedIn THEN [c EXCEPT !.said = "nothing", !.by = tab.user]
            ELSE [c EXCEPT !.said = "failed"]}
    /\ UNCHANGED <<contextVars, exists, draft, flow, made>>

\* The workspace and its owner's membership in one transaction; the call may
\* fail before that, and its answer may be lost after it.
ServeCreation(c) ==
    /\ c \in creating /\ c.said = "nothing"
    /\ \/ /\ creating' = (creating \ {c}) \cup {[c EXCEPT !.said = "failed"]}
          /\ UNCHANGED <<member, exists>>
       \/ \E w \in Workspace \ exists, said \in {"made", "failed"} :
            /\ creating' = (creating \ {c}) \cup
                   {[c EXCEPT !.said = said, !.made = IF said = "made" THEN w ELSE NoWorkspace]}
            /\ exists' = exists \cup {w}
            /\ member' = [member EXCEPT ![c.by] = Append(@, w)]
    /\ UNCHANGED <<tab, refresh, lastWord, draft, flow, made>>

\* Mutated form: the new progress is shown and not kept.
KeepNothing(m, w) == draft

KeepCreated(m, w) == [draft EXCEPT ![m] = [workspace |-> w, step |-> 2]]

\* The context adds the workspace and opens it; the page, if it is still the
\* one that asked, goes to step 2; left or not, it keeps the progress.
CreationArrives(c) ==
    /\ c \in creating /\ c.said \in {"made", "failed"}
    /\ creating' = creating \ {c}
    /\ IF c.said = "failed" \/ c.from = "gone" THEN UNCHANGED <<tab, draft, flow, made>>
       ELSE /\ tab' = Switched([tab EXCEPT !.listed = Append(Without(@, c.made), c.made)], c.made)
            /\ draft' = KeepCreated(c.mode, c.made)
            /\ made' = [made EXCEPT ![c.mode] = c.made]
            /\ flow' = CASE c.from = "here" -> [ready |-> TRUE, progress |-> [workspace |-> c.made, step |-> 2]]
                         [] InSetup /\ tab.loaded /\ c.from = "away" -> Resumed(flow, tab'.listed, draft'[tab.page])
                         [] OTHER -> flow
    /\ UNCHANGED <<member, refresh, lastWord, exists>>

\* Back and on between the steps; inviting people and adding a first task are
\* optional.
TurnTo(step) ==
    /\ InSetup /\ flow.ready /\ flow.progress.workspace # NoWorkspace
    /\ flow.progress.step # 1 /\ step \in {flow.progress.step - 1, flow.progress.step + 1} \cap 1..3
    /\ GoTo(tab.page, [flow.progress EXCEPT !.step = step])
    /\ UNCHANGED <<contextVars, exists, creating, made>>

Finish ==
    /\ InSetup /\ flow.ready /\ flow.progress.step = 3
    /\ draft' = [draft EXCEPT ![tab.page] = AtStart]
    /\ made' = [made EXCEPT ![tab.page] = NoWorkspace]
    /\ tab' = [Switched(tab, flow.progress.workspace) EXCEPT !.page = "shell"]
    /\ flow' = NewFlow
    /\ creating' = Moved(creating)
    /\ UNCHANGED <<member, refresh, lastWord, exists>>

\* First-time setup is for people without a workspace.
SendHome ==
    /\ InSetup /\ flow.ready /\ tab.page = "first"
    /\ tab.listed # << >> /\ flow.progress.workspace = NoWorkspace
    /\ tab' = [tab EXCEPT !.page = "shell"]
    /\ flow' = NewFlow
    /\ creating' = Moved(creating)
    /\ UNCHANGED <<member, refresh, lastWord, exists, draft, made>>

-----------------------------------------------------------------------------
SetupInit ==
    /\ ContextInit
    /\ exists \in {s \in SUBSET Workspace : \A a \in Account : ToSet(member[a]) \subseteq s}
    /\ draft = [m \in Modes |-> AtStart]
    /\ flow = NewFlow
    /\ creating = {}
    /\ made = [m \in Modes |-> NoWorkspace]

SetupStep == \/ RenameAndGoOn \/ AskForWorkspace \/ Finish \/ SendHome
             \/ \E step \in 1..3 : TurnTo(step)
             \/ \E c \in creating : SendCreation(c) \/ ServeCreation(c) \/ CreationArrives(c)

SetupNext == ContextMovesOn \/ SetupStep

SetupSpec == SetupInit /\ [][SetupNext]_<<contextVars, setupVars>>

-----------------------------------------------------------------------------
\* A setup that has been told of its workspace, which the list still has, never
\* asks for another: not after going back, leaving the page, a reload or a
\* session that ended (OnboardingFlow.tsx:8-11).  What it asked for before may
\* still be waiting for the time zone to be saved.
OneWorkspacePerSetup ==
    [][\A c \in creating' \ creating :
         c.from = "here" /\ c.said \in {"profile", "nothing"} =>
           \/ made[c.mode] \notin ToSet(tab.listed)
           \/ \E d \in creating : d.from = "here" /\ d.said = "profile"]_<<contextVars, setupVars>>
===============================================================================
