------------------------------- MODULE MCClient -------------------------------
(***************************************************************************)
(* Small instances of the modules of the client, for TLC.  A behaviour     *)
(* follows one scenario, chosen at the start, and leaves the rest as it    *)
(* began:                                                                  *)
(*   entering      two people come in and out of one tab                   *)
(*   opening       one tab, two accounts: which page and workspace it opens*)
(*   viewing       one tab: what it shows of the open workspace            *)
(*   settingUp     one tab: setting up a workspace                         *)
(*   composing     one tab: the "New task" form in two workspaces          *)
(*   filtering     the search and filters of a list                        *)
(*   reading       the activity feed                                       *)
(***************************************************************************)
EXTENDS WorkspaceView, Onboarding, Composer, Entrance, TaskFilters, History, TLC

VARIABLE scenario

clientVars == <<contextVars, viewVars, setupVars, composerVars, doorVars, filterVars,
                historyVars, scenario>>

\* One account of the tab reads two workspaces; two accounts may have one each.
Reader == CHOOSE a \in Account : TRUE

InitialLists(a) == CASE scenario = "opening" -> {l \in Lists : Len(l) <= 1}
                     [] scenario = "viewing" /\ a = Reader -> {l \in Lists : Len(l) = 2}
                     [] OTHER -> {<< >>}

\* The form opens in one workspace first.
FirstSpace == CHOOSE w \in Space : TRUE

ClientInit ==
    /\ scenario \in {"entering", "opening", "viewing", "settingUp", "composing", "filtering", "reading"}
    /\ ViewInit /\ SetupInit
    /\ \A a \in Account : member[a] \in InitialLists(a)
    /\ exists = IF scenario = "settingUp" THEN {} ELSE Workspace
    /\ ComposerInit /\ composer.in = FirstSpace
    /\ \E at \in {"login", Home} : EntranceInit(at)
    /\ scenario # "entering" => door.at = Home /\ cookie = Nobody /\ accepted = {}
    /\ FiltersInit
    /\ scenario # "filtering" => url = Unfiltered
    /\ HistoryInit
    /\ scenario # "reading" => written = 0

\* Every invitation is for one of the people.
For == [l \in Link |-> CHOOSE p \in Person : TRUE]

InEntering == EntranceNext(For)

\* The tab of two accounts that have the same workspace or none.
InOpening ==
    /\ ContextNext
    /\ Cardinality(UNION {ToSet(member'[a]) : a \in Account}
                     \cup ({tab'.stored, tab.stored} \ {NoWorkspace})) <= 1

\* The tab of a reader who may leave workspaces; no refresh fails.
InViewing ==
    /\ ViewNext
    /\ tab'.user = Reader /\ tab'.page \in {"shell", "additional"}
    /\ \A r \in refresh' : r.said # "failed"
    /\ tab.loaded => \A r \in refresh' : r.sequel # Stay
    /\ \A a \in Account : Len(member'[a]) <= Len(member[a])
    /\ member' = member \/ Cardinality(refresh') > Cardinality(refresh)

\* The tab of a reader who has only the workspaces set up in it.
InSettingUp ==
    /\ SetupNext
    /\ tab'.user \in {Reader, NoAccount} /\ tab'.page # "invite"
    /\ member' = member \/ exists' # exists
    /\ Cardinality(refresh') <= 1 /\ \A r \in refresh' : r.sequel = Stay

\* Other words are typed into the first form once it was saved; that form alone
\* is for a completed task or clicked twice; the workspace changes once, under
\* a save.
InComposing ==
    /\ ComposerNext
    /\ composer'.text = 2 /\ composer.text # 2 =>
           \E s \in sends \cup tasks : s.form = composer'.form
    /\ composer'.text = 2 \/ composer'.done => composer'.form <= 1
    /\ composer'.done => composer'.text = 1
    /\ \A s \in sends' : s.no = 2 => s.form = 1
    /\ composer'.in # composer.in => sends # {} /\ composer.in = FirstSpace
    /\ kept'[composer.in] < kept[composer.in] => sends # {}

ClientNext ==
    /\ \/ scenario = "entering" /\ InEntering
       \/ scenario = "opening" /\ InOpening
       \/ scenario = "viewing" /\ InViewing
       \/ scenario = "settingUp" /\ InSettingUp
       \/ scenario = "composing" /\ InComposing
       \/ scenario = "filtering" /\ FiltersNext
       \/ scenario = "reading" /\ HistoryNext
    /\ scenario \notin {"opening", "viewing", "settingUp"} => UNCHANGED contextVars
    /\ scenario # "viewing" => UNCHANGED viewVars
    /\ scenario # "settingUp" => UNCHANGED setupVars
    /\ scenario # "composing" => UNCHANGED composerVars
    /\ scenario # "entering" => UNCHANGED doorVars
    /\ scenario # "filtering" => UNCHANGED filterVars
    /\ scenario # "reading" => UNCHANGED historyVars
    /\ UNCHANGED scenario

ClientSpec == ClientInit /\ [][ClientNext]_clientVars

Workspaces == Permutations(Workspace)

===============================================================================
